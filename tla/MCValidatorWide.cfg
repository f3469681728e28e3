\* SELECT 1 AS `WIDE`,'a' FROM e.u, where WIDE is one letter of three bytes:
\* both scanners resume two runes after the closing backtick, skip the
\* opening quote of 'a' and read FROM e.u as the inside of a string.
CONSTANTS
    Project <- ProjectP
    AllowedDatasets <- AllowedD
    Views <- ViewDV
    StatementTypes <- PlannerTypes
    Inconclusive = FALSE
    Phrases <- WidePhrases
    MaxPhrases = 4

SPECIFICATION Spec

\* The validator returns a verdict and stops.
CHECK_DEADLOCK FALSE

INVARIANT NoExplicitBypass
