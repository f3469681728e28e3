\* The forbidden table written e . u: no whitespace is skipped between a
\* part and its dot, so neither scanner sees a two-part identifier.
CONSTANTS
    Project <- ProjectP
    AllowedDatasets <- AllowedD
    Views <- ViewDV
    StatementTypes <- PlannerTypes
    Inconclusive = FALSE
    Phrases <- SpacedPhrases
    MaxPhrases = 2

SPECIFICATION Spec

\* The validator returns a verdict and stops.
CHECK_DEADLOCK FALSE

INVARIANT NoExplicitBypass
