\* The forbidden table after a line comment opened right after an
\* identifier: a-- reads as one identifier, so the comment is missed.
CONSTANTS
    Project <- ProjectP
    AllowedDatasets <- AllowedD
    Views <- ViewDV
    StatementTypes <- PlannerTypes
    Inconclusive = FALSE
    Phrases <- DashPhrases
    MaxPhrases = 4

SPECIFICATION Spec

\* The validator returns a verdict and stops.
CHECK_DEADLOCK FALSE

INVARIANT NoExplicitBypass
