\* A planner that lists no tables, and a CTE named like the forbidden
\* table: the flat alias set suppresses the table in the fall-back parse.
CONSTANTS
    Project <- ProjectP
    AllowedDatasets <- AllowedD
    Views <- ViewDV
    StatementTypes <- PlannerTypes
    Inconclusive = TRUE
    Phrases <- CTEPhrases
    MaxPhrases = 3

SPECIFICATION Spec

\* The validator returns a verdict and stops.
CHECK_DEADLOCK FALSE

INVARIANT NoExplicitBypass
