\* A domain-scoped project example.com:p: the formatted table IDs split
\* into four parts, which the three-part checks skip.
CONSTANTS
    Project <- ProjectDomain
    AllowedDatasets <- AllowedD
    Views <- ViewDV
    StatementTypes <- PlannerTypes
    Inconclusive = FALSE
    Phrases <- PlainPhrases
    MaxPhrases = 2

SPECIFICATION Spec

\* The validator returns a verdict and stops.
CHECK_DEADLOCK FALSE

INVARIANT NoExplicitBypass
