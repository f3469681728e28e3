\* The validator on every text of at most three phrases of ValidatorPhrases,
\* project p, a planner that always lists the tables it reads.
CONSTANTS
    Project <- ProjectP
    AllowedDatasets <- AllowedD
    Views <- ViewDV
    StatementTypes <- PlannerTypes
    Inconclusive = FALSE
    Phrases <- ValidatorPhrases
    MaxPhrases = 3

SPECIFICATION Spec

\* The validator returns a verdict and stops.
CHECK_DEADLOCK FALSE

INVARIANT TypeOK
INVARIANT NoExplicitBypass
INVARIANT ViewsUsable
INVARIANT NoForbiddenWrite
