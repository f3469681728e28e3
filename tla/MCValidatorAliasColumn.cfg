\* SELECT e.u FROM d.v e: an authorized view read through an alias e whose
\* column u is written alias-qualified.  The auditor, which knows no
\* aliases, puts the default project in front of e.u and sees p.e.u.
CONSTANTS
    Project <- ProjectP
    AllowedDatasets <- AllowedD
    Views <- ViewDV
    StatementTypes <- PlannerTypes
    Inconclusive = FALSE
    Phrases <- AliasColumnPhrases
    MaxPhrases = 4

SPECIFICATION Spec

\* The validator returns a verdict and stops.
CHECK_DEADLOCK FALSE

INVARIANT ViewsUsable
