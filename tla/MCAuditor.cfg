\* The auditor on every text of at most four phrases of AuditPhrases, with
\* no target or the target p.e.u.
CONSTANTS
    DefaultProject <- ProjectP
    Target <- TargetPEU
    Phrases <- AuditPhrases
    MaxPhrases = 4

SPECIFICATION Spec

\* The call returns its answer and the scan stops.
CHECK_DEADLOCK FALSE

INVARIANT AuditorExact
INVARIANT AuditorExactB
