\* TableParser on every text of at most four phrases of ParserPhrases,
\* with the default project p.
CONSTANTS
    DefaultProject <- ProjectP
    Phrases <- ParserPhrases
    MaxPhrases = 4

SPECIFICATION Spec

\* TableParser returns once its loop ends: a finished parse has no step.
CHECK_DEADLOCK FALSE

INVARIANT TypeOK
INVARIANT NoUnderReport
