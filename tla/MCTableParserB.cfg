\* The second version of TableParser on every text of at most four phrases
\* of ParserPhrasesB, with the default project p.  A returned call stutters
\* (Returned), so a deadlock is a running call with no step.
CONSTANTS
    DefaultProject <- ProjectP
    Phrases <- ParserPhrasesB
    MaxPhrases = 4

SPECIFICATION Spec

INVARIANT NoUnderReport
PROPERTY ScanAdvances
