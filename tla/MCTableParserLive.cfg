\* Termination of TableParser on every text of at most three of LivePhrases.
CONSTANTS
    DefaultProject <- ProjectP
    Phrases <- LivePhrases
    MaxPhrases = 3

SPECIFICATION Spec

\* TableParser returns once its loop ends: a finished parse has no step.
CHECK_DEADLOCK FALSE

PROPERTY ParseTerminates
