SPECIFICATION FairSpec
CONSTANTS
    NextWords <- MCNextWords
    NextLines <- MCNextLines
    Dirs <- Dirs_
    MaxWraps = 0
    MaxWords = 2
INVARIANTS
    RanIsRecorded
CHECK_DEADLOCK FALSE
