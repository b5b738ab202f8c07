SPECIFICATION FairSpec
CONSTANTS
    NextWords <- MCNextWords
    NextLines <- MCNextLines
    Dirs <- Dirs_
    MaxWraps = 2
    MaxWords = 3
INVARIANTS
    TypeOK
    DangerAcked
    
    ReadsOnly
    MeaningKept
    HostAnswersFirst
    GoneInTime
    NothingLeftOpen
PROPERTIES
    NothingStays
CHECK_DEADLOCK FALSE
