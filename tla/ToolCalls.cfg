SPECIFICATION FairServerSpec
CONSTANTS
    c1 = c1
    r1 = r1
    Call <- MCCall
    Reader <- MCReader
    Looker <- MCLooker
    Session <- MCCall
    Thing = {t1}
    Guest = {t1}
    Operations <- Operation
    CanAsk = {TRUE, FALSE}
    MaxWait = 3
    ConfirmOnly <- LossyOnConfirm
    Ttl = 2
    Latency = 1
INVARIANTS
    TypeOK
    TypesOK
    NothingWithoutConsent
    AnswerTrue
    DoneIsDone
PROPERTIES
    WorkOnce
    LossAcked
    WrongTypeIsYoung
    CallReturns
