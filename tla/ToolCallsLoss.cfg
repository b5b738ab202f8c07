SPECIFICATION Spec
CONSTANTS
    Call = {c1}
    Thing = {t1}
    Operations <- Preparing
    CanAsk = {TRUE, FALSE}
    MaxWait = 1
    ConfirmOnly = {}
PROPERTY
    LossAcked
