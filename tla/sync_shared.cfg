CONSTANTS
    op1 = op1
    op2 = op2
    op3 = op3
    op4 = op4
    Ops = {op1, op2, op3}
    Kind <- KindMixed
    Unsupported = {}
    SqEntries = 2
    MaxSubmits = 3
    MaxShots = 1
    MaxSubmitErrors = 0
    MaxWaitErrors = 0
    MayDisable = FALSE
    SyncShared = TRUE
    Promises <- StopAware
SPECIFICATION FairSpec
PROPERTIES SyncReturnsOwn
