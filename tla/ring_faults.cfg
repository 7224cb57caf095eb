CONSTANTS
    op1 = op1
    op2 = op2
    op3 = op3
    op4 = op4
    Ops = {op1, op2, op3}
    Kind <- KindMixed
    Unsupported = {}
    SqEntries = 2
    MaxSubmits = 3
    MaxShots = 1
    MaxSubmitErrors = 2
    MaxWaitErrors = 1
    MayDisable = TRUE
    SyncShared = TRUE
    Promises <- StopBlind
SPECIFICATION Spec
INVARIANTS TypeOK NoLostWaiter
CHECK_DEADLOCK FALSE
