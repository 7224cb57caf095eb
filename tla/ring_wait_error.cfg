CONSTANTS
    op1 = op1
    op2 = op2
    op3 = op3
    op4 = op4
    Ops = {op1, op2, op3}
    Kind <- KindMixed
    Unsupported = {}
    SqEntries = 2
    MaxSubmits = 3
    MaxShots = 1
    MaxSubmitErrors = 0
    MaxWaitErrors = 1
    MayDisable = FALSE
    SyncShared = FALSE
    Promises <- StopAware
SPECIFICATION Spec
INVARIANTS NoOrphan
