CONSTANTS
    op1 = op1
    op2 = op2
    op3 = op3
    op4 = op4
    Ops = {op1, op2, op3, op4}
    Kind <- KindProbed
    Unsupported = {op4}
    SqEntries = 2
    MaxSubmits = 4
    MaxShots = 1
    MaxSubmitErrors = 0
    MaxWaitErrors = 0
    MayDisable = FALSE
    SyncShared = FALSE
    Promises <- StopAware
SPECIFICATION FairSpec
INVARIANTS NoOrphan
PROPERTIES SyncReturnsOwn KeepsPromise Completes
