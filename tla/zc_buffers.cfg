CONSTANTS
    send1 = send1
    msg1 = msg1
    Ops = {send1, msg1}
    MsgOps = {msg1}
    ReportUsage = {send1}
    MaxSends = 4
SPECIFICATION FairSpec
INVARIANTS BufferIsOwners HonestFailure OneResultEach
PROPERTIES BufferReturns
CHECK_DEADLOCK FALSE
