CONSTANTS
    send1 = send1
    msg1 = msg1
    Ops = {send1, msg1}
    MsgOps = {msg1}
    ReportUsage = {}
    MaxSends = 2
SPECIFICATION Spec
INVARIANTS OverMeansFree
CHECK_DEADLOCK FALSE
