CONSTANTS
    send1 = send1
    msg1 = msg1
    Ops = {send1, msg1}
    MsgOps = {msg1}
    ReportUsage = {send1}
    MaxSends = 2
SPECIFICATION FairSpec
PROPERTIES NotificationIsNoError
CHECK_DEADLOCK FALSE
