CONSTANTS
    t1 = t1
    t2 = t2
    c1 = c1
    c2 = c2
    w1 = w1
    w2 = w2
    Targets = {t1}
    Cancels = {c1}
    TargetKinds = {"timeout", "mtimeout", "poll", "mpoll", "futex"}
    CancelKinds = {"cancel_fd"}
    Words = {w1, w2}
    Repeats = {0, 2}
    CountModulus = 3
    MaxPerObject = 2
    MaxRequests = 3
    MaxShots = 1
    MaxStores = 1
SPECIFICATION Spec
CHECK_DEADLOCK FALSE
INVARIANTS CancelReportsTruth
