CONSTANTS
    t1 = t1
    t2 = t2
    c1 = c1
    c2 = c2
    w1 = w1
    w2 = w2
    Targets = {t1}
    Cancels = {c1}
    TargetKinds = {"mtimeout"}
    CancelKinds = {"cancel", "cancel_all", "timeout_cancel", "poll_remove", "poll_update"}
    Words = {w1, w2}
    Repeats = {3}
    CountModulus = 3
    MaxPerObject = 2
    MaxRequests = 1
    MaxShots = 3
    MaxStores = 1
SPECIFICATION Spec
CHECK_DEADLOCK FALSE
PROPERTIES RepeatsAsAsked
