CONSTANTS
    f1 = f1
    f2 = f2
    f3 = f3
    None = None
    Files = {f1, f2, f3}
    NSlots = 3
    Fds = {1, 4}
    Indexes = {0}
    Offsets = {0, 1}
    FileOpsOnConnections = FALSE
    ReusesAllocated = FALSE
    MaxHandles = 3
SPECIFICATION Spec
INVARIANTS TypeOK HandlesMeanFiles NoLeak
