SPECIFICATION Spec
CONSTANTS
    Domain = "unix"
    Characters = {"a", "b", "c"}
    Names <- MCNames
    Bound <- MCBound
    MaxFd = 2
    SOMAXCONN = 2
    INT_MAX = 4
    Backlogs = {0, 3}
    OptionKind = "bool"
    OptionValues <- MCOptionValues
    DefaultOption = FALSE
    Programs <- MCPrograms
    MaxOpens = 3
    MaxConnects = 2
    MaxCalls = 2
INVARIANTS
    LengthAsserted
CHECK_DEADLOCK FALSE
