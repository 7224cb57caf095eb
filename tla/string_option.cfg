SPECIFICATION Spec
CONSTANTS
    Domain = "ipv4"
    Characters = {"a", "b", "c"}
    Names <- MCNames
    Bound <- MCBound
    MaxFd = 2
    SOMAXCONN = 2
    INT_MAX = 4
    Backlogs = {1, 3}
    OptionKind = "string"
    OptionValues <- MCOptionValues
    DefaultOption = ""
    Programs <- MCPrograms
    MaxOpens = 3
    MaxConnects = 2
    MaxCalls = 2
INVARIANTS
    OptionReadsBack
CHECK_DEADLOCK FALSE
