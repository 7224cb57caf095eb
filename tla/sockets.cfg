SPECIFICATION Spec
CONSTANTS
    Domain = "unix"
    Characters = {"a", "b", "c"}
    Names <- MCNames
    Bound <- MCBound
    MaxFd = 2
    SOMAXCONN = 2
    INT_MAX = 4
    Backlogs = {1, 3}
    OptionKind = "bool"
    OptionValues <- MCOptionValues
    DefaultOption = FALSE
    Programs <- MCPrograms
    MaxOpens = 3
    MaxConnects = 2
    MaxCalls = 3
INVARIANTS
    TypeOK
    ReportsTruth
    NoLeak
PROPERTIES
    EveryoneAccepted
CHECK_DEADLOCK FALSE
