CONSTANTS
    b1 = b1
    b2 = b2
    op1 = op1
    op2 = op2
    u1 = u1
    None = None
    Bufs = {b1, b2}
    NSlots = 2
    Ops = {op1, op2}
    Programs <- NoPrograms
    Unregs = {u1}
    MaxNodes = 2
    MaxSubmits = 1
SPECIFICATION Spec
CHECK_DEADLOCK FALSE
INVARIANT ErrorCodePre
