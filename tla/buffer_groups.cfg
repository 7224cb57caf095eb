CONSTANTS
    r1 = r1
    r2 = r2
    Rings = {r1, r2}
    Bgids = {0, 1}
    Capacity = 2
    Bids = {1, 2}
    MaxInits = 3
    MaxGroups = 3
    SwapsAnything = FALSE
    Refinds = TRUE
SPECIFICATION Spec
SYMMETRY RingSymmetry
CHECK_DEADLOCK FALSE
INVARIANTS TypeOK RegistryIsKernels NoLeak GivenBuffersStay
