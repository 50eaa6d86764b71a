SPECIFICATION Spec
CONSTANTS
    Threads = {t1, t2, t3}
    Demoters = {t1, t2, t3}
    Keys = {k1, k2, k3}
    Entries = {e1, e2, e3, e4}
    Costs = {1, 2}
    cost_quota = 3
    HasAllocate = TRUE
    NULL = NULL
SYMMETRY MCSymmetry
CHECK_DEADLOCK FALSE
INVARIANTS
    IndexConsistent
    CostExact
    HeldIsLocked
PROPERTIES
    DemotionProtected
    EvictsOldestUntilBelow
    KeepsContract
