SPECIFICATION Spec
CONSTANTS
    Threads = {t1, t2, t3, t4}
    Writers = {t1}
    MaxNesting = 4
    NULL = NULL
SYMMETRY MCSymmetry
INVARIANTS
    HoldsMatchOwed
