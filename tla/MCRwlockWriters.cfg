SPECIFICATION Spec
CONSTANTS
    Threads = {t1, t2}
    Writers = {t1, t2}
    MaxNesting = 2
    NULL = NULL
CHECK_DEADLOCK FALSE
INVARIANT Exclusion
