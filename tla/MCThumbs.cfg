SPECIFICATION ThumbSpec
CONSTANTS
    Threads = {t1, t2}
    Demoters = {t1, t2}
    Aborters = {t1, t2}
    Swappers = {t1, t2}
    Flushers = {t1, t2}
    Keys = {0, 1}
    Entries = {e1, e2}
    MaxEdits = 1
    HasAllocate = TRUE
    NULL = NULL
    BLANK = BLANK
    SKULL = SKULL
SYMMETRY MCSymmetry
CHECK_DEADLOCK FALSE
INVARIANTS
    OneRenderer
    NoPoisonOnDisk
    HandedOutIsReady
    FreshAfterFlush
PROPERTY
    UsesContract
