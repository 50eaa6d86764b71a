SPECIFICATION Spec
CONSTANTS
    Entries = {e1, e2, e3, e4}
    Modules = 2
    Histories <- MCHistories
    MaxRuns = 2
    MaxFlushes = 1
SYMMETRY MCSymmetry
INVARIANTS
    RefcountExact
    HeldIsAlive
    LinesTrue
    ReadersSeeLine
PROPERTY
    BorrowedNotFreed
