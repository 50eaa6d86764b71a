SPECIFICATION Spec
CONSTANTS
    PageSize = 2
    TotalSize = 6
    SizeMax = 1000
    Builds = {"posix", "windows"}
    Threads = {t1, t2}
    Gui = gui
    LineSizes = {1, 3}
    TempSizes = {2, 3}
    Floor = 2
    ExemptSize = 2
    Probes = {0, 1, 6}
    NULL = NULL
SYMMETRY MCSymmetry
INVARIANTS
    HolesWhole
    PixelsSurvive
    AccountExact
    BudgetKept
    FloorKept
PROPERTY
    ImplementsPageStore
