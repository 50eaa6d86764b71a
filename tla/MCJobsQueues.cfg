SPECIFICATION Spec
CONSTANTS
    j1 = j1
    j2 = j2
    j3 = j3
    Jobs = {j1, j2, j3}
    Key <- MCKey
    WithProgress = {j1}
    Workers = {w1, w2}
    Reserved = {}
    Clients = {c1}
    UserActions = {"cancel"}
    Requests = {1, 3}
    NULL = NULL
    DT_CONTROL_MAX_JOBS = 1
    DT_CONTROL_FG_PRIORITY = 1
    PriorityMod = 2
SYMMETRY MCSymmetry
CHECK_DEADLOCK FALSE
INVARIANTS
    TypeOK
    OneOwner
    OneExport
    NoDuplicateThumbnail
    LengthIsExact
PROPERTY
    ExecuteOnce
