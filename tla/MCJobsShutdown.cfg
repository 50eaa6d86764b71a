SPECIFICATION FairSpec
CONSTANTS
    j1 = j1
    j2 = j2
    j3 = j3
    Jobs = {j1, j2}
    Key <- MCKey
    WithProgress = {j1}
    Workers = {w1}
    Reserved = {r1}
    Clients = {c1}
    UserActions = {"flush", "stop"}
    Requests = {1, 3, 5}
    NULL = NULL
    DT_CONTROL_MAX_JOBS = 1
    DT_CONTROL_FG_PRIORITY = 1
    PriorityMod = 2

CHECK_DEADLOCK FALSE
INVARIANTS
    NoSilentLoss
PROPERTY
    EveryJobServed
