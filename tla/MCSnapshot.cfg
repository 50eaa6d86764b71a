SPECIFICATION SnapFairSpec
CONSTANTS
    Jobs = {j1, j2, j3, j4}
    j1 = j1
    j2 = j2
    j3 = j3
    j4 = j4
    Key <- MCKey
    WithProgress = {}
    Workers = {w1}
    Reserved = {}
    GUI = GUI
    Clients = {GUI}
    UserActions = {"flush", "stop"}
    Requests = {0}
    NULL = NULL
    DT_CONTROL_MAX_JOBS = 1
    DT_CONTROL_FG_PRIORITY = 1
    PriorityMod = 2
    Engines = {e1, e2}
    Views = {v1, v2}
    MaxMoves = 2
    MaxFailures = 1
CHECK_DEADLOCK FALSE
INVARIANTS
    EngineFreedLast
    OneWriter
    JobFieldLive
PROPERTIES
    NoRenderAfterClear
    CatchesUp
