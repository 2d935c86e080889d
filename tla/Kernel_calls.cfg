SPECIFICATION Spec
CONSTANTS
    Task = {"hi", "mid", "lo", "idle"}
    Idle = "idle"
    Event = {"M", "B", "S"}
    OS_TASK_IDLE_PRIO = 5
    None = None
    Reserved = Reserved
    SemMax = 1
    OS_MUTEX_AVAILABLE = 255
    BasePrio <- MCBasePrio
    M = "M"
    B = "B"
    S = "S"
    Pip = 1
    Message = {"a", "b"}
    Timeouts = {0, 1}
    Careful = TRUE
INVARIANTS
    Consistent
    NoLostWakeup
    Inherits
PROPERTIES
    NothingLost
