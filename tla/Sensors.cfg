SPECIFICATION FairSpec
CONSTANTS
    Task = {"SR04", "AM2305", "idle"}
    Idle = "idle"
    Event = {"SR04CommMbox", "AM2305Sem"}
    OS_TASK_IDLE_PRIO = 3
    None = None
    Reserved = Reserved
    SemMax = 3
    SR04Task = "SR04"
    SR04CommMbox = "SR04CommMbox"
    TASK_SR04_PRIO = 2
    TASK_AM2305_PRIO = 1
    SR04Ticks = 1
    SR04Delay = 5
    Echoes = {0, 4}
    TickPulse = 4000
    PP = "pp"
    AM2305Task = "AM2305"
    AM2305Sem = "AM2305Sem"
    AM2305Ticks = 1
    AM2305Delay = 2
    Edges = 3
    Noise = 1
INVARIANTS
    Undisturbed
PROPERTIES
    DistanceFresh
    ReadingIsSensors
    BothGoOn
