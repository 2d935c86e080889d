SPECIFICATION FairSpec
CONSTANTS
    Start = "Start"
    Step = "Step"
    Lift = "Lift"
    Comm = "Comm"
    RTC = "RTC"
    MSD = "MSD"
    Idle = "Idle"
    Task <- MCTask
    BasePrio <- MCPrio
    Builds <- MCBuilds
    Event = {"RTCMutex"}
    RTCMutex = "RTCMutex"
    OS_TASK_IDLE_PRIO = 7
    TASK_PIP_PRIO = 0
    OS_MUTEX_AVAILABLE = 255
    None = None
    Reserved = Reserved
    CommDelay = 2
    MSDDelay = 1
    InvokeDelay = 1
    Flag = {"Invoke", "Other"}
    Boot = "boot"
    Sent = {"december"}
    Times = {"boot", "december", "month0"}
    Conv <- MCConv
    ReplyLen = 2
    MaxInbox = 1
INVARIANTS
    ClockRight
    FlagsWakeLift
PROPERTIES
    ReplyUnbroken
    TasksGoOn
