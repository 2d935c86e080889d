SPECIFICATION Spec
CONSTANTS
    Tcpip = Tcpip
    Client = Client
    Rest = Rest
    Idle = Rest
    None = None
    EOF = EOF
    Reserved = Reserved
    Task = {Tcpip, Client, Rest}
    Event = {"mbox", "recvmbox", "op_completed"}
    OS_TASK_IDLE_PRIO = 3
    SemMax = 3
    TCP_TMR_INTERVAL = 2
    ARP_TMR_INTERVAL = 1
    IP_TMR_INTERVAL = 1
    SYS_ARCH_LONG = 9
    TCPIP_MBOX_SIZE = 2
    RECVMBOX_SIZE = 2
    MEMP_NUM_TCPIP_MSG_INPKT = 1
    Blocks = 2
    Segments = 2
    TCP_SND_QUEUELEN = 1
    TCP_SYNMAXRTX = 1
    TCP_MAXRTX = 2
    NrtxValues = 3
    RecvTimeout = 1
INVARIANTS
    CallsSound
PROPERTIES
    StuckForEver
    StreamKept
    TimersRight
    CallsReturn
