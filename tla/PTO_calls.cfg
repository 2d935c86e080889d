SPECIFICATION FairSpec
CONSTANTS
    Half = 20
    Byte = 8
    TableLen = 3
    PulseNum_Buf <- MCPulseNum3
    PulseNum_Sum_Buf <- MCPulseSum3
    Garbage = {6}
    Positions = {18, 19, 29}
    Levels = {3, 4, 8, 10}
    CallWhileMoving = FALSE
    Limits = "nested"
    MaxCalls = 2
    MaxLimits = 2
INVARIANTS
    MoveExact
PROPERTIES
    LimitHolds
    ProfileFits
    KeepsPromise
CHECK_DEADLOCK FALSE
