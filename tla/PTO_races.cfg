SPECIFICATION Spec
CONSTANTS
    Half = 16
    Byte = 4
    TableLen = 2
    PulseNum_Buf <- MCPulseNum2
    PulseNum_Sum_Buf <- MCPulseSum2
    Garbage = {3}
    Positions = {0, 11}
    Levels = {2, 3, 4}
    CallWhileMoving = TRUE
    Limits = "nested"
    MaxCalls = 2
    MaxLimits = 1
INVARIANTS
    OnCourse
PROPERTIES
    ImplementsMove
CHECK_DEADLOCK FALSE
