SPECIFICATION Spec
CONSTANTS
    Byte = {0, 1, 2, 3, 4, 5, 6, 7}
    XorByte <- MCXorByte
    HEAD1 = 2
    HEAD2 = 0
    END1 = 5
    END2 = 3
    Distance = 1
    VERSION = 2
    Temp = 3
    TimeGet = 4
    TimeCalibration = 5
    Lift = 6
    StepMotor = 7
    MaxData = 3
    TimeLen = 2
    LEN = 2
    Times <- MCTimes
INVARIANTS
    RepliesAreFrames
    HandlersSound
PROPERTIES
    ImplementsGrammar
CHECK_DEADLOCK FALSE
