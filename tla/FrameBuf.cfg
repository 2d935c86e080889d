SPECIFICATION RingSpec
CONSTANTS
    FRAMEBUFMAX = 4
    Backlogs = {3, 5}
    Overruns = TRUE
    MaxBytes = 10
PROPERTIES
    InOrder
    ImplementsQueue
    LapsOnlyAtZero
CHECK_DEADLOCK FALSE
