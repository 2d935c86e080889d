SPECIFICATION TableSpec
CONSTANTS
    ACC_HZ_MIN = 200
    ACC_PERIOD = 100
    TableLen = 50
    Word = 65536
INVARIANTS
    TablesRight
CHECK_DEADLOCK FALSE
