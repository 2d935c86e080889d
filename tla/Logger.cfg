SPECIFICATION LogSpec
CONSTANTS
    N = 3
    PerSector = 4
    Slots = 2
    None = None
    MaxDay = 2
    Name = {0, 1, 2}
    MaxIO = 12
    MaxMishaps = 2
INVARIANTS
    VolumeSound
PROPERTIES
    ImplementsDayLog
    DaysKept
    ResultsHold
