SPECIFICATION FairSpec
CONSTANTS
    TimeMod = 8
    StartTime = 6
    SendTicks = 1
    LiftTime_calibration = 0
    PresetCount = 2
    Numbers = {0, 1, 2}
    Garbage = {1}
    StoredWords = 1
    Hosts = {"orderly", "single", "any"}
    MaxTicks = 4
    MaxPosts <- MCMaxPosts
INVARIANTS
    TableIsPosition
PROPERTIES
    StopStops
    SetStanding
CHECK_DEADLOCK FALSE
