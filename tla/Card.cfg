SPECIFICATION FairSpec
CONSTANTS
    Kinds = {"MMC", "SDV1", "SDV2", "SDV2HC", "SDV2Other"}
    Data = {0, 1}
    Blank = 0
    B = 2
    Retries = 2
    MaxLost = 1
    MaxCards = 1
PROPERTIES
    Remembers
    ReadyIfOk
    Returns
