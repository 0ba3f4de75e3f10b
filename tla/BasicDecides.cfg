SPECIFICATION FairSpec
CONSTANTS
    c1 = c1
    c2 = c2
    c3 = c3
    NoCmd = NoCmd
    TotalNumber = 4
    FaultNumber = 0
    Cmd <- TwoCmds
    MaxView = 2
    MayTimeOut <- Nobody
    MaxLost = 0
    Prompt = {}
PROPERTIES
    EveryViewDecided
CHECK_DEADLOCK FALSE
