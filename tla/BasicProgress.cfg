SPECIFICATION PromptFairSpec
CONSTANTS
    c1 = c1
    c2 = c2
    c3 = c3
    NoCmd = NoCmd
    TotalNumber = 4
    FaultNumber = 0
    Cmd <- OneCmd
    MaxView = 1
    MayTimeOut <- AnyoneInView1
    MaxLost = 0
    Prompt = {0}
PROPERTIES
    EveryViewLeft
CHECK_DEADLOCK FALSE
