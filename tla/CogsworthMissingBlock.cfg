SPECIFICATION PromptSpec
CONSTANTS
    c1 = c1
    c2 = c2
    NoCmd = NoCmd
    TotalNumber = 4
    FaultNumber = 0
    Cmd <- OneCmd
    MaxView = 2
    MayTimeOut <- QuorumInTwoViews
    MaxLost = 0
    Prompt = {0, 1, 3}
INVARIANT NeverStuck
CHECK_DEADLOCK FALSE
