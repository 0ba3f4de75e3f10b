SPECIFICATION PromptSpec
CONSTANTS
    c1 = c1
    c2 = c2
    NoCmd = NoCmd
    TotalNumber = 4
    FaultNumber = 0
    Cmd <- OneCmd
    MaxView = 2
    MayTimeOut <- OthersInTwoViews
    MaxLost = 0
    Prompt = {0, 1, 2}
INVARIANT NobodyForgotten
CHECK_DEADLOCK FALSE
