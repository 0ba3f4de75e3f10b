SPECIFICATION PromptSpec
CONSTANTS
    c1 = c1
    c2 = c2
    c3 = c3
    NoCmd = NoCmd
    TotalNumber = 4
    FaultNumber = 0
    Cmd <- ThreeCmds
    MaxView = 3
    MayTimeOut <- Nobody
    MaxLost = 0
    Prompt = {0}
SYMMETRY Symmetry
INVARIANTS
    TypeOK
    NeverStuck
    CountedOnce
    ExecutedOnce
    StoreIsRecent
    NoSecondList
CHECK_DEADLOCK FALSE
