SPECIFICATION ClientFairSpec
CONSTANTS
    NoCmd = 0
    TotalNumber = 4
    FaultNumber = 0
    Cmd <- Commands
    MaxView = 2
    MaxResend = 1
INVARIANTS
    ClientTypeOK
    AnsweredInOrder
    AnsweredIsExecuted
PROPERTIES
    OfferTaken
CHECK_DEADLOCK FALSE
