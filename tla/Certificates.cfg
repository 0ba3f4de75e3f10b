SPECIFICATION Spec
CONSTANTS
    a = a
    b = b
    TotalNumber = 4
    FaultNumber = 0
    Item <- Items
    MaxVotes = 5
INVARIANTS
    TypeOK
    AcceptedForTarget
    FormedUnlessRepeated
CHECK_DEADLOCK FALSE
