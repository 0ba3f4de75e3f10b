SPECIFICATION PartitionSpec
CONSTANTS
    c1 = c1
    c2 = c2
    NoCmd = NoCmd
    TotalNumber = 6
    FaultNumber = 0
    Cmd <- TwoCmds
    MaxView = 2
    MayTimeOut <- OtherSideInView1
    MaxLost = 0
INVARIANT Consistency
CHECK_DEADLOCK FALSE
