SPECIFICATION PromptSpec
CONSTANTS
    c1 = c1
    c2 = c2
    c3 = c3
    NoCmd = NoCmd
    TotalNumber = 4
    FaultNumber = 0
    Cmd <- TwoCmds
    MaxView = 2
    MayTimeOut <- QuorumInView1
    MaxLost = 0
    Prompt = {3}
SYMMETRY Symmetry
INVARIANTS
    Consistency
    ProposalsExtendLocks
    ExecutedIsLocked
    OneProposalPerView
    RepeatedOnlyIfMissed
PROPERTIES
    ImplementsAgreement
CHECK_DEADLOCK FALSE
