SPECIFICATION PromptSpec
CONSTANTS
    c1 = c1
    c2 = c2
    NoCmd = NoCmd
    TotalNumber = 4
    FaultNumber = 0
    Cmd <- TwoCmds
    MaxView = 2
    MayTimeOut <- QuorumInView1
    MaxLost = 1
    Prompt = {0, 1, 3}
SYMMETRY Symmetry
INVARIANTS
    CogsworthTypeOK
    CogsworthInv
    OwnWishFirst
    OwnVoteFirst
    VotesReported
    WishesCountedOnce
    NeverStuck
    Consistency
    ProposalsExtendLocks
    OneProposalPerView
    TokenDiscipline
PROPERTIES
    ImplementsAgreement
    LocksNeverRegress
CHECK_DEADLOCK FALSE
