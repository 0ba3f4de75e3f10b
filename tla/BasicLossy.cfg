SPECIFICATION PromptSpec
CONSTANTS
    c1 = c1
    c2 = c2
    c3 = c3
    NoCmd = NoCmd
    TotalNumber = 4
    FaultNumber = 1
    Cmd <- TwoCmds
    MaxView = 2
    MayTimeOut <- QuorumInView1
    MaxLost = 1
    Prompt = {3}
SYMMETRY Symmetry
INVARIANTS
    Inv
    TokenDiscipline
    NoViewSkipped
    Consistency
PROPERTIES
    CertificatesNeverRegress
CHECK_DEADLOCK FALSE
