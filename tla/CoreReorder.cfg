SPECIFICATION FairSpec
CHECK_DEADLOCK FALSE
CONSTANTS
    N = 4
    F = 1
    Self = 0
    Genesis = 0
    Block <- Chain3Block
    Height <- Chain3Height
    Parent <- Chain3Parent
    Justify <- Chain3Parent
    Proposer <- Chain3Proposer
    NextLeader <- Chain3NextLeader
    CacheCapacity = 30
    NewViewQC = {}
PROPERTY ReorderedProposalVoted
