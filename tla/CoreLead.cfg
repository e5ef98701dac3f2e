SPECIFICATION FairSpec
CHECK_DEADLOCK FALSE
CONSTANTS
    N = 4
    F = 1
    Self = 0
    Genesis = 0
    Block <- LeadBlock
    Height <- LeadHeight
    Parent <- LeadParent
    Justify <- LeadJustify
    Proposer <- LeadProposer
    NextLeader <- LeadNextLeader
    CacheCapacity = 2
    NewViewQC = {1, 2}
INVARIANTS
    QcFinishOnce
    VotesConserved
PROPERTY
    QuorumNotified
