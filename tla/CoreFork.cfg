SPECIFICATION Spec
CHECK_DEADLOCK FALSE
CONSTANTS
    N = 4
    F = 1
    Self = 0
    Genesis = 0
    Block <- ForkBlock
    Height <- ForkHeight
    Parent <- ForkParent
    Justify <- ForkJustify
    Proposer <- ForkProposer
    NextLeader <- ForkNextLeader
    CacheCapacity = 4
    NewViewQC = {}
INVARIANTS
    TypeOK
    PointersStored
    DecideUnderLock
PROPERTY
    QcMonotone
