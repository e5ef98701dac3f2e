SPECIFICATION Spec
CHECK_DEADLOCK FALSE
CONSTANTS
    N = 4
    F = 1
    Genesis = 0
    Block <- ForkBlock
    Height <- ForkHeight
    Parent <- ForkParent
    Justify <- ForkJustify
    View <- ForkView
    Reach <- ForkReach
    NewViews <- ForkNewViews
    Timeouts <- ForkTimeouts
    Clients = {0, 1, 2, 3}
    Killed = {3}
    MaxView = 4
    MaxBeats = 2
INVARIANTS
    TypeOK
    QcBacked
    ThreeChainExecuted
    OneBranchIfVotedOnce
