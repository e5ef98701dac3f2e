SPECIFICATION Spec
CHECK_DEADLOCK FALSE
CONSTANTS
    N = 4
    F = 1
    Genesis = 0
    Block <- TwoBlock
    Height <- TwoHeight
    Parent <- TwoParent
    Justify <- TwoParent
    View <- TwoView
    Reach <- TwoReach
    NewViews <- TwoNewViews
    Timeouts <- TwoTimeouts
    Clients = {0, 1, 2, 3}
    Killed = {}
    MaxView = 8
    MaxBeats = 2
INVARIANT Agreement
