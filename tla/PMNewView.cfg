SPECIFICATION Spec
CHECK_DEADLOCK FALSE
CONSTANTS
    N = 3
    F = 1
    Self = 1
    Genesis = 0
    QC <- MCQC
    QcView <- MCQcView
    QcHeight <- MCQcHeight
    Proposals <- NoMessages
    NewViews <- View1Messages
    Finished = {}
    MaxCmds = 2
    MaxView = 2
INVARIANTS
    TypeOK
    CountedBelowHigh
    QuorumOnce
