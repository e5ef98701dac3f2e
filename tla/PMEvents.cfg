SPECIFICATION FairSpec
CHECK_DEADLOCK FALSE
CONSTANTS
    N = 4
    F = 1
    Self = 1
    Genesis = 0
    QC <- MCQC
    QcView <- MCQcView
    QcHeight <- MCQcHeight
    Proposals <- Proposal0
    NewViews <- NoMessages
    Finished = {1}
    MaxCmds = 2
    MaxView = 3
INVARIANT
    CommandsConserved
PROPERTIES
    ForwardedKeepsMoving
    ProposalAnswered
