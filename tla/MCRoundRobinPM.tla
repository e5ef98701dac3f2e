--------------------------- MODULE MCRoundRobinPM ---------------------------
(***************************************************************************)
(* Instances of RoundRobinPM for TLC: three or four replicas.  QC 0 is the *)
(* one of the genesis block, QC 1 is of view 0 and QC 2 of view 1.         *)
(***************************************************************************)
EXTENDS RoundRobinPM

MCQC       == 0..2
MCQcView   == [q \in MCQC |-> q - 1]
MCQcHeight == [q \in MCQC |-> q]

NoMessages == {}

(* The proposal of view 0.                                                 *)
Proposal0 == {[view |-> 0, qc |-> 0]}

(* Of three replicas: the other two ask for view 1.  Both know of a higher *)
(* QC, replica 2 only since its first message.                             *)
View1Messages ==
    {[from |-> 0, view |-> 1, qc |-> 1],
     [from |-> 2, view |-> 1, qc |-> 0], [from |-> 2, view |-> 1, qc |-> 1]}
=============================================================================
