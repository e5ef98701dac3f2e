--------------------------- MODULE MCHotStuffCore ---------------------------
(***************************************************************************)
(* Instances of HotStuffCore for TLC.  Blocks are numbers, 0 is the genesis*)
(* block, and a tree is given by the parent, the justify, the proposer and *)
(* the collector of the votes of each block.                               *)
(***************************************************************************)
EXTENDS HotStuffCore, TLC

(* The height of each block of a tree with parents p, numbered so that a   *)
(* parent is smaller than its children.                                    *)
HeightOf(p) ==
    LET h[b \in DOMAIN p] == IF b = 0 THEN 0 ELSE h[p[b]] + 1 IN h

(* A straight chain of n blocks over the genesis block.                    *)
ChainBlock(n)  == 0..n
ChainParent(n) == [b \in 0..n |-> IF b = 0 THEN 0 ELSE b - 1]

(* This replica follows a chain of three blocks of another leader.         *)
Chain3Block      == ChainBlock(3)
Chain3Parent     == ChainParent(3)
Chain3Height     == HeightOf(Chain3Parent)
Chain3Proposer   == [b \in Chain3Block |-> 1]
Chain3NextLeader == [b \in Chain3Block |-> 2]

(* Block 2 is a leaf whose proposer read the genesis QC for the parent and *)
(* the QC of block 1 for the justify: a second block of height 1.  Block 1 *)
(* is this replica's own; the cache is too small for all of them.          *)
ForkBlock      == 0..5
ForkParent     == <<0, 0, 2, 3, 4>> @@ (0 :> 0)
ForkJustify    == <<0, 1, 2, 3, 4>> @@ (0 :> 0)
ForkHeight     == HeightOf(ForkParent)
ForkProposer   == [b \in ForkBlock |-> IF b = 1 THEN 0 ELSE 1]
ForkNextLeader == [b \in ForkBlock |-> 2]

(* This replica collects the votes for block 1, proposes block 2 on it, and*)
(* may have begun block 3 on the genesis block before block 1 came.        *)
LeadBlock      == 0..3
LeadParent     == <<0, 1, 0>> @@ (0 :> 0)
LeadJustify    == <<0, 1, 1>> @@ (0 :> 0)
LeadHeight     == HeightOf(LeadParent)
LeadProposer   == <<1, 0, 0>> @@ (0 :> 1)
LeadNextLeader == <<0, 1, 1>> @@ (0 :> 1)
=============================================================================
