----------------------------- MODULE MCHotStuff -----------------------------
(***************************************************************************)
(* Instances of HotStuff for TLC: four replicas, blocks are numbers and 0  *)
(* is the genesis block.                                                   *)
(***************************************************************************)
EXTENDS HotStuff, TLC

HeightOf(p) ==
    LET h[b \in DOMAIN p] == IF b = 0 THEN 0 ELSE h[p[b]] + 1 IN h

(* Blocks 1 to 4 are the chain of views 0 to 3.  Replica 3 may time out in *)
(* views 0 and 1, and replica 2 then begin a block on the genesis block in *)
(* view 2.  It finishes it at once, which is block 7, or when it has the QC*)
(* of block 2, which is block 5.  Block 6 is on block 5.                   *)
ForkBlock    == 0..7
ForkParent   == <<0, 1, 2, 3, 0, 5, 0>> @@ (0 :> 0)
ForkJustify  == <<0, 1, 2, 3, 2, 5, 0>> @@ (0 :> 0)
ForkHeight   == HeightOf(ForkParent)
ForkView     == <<0, 1, 2, 3, 2, 3, 2>> @@ (0 :> -1)
ForkReach    == [b \in ForkBlock |-> IF b = 4 THEN {1} ELSE IF b = 6 THEN {0} ELSE Replica]
ForkNewViews == {<<3, 2, 2>>, <<2, 3, 2>>}
ForkTimeouts == {<<3, 0>>, <<3, 1>>}

(* Two chains, blocks 1 to 4 of views 0, 5, 6, 7 and blocks 5 to 8 of views*)
(* 1, 2, 3, 8, that replicas 2 and 3 lead by turns.                        *)
TwoBlock    == 0..8
TwoParent   == <<0, 1, 2, 3, 0, 5, 6, 7>> @@ (0 :> 0)
TwoHeight   == HeightOf(TwoParent)
TwoView     == <<0, 5, 6, 7, 1, 2, 3, 8>> @@ (0 :> -1)
TwoReach    == <<{1, 2, 3}, {0, 2, 3}, {0, 3}, {},
                 {0, 2, 3}, {0, 3}, {0, 2}, {}>> @@ (0 :> {})
TwoNewViews == {<<2, 1, 1>>, <<2, 1, 5>>, <<3, 0, 8>>}
TwoTimeouts == {<<2, 0>>, <<2, 2>>, <<2, 3>>, <<2, 4>>, <<3, 7>>}
=============================================================================
