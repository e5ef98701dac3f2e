------------------------- MODULE HotStuffCoreProofs -------------------------
(***************************************************************************)
(* Proofs about HotStuffCore, for every number of replicas and every tree  *)
(* of blocks that the assumptions of that module allow.                    *)
(***************************************************************************)
EXTENDS HotStuffCore, FiniteSetTheorems, TLAPS

-----------------------------------------------------------------------------
(* The fields of a block.                                                  *)
LEMMA TreeFacts ==
  \A b \in Block :
     /\ Height[b] \in Nat
     /\ Parent[b] \in Block
     /\ Justify[b] \in Block
     /\ Proposer[b] \in Replica
     /\ Block2(b) \in Block /\ Block1(b) \in Block /\ Block0(b) \in Block
  <1>1. \A b \in Block : /\ Height[b] \in Nat
                         /\ Parent[b] \in Block
                         /\ Justify[b] \in Block
                         /\ Proposer[b] \in Replica
    BY TreeAssumption
  <1> QED
    BY <1>1 DEF Block2, Block1, Block0

(* A block but the genesis block is one higher than its parent.            *)
LEMMA ParentHeight ==
  /\ Genesis \in Block
  /\ Height[Genesis] = 0
  /\ \A b \in Block \ {Genesis} : Height[b] = Height[Parent[b]] + 1
  BY TreeAssumption

-----------------------------------------------------------------------------
(* The state of the replica has its type after every step of every         *)
(* goroutine: the handlers assign only blocks, replicas and heights.       *)
LEMMA TypeInit == Init => TypeOK
  BY ConfAssumption, TreeAssumption
  DEF Init, TypeOK, ProposalPC, VotePC, NewViewPC, WaitPC

(* StoreBlock keeps to the blocks, and the cache to what was stored.       *)
LEMMA TypeStoreBlock ==
  ASSUME TypeOK, NEW b \in Block, StoreBlock(b)
  PROVE  stored' \in SUBSET Block /\ store' \in SUBSET stored'
  BY DEF TypeOK, StoreBlock

(* A goroutine goes to a program point.                                    *)
LEMMA TypeGoto ==
  ASSUME TypeOK, NEW b \in Block, NEW l \in ProposalPC, Goto(b, l)
  PROVE  pc' \in [Block -> ProposalPC]
  BY DEF TypeOK, Goto

(* ... the points used by the actions are program points.                  *)
LEMMA Points ==
  /\ {"parent", "leaf", "height", "update", "precommit", "lock", "commit", "exec",
      "execqc", "decide", "vote", "safe", "locked", "walk", "raise", "self",
      "selfvote", "done", "failed", "panic"} \subseteq ProposalPC
  /\ \A b \in Block : AfterUpdate(b) \in ProposalPC
  BY DEF ProposalPC, AfterUpdate

(* The steps that look a block up, read a QC or panic change nothing but   *)
(* the program point.                                                      *)
OnlyPc == UNCHANGED <<cacheVars, qcVars, loopVars, voteVars, voteHeight, wal, npc, voted>>

LoadStep(b) ==
    \/ LoadBlock2(b) \/ LoadBlock1(b) \/ LoadBlock0(b) \/ LoadJustify(b)
    \/ OnBeat(b) \/ LoadParent(b) \/ CreateLeaf(b) \/ Propose(b)

(* A load step goes to a point of its handler, or to the error return.     *)
LEMMA LoadStepPc ==
  ASSUME NEW b \in Block, LoadStep(b)
  PROVE  /\ OnlyPc
         /\ \E l \in {"precommit", "commit", "execqc", "locked", "parent", "leaf",
                      "height", "done", "failed", AfterUpdate(b)} : Goto(b, l)
  BY DEF LoadStep, OnlyPc, LoadBlock2, LoadBlock1, LoadBlock0, LoadJustify, OnBeat,
         LoadParent, CreateLeaf, Propose

(* Types: a step that changes a program point only.                        *)
LEMMA TypeOnlyPc ==
  ASSUME TypeOK, OnlyPc, pc' \in [Block -> ProposalPC]
  PROVE  TypeOK'
  BY DEF TypeOK, OnlyPc, cacheVars, qcVars, loopVars, voteVars

(* Types: the load steps, the panic and the wait for the justify.          *)
LEMMA TypeLoad ==
  ASSUME TypeOK, NEW b \in Block,
         LoadStep(b) \/ ReceiveProposalPanics(b) \/ WaitJustify(b)
  PROVE  TypeOK'
  <1>1. CASE LoadStep(b)
    BY <1>1, LoadStepPc, Points, TypeGoto, TypeOnlyPc
  <1>2. CASE ReceiveProposalPanics(b)
    BY <1>2, Points, TypeGoto, TypeOnlyPc DEF ReceiveProposalPanics, OnlyPc
  <1>3. CASE WaitJustify(b)
    <2>1. AsyncWaitBlock(pc[b], Justify[b], "update", "failed") \in ProposalPC
      BY <1>3 DEF WaitJustify, AsyncWaitBlock, WaitPC, ProposalPC
    <2> QED
      BY <1>3, <2>1, TypeGoto, TypeOnlyPc DEF WaitJustify, OnlyPc
  <1> QED BY <1>1, <1>2, <1>3

(* Types: handleProposal up to the wake-up of the waiting goroutines.      *)
LEMMA TypeReceiveProposal ==
  ASSUME TypeOK, NEW b \in Block, ReceiveProposal(b)
  PROVE  TypeOK'
  <1>1. Proposer[b] \in Replica /\ Height[execQC] \in Nat
    BY TreeAssumption DEF TypeOK
  <1>2. wal' \in [committed : Nat, entries : SUBSET Block]
    BY <1>1 DEF TypeOK, ReceiveProposal, Committed
  <1>3. pc' \in [Block -> ProposalPC] /\ npc' \in [Block -> NewViewPC]
    BY DEF TypeOK, ReceiveProposal, Broadcast, ProposalPC, NewViewPC, WaitPC
  <1>4. stored' \in SUBSET Block /\ store' \in SUBSET stored'
    BY TypeStoreBlock DEF ReceiveProposal
  <1> QED
    BY <1>1, <1>2, <1>3, <1>4
    DEF TypeOK, ReceiveProposal, qcVars, loopVars

(* A vote goroutine goes to a program point.                               *)
LEMMA TypeVoteGoto ==
  ASSUME TypeOK, NEW b \in Block, NEW s \in Replica, NEW l \in VotePC,
         vpc' = [vpc EXCEPT ![b][s] = l]
  PROVE  vpc' \in [Block -> [Replica -> VotePC]]
  BY DEF TypeOK

(* Types: the assignments of the first two phases of update.               *)
LEMMA TypeUpdate ==
  ASSUME TypeOK, NEW b \in Block, PreCommit(b) \/ Commit(b)
  PROVE  TypeOK'
  <1>1. pc' \in [Block -> ProposalPC]
    BY TypeGoto, Points DEF PreCommit, Commit
  <1>2. genericQC' \in Block /\ lockedQC' \in Block
    BY TreeFacts DEF PreCommit, Commit, UpdateHighestQC, UpdateLockedQC, TypeOK
  <1> QED
    BY <1>1, <1>2 DEF PreCommit, Commit, TypeOK, cacheVars, loopVars, voteVars

(* Types: the DECIDE phase and its loop.                                   *)
LEMMA TypeDecide ==
  ASSUME TypeOK, NEW b \in Block, Decide(b) \/ DecideLoop(b)
  PROVE  TypeOK'
  <1>1. CASE Decide(b)
    <2>1. pc' \in [Block -> ProposalPC]
      BY <1>1, TypeGoto, Points DEF Decide
    <2>2. /\ execQC' \in Block
          /\ cur' \in [Block -> Block]
          /\ left' \in [Block -> Int]
      <3>1. Block0(b) \in Block /\ Height[Block0(b)] - Height[execQC] \in Int
        <4>1. execQC \in Block
          BY DEF TypeOK
        <4> QED BY <4>1, TreeFacts
      <3>2. CASE execQC' = Block0(b)
                 /\ cur' = [cur EXCEPT ![b] = Block0(b)]
                 /\ left' = [left EXCEPT ![b] = Height[Block0(b)] - Height[execQC]]
        BY <3>1, <3>2 DEF TypeOK
      <3>3. CASE UNCHANGED <<execQC, cur, left>>
        BY <3>3 DEF TypeOK
      <3> QED
        BY <1>1, <3>2, <3>3 DEF Decide
    <2> QED
      BY <1>1, <2>1, <2>2 DEF Decide, TypeOK, cacheVars, voteVars
  <1>2. CASE DecideLoop(b)
    <2>1. pc' \in [Block -> ProposalPC]
      <3>1. CASE UNCHANGED pc
        BY <3>1 DEF TypeOK
      <3> QED
        BY <1>2, <3>1, TypeGoto, Points DEF DecideLoop
    <2>2. /\ decided' \in Seq(Block)
          /\ cur' \in [Block -> Block]
          /\ left' \in [Block -> Int]
      <3>1. CASE /\ decided' = Append(decided, cur[b])
                 /\ cur' = [cur EXCEPT ![b] = Parent[cur[b]]]
                 /\ left' = [left EXCEPT ![b] = @ - 1]
        <4>1. cur[b] \in Block /\ Parent[cur[b]] \in Block /\ left[b] - 1 \in Int
          <5>1. cur[b] \in Block /\ left[b] \in Int
            BY DEF TypeOK
          <5> QED BY <5>1, TreeFacts
        <4>2. decided' \in Seq(Block)
          BY <3>1, <4>1 DEF TypeOK
        <4> QED
          BY <3>1, <4>1, <4>2 DEF TypeOK
      <3>2. CASE UNCHANGED <<decided, cur, left>>
        BY <3>2 DEF TypeOK
      <3> QED
        BY <1>2, <3>1, <3>2 DEF DecideLoop
    <2> QED
      BY <1>2, <2>1, <2>2 DEF DecideLoop, TypeOK, cacheVars, qcVars, voteVars
  <1> QED BY <1>1, <1>2

(* Types: voteProposal and the ReceiveProposalEvent.                       *)
LEMMA TypeSendVote ==
  ASSUME TypeOK, NEW b \in Block, SendVote(b)
  PROVE  /\ pc' \in [Block -> ProposalPC]
         /\ vpc' \in [Block -> [Replica -> VotePC]]
         /\ voted' \in SUBSET Block
  <1>1. pc' \in [Block -> ProposalPC]
    BY TypeGoto, Points DEF SendVote
  <1>2. vpc' \in [Block -> [Replica -> VotePC]]
    <2>1. "load" \in VotePC /\ Self \in Replica
      BY ConfAssumption DEF VotePC
    <2> QED
      BY <2>1, TypeVoteGoto DEF SendVote, TypeOK
  <1> QED
    BY <1>1, <1>2 DEF SendVote, TypeOK

(* Types: the comparisons with voteHeight and the assignment to it.        *)
LEMMA TypeVoteDecision ==
  ASSUME TypeOK, NEW b \in Block, CheckVoteHeight(b) \/ RaiseVoteHeight(b)
  PROVE  TypeOK'
  <1>1. /\ pc' \in [Block -> ProposalPC]
        /\ vpc' \in [Block -> [Replica -> VotePC]]
        /\ voted' \in SUBSET Block
    <2>1. CASE SendVote(b)
      BY <2>1, TypeSendVote
    <2>2. CASE UNCHANGED <<voted, vpc>> /\ Goto(b, "safe")
      BY <2>2, TypeGoto, Points DEF TypeOK
    <2> QED
      BY <2>1, <2>2 DEF CheckVoteHeight, RaiseVoteHeight
  <1>2. voteHeight' \in Nat
    BY TreeFacts DEF CheckVoteHeight, RaiseVoteHeight, TypeOK
  <1> QED
    BY <1>1, <1>2 DEF CheckVoteHeight, RaiseVoteHeight, TypeOK, cacheVars, qcVars,
                      loopVars

(* Types: the look at the locked block.                                    *)
LEMMA TypeCheckLiveness ==
  ASSUME TypeOK, NEW b \in Block, CheckLiveness(b)
  PROVE  TypeOK'
  <1>1. pc' \in [Block -> ProposalPC]
    BY TypeGoto, Points DEF CheckLiveness
  <1>2. /\ lockedb' \in [Block -> Block]
        /\ cur' \in [Block -> Block]
        /\ left' \in [Block -> Int]
    <2>1. lockedQC \in Block /\ Height[b] - Height[lockedQC] \in Int
      <3>1. lockedQC \in Block
        BY DEF TypeOK
      <3> QED BY <3>1, TreeFacts
    <2>2. CASE UNCHANGED <<lockedb, cur, left>>
      BY <2>2 DEF TypeOK
    <2>3. CASE /\ lockedb' = [lockedb EXCEPT ![b] = lockedQC]
               /\ cur' = [cur EXCEPT ![b] = b]
               /\ left' = [left EXCEPT ![b] = Height[b] - Height[lockedQC]]
      BY <2>1, <2>3 DEF TypeOK
    <2> QED BY <2>2, <2>3 DEF CheckLiveness
  <1> QED
    BY <1>1, <1>2 DEF CheckLiveness, TypeOK, cacheVars, qcVars, voteVars

(* Types: the walk to the height of the locked block.                      *)
LEMMA TypeWalkDown ==
  ASSUME TypeOK, NEW b \in Block, WalkDown(b)
  PROVE  TypeOK'
  <1>1. /\ pc' \in [Block -> ProposalPC]
        /\ vpc' \in [Block -> [Replica -> VotePC]]
        /\ voted' \in SUBSET Block
    <2>1. CASE SendVote(b)
      BY <2>1, TypeSendVote
    <2>2. CASE /\ UNCHANGED <<voted, vpc>>
               /\ Goto(b, "raise") \/ Goto(b, "failed")
      BY <2>2, TypeGoto, Points DEF TypeOK
    <2>3. CASE UNCHANGED <<pc, voted, vpc>>
      BY <2>3 DEF TypeOK
    <2> QED
      BY <2>1, <2>2, <2>3 DEF WalkDown
  <1>2. cur' \in [Block -> Block] /\ left' \in [Block -> Int]
    <2>1. Parent[cur[b]] \in Block /\ left[b] - 1 \in Int
      <3>1. cur[b] \in Block /\ left[b] \in Int
        BY DEF TypeOK
      <3> QED BY <3>1, TreeFacts
    <2>2. CASE UNCHANGED <<cur, left>>
      BY <2>2 DEF TypeOK
    <2>3. CASE /\ cur' = [cur EXCEPT ![b] = Parent[cur[b]]]
               /\ left' = [left EXCEPT ![b] = @ - 1]
      BY <2>1, <2>3 DEF TypeOK
    <2> QED BY <2>2, <2>3 DEF WalkDown
  <1> QED
    BY <1>1, <1>2 DEF WalkDown, TypeOK, cacheVars, qcVars

(* Types: the storing of a new leaf and the self vote.                     *)
LEMMA TypePropose ==
  ASSUME TypeOK, NEW b \in Block, StoreLeaf(b) \/ SelfVote(b)
  PROVE  TypeOK'
  <1>1. pc' \in [Block -> ProposalPC]
    BY TypeGoto, Points DEF StoreLeaf, SelfVote
  <1>2. CASE StoreLeaf(b)
    <2>1. stored' \in SUBSET Block /\ store' \in SUBSET stored'
      <3>1. CASE UNCHANGED cacheVars
        BY <3>1 DEF TypeOK, cacheVars
      <3> QED BY <1>2, <3>1, TypeStoreBlock DEF StoreLeaf
    <2> QED
      BY <1>1, <1>2, <2>1 DEF StoreLeaf, TypeOK, qcVars, loopVars, voteVars
  <1>3. CASE SelfVote(b)
    <2>1. vpc' \in [Block -> [Replica -> VotePC]]
      <3>1. "load" \in VotePC
        BY DEF VotePC
      <3> QED BY <1>3, <3>1, TypeVoteGoto, ConfAssumption DEF SelfVote
    <2>2. voteHeight' \in Nat
      BY <1>3, TreeFacts DEF SelfVote
    <2> QED
      BY <1>1, <1>3, <2>1, <2>2 DEF SelfVote, TypeOK, cacheVars, qcVars, loopVars
  <1> QED BY <1>2, <1>3

(* Types: handleVote and OnProposalVote.                                   *)
LEMMA TypeVote ==
  ASSUME TypeOK, NEW b \in Block, NEW s \in Replica,
         ReceiveVote(b, s) \/ VoteStep(b, s)
  PROVE  TypeOK'
  <1> USE TreeAssumption
  <1>1. CASE ReceiveVote(b, s)
    BY <1>1 DEF ReceiveVote, TypeOK, VotePC, cacheVars, qcVars, loopVars
  <1>2. CASE LoadVoted(b, s)
    BY <1>2 DEF LoadVoted, TypeOK, VotePC, cacheVars, qcVars, loopVars
  <1>3. CASE AddVoteMsg(b, s)
    BY <1>3 DEF AddVoteMsg, TypeOK, VotePC, cacheVars, qcVars, loopVars
  <1>4. CASE CountVote(b, s)
    <2>1. vpc' \in [Block -> [Replica -> VotePC]]
      <3>1. \A l \in {"done", "qc"} : l \in VotePC
        BY DEF VotePC
      <3>2. PICK l \in {"done", "qc"} : vpc' = [vpc EXCEPT ![b][s] = l]
        BY <1>4 DEF CountVote, AfterCount
      <3> QED
        BY <3>1, <3>2, TypeVoteGoto
    <2>2. /\ signs' \in [Block -> SUBSET Replica]
          /\ voteSet' \in [Block -> SUBSET Replica]
      <3>1. CASE UNCHANGED <<signs, voteSet>>
        BY <3>1 DEF TypeOK
      <3>2. CASE /\ signs' = [signs EXCEPT ![b] = Collect(b, s)]
                 /\ voteSet' = [voteSet EXCEPT ![b] = {}]
        BY <3>2 DEF Collect, TypeOK
      <3> QED
        BY <1>4, <3>1, <3>2 DEF CountVote
    <2> QED
      BY <1>4, <2>1, <2>2 DEF CountVote, TypeOK, cacheVars, qcVars, loopVars
  <1>5. CASE FinishQC(b, s)
    <2>1. vpc' \in [Block -> [Replica -> VotePC]]
      BY <1>5 DEF FinishQC, TypeOK, VotePC
    <2>2. genericQC' \in Block
      BY <1>5 DEF FinishQC, UpdateHighestQC, TypeOK
    <2> QED
      <3>1. qcFinish' \in [Block -> Nat]
        BY <1>5 DEF FinishQC, TypeOK
      <3> QED
        BY <1>5, <2>1, <2>2, <3>1 DEF FinishQC, TypeOK, cacheVars, loopVars
  <1> QED BY <1>1, <1>2, <1>3, <1>4, <1>5 DEF VoteStep

(* Types: OnReceiveNewView.                                                *)
LEMMA TypeNewView ==
  ASSUME TypeOK, NEW b \in Block, ReceiveNewView(b) \/ NewViewStep(b)
  PROVE  TypeOK'
  <1>1. CASE ReceiveNewView(b)
    BY <1>1 DEF ReceiveNewView, TypeOK, NewViewPC, WaitPC, cacheVars, qcVars,
                loopVars,
                voteVars
  <1>2. CASE WaitNewView(b)
    <2>1. AsyncWaitBlock(npc[b], b, "hqc", "failed") \in NewViewPC
      BY <1>2 DEF WaitNewView, AsyncWaitBlock, WaitPC, NewViewPC
    <2> QED
      BY <1>2, <2>1 DEF WaitNewView, TypeOK, cacheVars, qcVars, loopVars, voteVars
  <1>3. CASE ApplyNewView(b)
    BY <1>3 DEF ApplyNewView, UpdateHighestQC, TypeOK, NewViewPC, cacheVars,
                qcVars, loopVars, voteVars
  <1> QED BY <1>1, <1>2, <1>3 DEF NewViewStep

(* Every step of the core keeps the types.                                 *)
LEMMA TypeStep == TypeOK /\ [Next]_vars => TypeOK'
  <1> SUFFICES ASSUME TypeOK, [Next]_vars PROVE TypeOK'
    OBVIOUS
  <1>1. ASSUME NEW b \in Block, ProposalStep(b) PROVE TypeOK'
    BY <1>1, TypeLoad, TypeUpdate, TypeDecide, TypeVoteDecision, TypeCheckLiveness,
       TypeWalkDown, TypePropose
    DEF ProposalStep, LoadStep
  <1>2. ASSUME NEW b \in Block, NewViewStep(b) PROVE TypeOK'
    BY <1>2, TypeNewView
  <1>3. ASSUME NEW b \in Block, NEW s \in Replica, VoteStep(b, s) PROVE TypeOK'
    BY <1>3, TypeVote
  <1>4. CASE Environment
    BY <1>4, TypeReceiveProposal, TypeLoad, TypeNewView, TypeVote
    DEF Environment, LoadStep
  <1>5. CASE UNCHANGED vars
    BY <1>5 DEF vars, TypeOK, cacheVars, qcVars, loopVars, voteVars
  <1> QED BY <1>1, <1>2, <1>3, <1>4, <1>5 DEF Next

(* Every reachable state of the core is type correct.                      *)
THEOREM TypeCorrect == Spec => []TypeOK
  BY TypeInit, TypeStep, PTL DEF Spec

-----------------------------------------------------------------------------
(* What a step does to the program points.                                 *)
LEMMA PcStep ==
  ASSUME TypeOK, NEW b \in Block, NEW l, Goto(b, l)
  PROVE  \A c \in Block : pc'[c] = IF c = b THEN l ELSE pc[c]
  BY DEF TypeOK, Goto

(* What a vote handler does to the program points of the others: nothing.  *)
LEMMA VpcStep ==
  ASSUME TypeOK, NEW b \in Block, NEW s \in Replica, NEW l,
         vpc' = [vpc EXCEPT ![b][s] = l]
  PROVE  \A c \in Block : \A t \in Replica :
            vpc'[c][t] = IF c = b /\ t = s THEN l ELSE vpc[c][t]
  <1>1. vpc \in [Block -> [Replica -> VotePC]]
    BY DEF TypeOK
  <1> QED BY <1>1

(* The steps of the vote decision, and the self vote.                      *)
DecisionStep(b) ==
    \/ CheckVoteHeight(b) \/ CheckLiveness(b) \/ WalkDown(b) \/ RaiseVoteHeight(b)
    \/ SelfVote(b)

(* The vote decision moves its own program point, touches neither the cache*)
(* nor the QCs nor what was decided, and hands at most the vote of this    *)
(* replica to OnProposalVote.                                              *)
LEMMA DecisionFacts ==
  ASSUME TypeOK, NEW b \in Block, DecisionStep(b)
  PROVE  /\ UNCHANGED <<store, stored, genericQC, lockedQC, execQC, npc, decided,
                        signs, voteSet, qcFinish>>
         /\ voted' \subseteq voted \cup {b}
         /\ pc[b] \in {"vote", "locked", "walk", "raise", "self"}
         /\ \E l \in {"safe", "walk", "raise", "selfvote", "done", "failed"} :
               \A c \in Block : pc'[c] = IF c = b THEN l ELSE pc[c]
         /\ \A c \in Block \ {b} : cur'[c] = cur[c] /\ left'[c] = left[c]
         /\ \A c \in Block : \A t \in Replica : vpc'[c][t] \in {vpc[c][t], "load"}
  <1>1. /\ UNCHANGED <<store, stored, genericQC, lockedQC, execQC, npc, decided,
                       signs, voteSet, qcFinish>>
        /\ voted' \subseteq voted \cup {b}
        /\ pc[b] \in {"vote", "locked", "walk", "raise", "self"}
    BY DEF DecisionStep, CheckVoteHeight, CheckLiveness, WalkDown, RaiseVoteHeight,
           SelfVote, SendVote, At, cacheVars, qcVars, loopVars, voteVars
  <1>2. \E l \in {"safe", "walk", "raise", "selfvote", "done", "failed"} :
           \A c \in Block : pc'[c] = IF c = b THEN l ELSE pc[c]
    <2>1. ASSUME NEW l \in {"safe", "walk", "raise", "selfvote", "done", "failed"},
                 Goto(b, l)
          PROVE  \E m \in {"safe", "walk", "raise", "selfvote", "done", "failed"} :
                    \A c \in Block : pc'[c] = IF c = b THEN m ELSE pc[c]
      BY <2>1, PcStep
    <2>2. CASE UNCHANGED pc /\ pc[b] = "walk"
      BY <2>2
    <2> QED
      BY <2>1, <2>2 DEF DecisionStep, CheckVoteHeight, CheckLiveness, WalkDown,
                        RaiseVoteHeight, SelfVote, SendVote, At
  <1>3. \A c \in Block \ {b} : cur'[c] = cur[c] /\ left'[c] = left[c]
    BY DEF DecisionStep, CheckVoteHeight, CheckLiveness, WalkDown, RaiseVoteHeight,
           SelfVote, loopVars, TypeOK
  <1>4. vpc' = vpc \/ vpc' = [vpc EXCEPT ![b][Self] = "load"]
    BY DEF DecisionStep, CheckVoteHeight, CheckLiveness, WalkDown, RaiseVoteHeight,
           SelfVote, SendVote, voteVars
  <1>5. \A c \in Block : \A t \in Replica : vpc'[c][t] \in {vpc[c][t], "load"}
    <2>1. CASE vpc' = vpc
      BY <2>1
    <2>2. CASE vpc' = [vpc EXCEPT ![b][Self] = "load"]
      BY <2>2, VpcStep, ConfAssumption
    <2> QED BY <1>4, <2>1, <2>2
  <1> QED BY <1>1, <1>2, <1>3, <1>5

(* cond.Broadcast moves no goroutine that is not waiting.                  *)
LEMMA BroadcastStep ==
  ASSUME TypeOK, NEW b \in Block, ReceiveProposal(b)
  PROVE  /\ \A c \in Block : pc'[c] = IF c = b THEN "load"
                           ELSE IF pc[c] = "waiting" THEN "woken" ELSE pc[c]
         /\ \A c \in Block : npc'[c] = IF npc[c] = "waiting" THEN "woken" ELSE npc[c]
  BY DEF ReceiveProposal, Broadcast, TypeOK

-----------------------------------------------------------------------------
(* The inductive strengthening of PointersStored.  A goroutine works on a  *)
(* block once its justify was stored, and on a QC once its block was; each *)
(* block is stored once, so that an evicted one never returns.             *)
Waiting == {"none", "parent", "leaf", "failed", "panic"} \cup WaitPC

Fresh == {"none", "parent", "leaf", "height"}

Room == (store = stored /\ Running) \/ Cardinality(stored) > CacheCapacity

GenesisDone == Genesis \in stored /\ pc[Genesis] = "done"

FreshNotStored == \A b \in Block : pc[b] \in Fresh => b \notin stored

JustifyStored ==
    \A b \in Block \ {Genesis} : pc[b] \notin Waiting => Justify[b] \in stored

PhasesStored ==
    \A b \in Block : /\ pc[b] = "commit" => Block1(b) \in stored
                     /\ pc[b] = "execqc" => Block0(b) \in stored

HighStored == \A b \in Block : npc[b] = "hqc" => b \in stored

CountedStored ==
    \A b \in Block : \A s \in Replica :
        vpc[b][s] \in {"count", "qc"} => b \in stored

StoreInv ==
    /\ PointersStored
    /\ GenesisDone
    /\ FreshNotStored
    /\ JustifyStored
    /\ PhasesStored
    /\ HighStored
    /\ CountedStored

(* NewHotStuffCore stores the genesis block, which all three QCs name.     *)
LEMMA StoreInit == Init => StoreInv
  <1> SUFFICES ASSUME Init PROVE StoreInv
    OBVIOUS
  <1>1. PointersStored /\ GenesisDone
    BY TreeAssumption DEF Init, PointersStored, GenesisDone, Running
  <1>2. FreshNotStored /\ JustifyStored /\ PhasesStored
    BY TreeAssumption DEF Init, FreshNotStored, Fresh, JustifyStored, PhasesStored, Waiting
  <1>3. HighStored /\ CountedStored
    BY DEF Init, HighStored, CountedStored
  <1> QED BY <1>1, <1>2, <1>3 DEF StoreInv

(* What a step may do without disturbing the invariant.                    *)
LEMMA StoreFrame ==
  ASSUME StoreInv,
         stored \subseteq stored',
         Room',
         {genericQC, lockedQC, execQC}' \subseteq stored',
         \A b \in voted' : b \in voted \/ Justify[b] \in stored',
         pc'[Genesis] = pc[Genesis],
         \A b \in Block : pc'[b] \in Fresh => b \notin stored',
         \A b \in Block : \/ pc'[b] = pc[b]
                          \/ pc'[b] \in Waiting
                          \/ Justify[b] \in stored',
         \A b \in Block : pc'[b] = "commit" => pc[b] = "commit" \/ Block1(b) \in stored',
         \A b \in Block : pc'[b] = "execqc" => pc[b] = "execqc" \/ Block0(b) \in stored',
         \A b \in Block : npc'[b] = "hqc" => npc[b] = "hqc" \/ b \in stored',
         \A b \in Block : \A s \in Replica :
            vpc'[b][s] \in {vpc[b][s], "load", "buffer", "done"} \/ b \in stored'
  PROVE  StoreInv'
  <1>1. PointersStored'
    BY DEF StoreInv, PointersStored, Room
  <1>2. GenesisDone' /\ FreshNotStored'
    BY DEF StoreInv, GenesisDone, FreshNotStored
  <1>3. JustifyStored'
    BY DEF StoreInv, JustifyStored
  <1>4. PhasesStored'
    BY DEF StoreInv, PhasesStored, Block0, Block1, Block2
  <1>5. HighStored'
    BY DEF StoreInv, HighStored
  <1>6. CountedStored'
    BY DEF StoreInv, CountedStored
  <1> QED BY <1>1, <1>2, <1>3, <1>4, <1>5, <1>6 DEF StoreInv

(* The cache misses a block it was given only once it was given more than  *)
(* it can hold, and only then can a handler panic ...                      *)
LEMMA RoomKept ==
  ASSUME StoreInv, UNCHANGED <<store, stored>>,
         \A c \in Block : pc'[c] = "panic" => pc[c] = "panic"
  PROVE  Room'
  BY DEF StoreInv, PointersStored, Room, Running

(* ... also when it is given one more.                                     *)
LEMMA RoomStoreBlock ==
  ASSUME TypeOK, StoreInv, NEW b \in Block, b \notin stored, StoreBlock(b),
         \A c \in Block : pc'[c] = "panic" => pc[c] = "panic"
  PROVE  Room' /\ stored \subseteq stored' /\ stored' = stored \cup {b}
  <1>1. stored' = stored \cup {b} /\ IsFiniteSet(stored)
    BY CacheAssumption, FS_Subset DEF StoreBlock, TypeOK
  <1>2. /\ Cardinality(stored') = Cardinality(stored) + 1
        /\ Cardinality(stored) \in Nat /\ CacheCapacity \in Nat
    BY <1>1, FS_AddElement, FS_CardinalityType, CacheAssumption
  <1>3. CASE Cardinality(stored) > CacheCapacity
    BY <1>1, <1>2, <1>3 DEF Room
  <1>4. CASE store = stored /\ Running
    <2>1. CASE Cardinality(store) < CacheCapacity
      <3>1. store' = stored'
        BY <1>1, <1>2, <1>4, <2>1 DEF StoreBlock
      <3> QED BY <1>1, <1>4, <3>1 DEF Room, Running
    <2>2. CASE Cardinality(store) >= CacheCapacity
      BY <1>1, <1>2, <1>4, <2>2 DEF Room
    <2> QED BY <1>2, <1>4, <2>1, <2>2
  <1> QED BY <1>1, <1>3, <1>4 DEF StoreInv, PointersStored

(* The QCs stay when a step leaves them alone.                             *)
LEMMA PointersKept ==
  ASSUME StoreInv, UNCHANGED <<genericQC, lockedQC, execQC>>, stored \subseteq stored'
  PROVE  {genericQC, lockedQC, execQC}' \subseteq stored'
  BY DEF StoreInv, PointersStored

(* StoreBlock of a proposal that was not stored before.                    *)
LEMMA StoreReceiveProposal ==
  ASSUME TypeOK, StoreInv, NEW b \in Block, ReceiveProposal(b)
  PROVE  StoreInv'
  <1>1. UNCHANGED <<genericQC, lockedQC, execQC, voted, vpc>>
    BY DEF ReceiveProposal, qcVars
  <1>2. b # Genesis /\ b \notin stored /\ pc[b] = "none"
    BY DEF ReceiveProposal, At, StoreInv, GenesisDone, FreshNotStored, Fresh
  <1>3. \A c \in Block : pc'[c] = pc[c] \/ pc'[c] \in WaitPC
    BY BroadcastStep DEF WaitPC
  <1>4. Room' /\ stored \subseteq stored' /\ stored' = stored \cup {b}
    <2>1. StoreBlock(b)
      BY DEF ReceiveProposal
    <2>2. \A c \in Block : pc'[c] = "panic" => pc[c] = "panic"
      BY <1>3 DEF WaitPC
    <2> QED BY <1>2, <2>1, <2>2, RoomStoreBlock
  <1>5. pc'[Genesis] = pc[Genesis]
    BY <1>2, BroadcastStep, TreeAssumption DEF StoreInv, GenesisDone
  <1>6. \A c \in Block : pc'[c] \in Fresh => c \notin stored'
    <2>1. pc'[b] \notin Fresh
      BY BroadcastStep DEF Fresh
    <2> QED BY <1>3, <1>4, <2>1 DEF StoreInv, FreshNotStored, Fresh, WaitPC
  <1>7. \A c \in Block : npc'[c] = "hqc" => npc[c] = "hqc"
    BY BroadcastStep
  <1>8. {genericQC, lockedQC, execQC}' \subseteq stored'
    BY <1>1, <1>4, PointersKept
  <1>9. \A c \in Block : /\ pc'[c] = pc[c] \/ pc'[c] \in Waiting
                         /\ pc'[c] = "commit" => pc[c] = "commit"
                         /\ pc'[c] = "execqc" => pc[c] = "execqc"
    BY <1>3 DEF Waiting, WaitPC
  <1> QED
    BY <1>1, <1>4, <1>5, <1>6, <1>7, <1>8, <1>9, StoreFrame

(* The block of execQC is missing only when a block was evicted.           *)
LEMMA StorePanics ==
  ASSUME TypeOK, StoreInv, NEW b \in Block, ReceiveProposalPanics(b)
  PROVE  StoreInv'
  <1>1. /\ UNCHANGED <<store, stored, genericQC, lockedQC, execQC, voted, vpc, npc>>
        /\ execQC \notin store
        /\ \A c \in Block : pc'[c] = IF c = b THEN "panic" ELSE pc[c]
    BY PcStep DEF ReceiveProposalPanics, cacheVars, qcVars, voteVars
  <1>2. b # Genesis
    BY DEF ReceiveProposalPanics, At, StoreInv, GenesisDone
  <1>3. Room'
    BY <1>1 DEF StoreInv, PointersStored, Room
  <1>4. {genericQC, lockedQC, execQC}' \subseteq stored'
    BY <1>1, PointersKept
  <1>5. pc'[Genesis] = pc[Genesis]
    BY <1>1, <1>2, TreeAssumption
  <1>6. \A c \in Block : pc'[c] \in Fresh => c \notin stored'
    BY <1>1 DEF StoreInv, FreshNotStored, Fresh
  <1> QED
    BY <1>1, <1>3, <1>4, <1>5, <1>6, StoreFrame DEF Waiting

(* A look-up takes a handler to a phase only when it found the block, and  *)
(* createLeaf takes the justify from genericQC.                            *)
LEMMA StoreLoad ==
  ASSUME TypeOK, StoreInv, NEW b \in Block, LoadStep(b)
  PROVE  StoreInv'
  <1>1. UNCHANGED <<store, stored, genericQC, lockedQC, execQC, voted, vpc, npc>>
    BY LoadStepPc DEF OnlyPc, cacheVars, qcVars, voteVars
  <1>2. PICK l \in {"precommit", "commit", "execqc", "locked", "parent", "leaf",
                    "height", "done", "failed", "self", "vote"} :
            \A c \in Block : pc'[c] = IF c = b THEN l ELSE pc[c]
    BY LoadStepPc, PcStep DEF AfterUpdate
  <1>3. b # Genesis
    BY DEF LoadStep, LoadBlock2, LoadBlock1, LoadBlock0, LoadJustify, OnBeat,
           LoadParent, CreateLeaf, Propose, At, StoreInv, GenesisDone
  <1>4. store \subseteq stored
    BY DEF TypeOK
  <1>5. l \in Waiting \/ Justify[b] \in stored
    <2>1. CASE OnBeat(b) \/ LoadParent(b)
      BY <2>1, <1>2, PcStep DEF OnBeat, LoadParent, Waiting
    <2>2. CASE CreateLeaf(b)
      BY <2>2 DEF CreateLeaf, StoreInv, PointersStored
    <2>3. CASE LoadBlock2(b) \/ LoadBlock1(b) \/ LoadBlock0(b) \/ LoadJustify(b) \/ Propose(b)
      BY <1>3, <2>3 DEF LoadBlock2, LoadBlock1, LoadBlock0, LoadJustify, Propose, At,
                        StoreInv, JustifyStored, Waiting, WaitPC
    <2> QED BY <2>1, <2>2, <2>3 DEF LoadStep
  <1>6. l \in Fresh => b \notin stored
    <2>1. CASE OnBeat(b) \/ LoadParent(b) \/ CreateLeaf(b)
      BY <2>1 DEF OnBeat, LoadParent, CreateLeaf, At, StoreInv, FreshNotStored, Fresh
    <2>2. CASE LoadBlock2(b) \/ LoadBlock1(b) \/ LoadBlock0(b) \/ LoadJustify(b) \/ Propose(b)
      BY <1>2, <2>2, PcStep DEF LoadBlock2, LoadBlock1, LoadBlock0, LoadJustify, Propose,
                                AfterUpdate, Fresh
    <2> QED BY <2>1, <2>2 DEF LoadStep
  <1>7. l = "commit" => Block1(b) \in stored
    <2>1. ASSUME l = "commit" PROVE LoadBlock1(b) /\ HasJustify(Block2(b))
      BY <1>2, <2>1, PcStep DEF LoadStep, LoadBlock2, LoadBlock1, LoadBlock0, LoadJustify,
             OnBeat, LoadParent, CreateLeaf, Propose, AfterUpdate
    <2> QED BY <1>4, <2>1 DEF HasJustify, Block1
  <1>8. l = "execqc" => Block0(b) \in stored
    <2>1. ASSUME l = "execqc" PROVE LoadBlock0(b) /\ HasJustify(Block1(b))
      BY <1>2, <2>1, PcStep DEF LoadStep, LoadBlock2, LoadBlock1, LoadBlock0, LoadJustify,
             OnBeat, LoadParent, CreateLeaf, Propose, AfterUpdate
    <2> QED BY <1>4, <2>1 DEF HasJustify, Block0
  <1>9. Room'
    BY <1>1, <1>2, RoomKept
  <1>10. {genericQC, lockedQC, execQC}' \subseteq stored'
    BY <1>1, PointersKept
  <1>11. pc'[Genesis] = pc[Genesis]
    BY <1>2, <1>3, TreeAssumption
  <1>12. \A c \in Block : pc'[c] \in Fresh => c \notin stored'
    BY <1>1, <1>2, <1>6 DEF StoreInv, FreshNotStored
  <1> QED
    BY <1>1, <1>2, <1>5, <1>7, <1>8, <1>9, <1>10, <1>11, <1>12, StoreFrame

(* update assigns a QC only after getJustifyBlock found its block.         *)
LEMMA StoreUpdate ==
  ASSUME TypeOK, StoreInv, NEW b \in Block,
         PreCommit(b) \/ Commit(b) \/ Decide(b) \/ DecideLoop(b)
  PROVE  StoreInv'
  <1>1. b # Genesis /\ pc[b] \notin Waiting
    BY DEF PreCommit, Commit, Decide, DecideLoop, At, StoreInv, GenesisDone, Waiting,
           WaitPC
  <1>2. PICK l \in {"lock", "exec", "decide", "failed", "self", "vote"} :
            \A c \in Block : pc'[c] = IF c = b THEN l ELSE pc[c]
    <2>1. ASSUME NEW l \in {"lock", "exec", "decide", "failed", AfterUpdate(b)}, Goto(b, l)
          PROVE  \E m \in {"lock", "exec", "decide", "failed", "self", "vote"} :
                    \A c \in Block : pc'[c] = IF c = b THEN m ELSE pc[c]
      BY <2>1, PcStep DEF AfterUpdate
    <2>2. CASE UNCHANGED pc /\ pc[b] = "decide"
      BY <2>2
    <2> QED
      BY <2>1, <2>2 DEF PreCommit, Commit, Decide, DecideLoop, At
  <1>3. UNCHANGED <<store, stored, npc, vpc, voted>>
    BY DEF PreCommit, Commit, Decide, DecideLoop, cacheVars, voteVars
  <1>4. Block2(b) \in stored
    BY <1>1 DEF StoreInv, JustifyStored, Block2
  <1>5. genericQC' \in stored
    BY <1>4 DEF PreCommit, Commit, Decide, DecideLoop, UpdateHighestQC, qcVars,
                StoreInv, PointersStored
  <1>6. lockedQC' \in stored
    BY DEF PreCommit, Commit, Decide, DecideLoop, At, UpdateLockedQC, qcVars, StoreInv,
           PointersStored, PhasesStored
  <1>7. execQC' \in stored
    BY DEF PreCommit, Commit, Decide, DecideLoop, At, qcVars, StoreInv, PointersStored,
           PhasesStored
  <1>8. Room'
    BY <1>2, <1>3, RoomKept
  <1>9. \A c \in Block : pc'[c] \in Fresh => c \notin stored'
    BY <1>2, <1>3 DEF StoreInv, FreshNotStored, Fresh
  <1>10. pc'[Genesis] = pc[Genesis]
    BY <1>1, <1>2, TreeAssumption
  <1> QED
    BY <1>2, <1>3, <1>4, <1>5, <1>6, <1>7, <1>8, <1>9, <1>10, StoreFrame DEF Block2

(* A handler goes on to update only after AsyncWaitBlock found the justify *)
(* ...                                                                     *)
LEMMA StoreWaitJustify ==
  ASSUME TypeOK, StoreInv, NEW b \in Block, WaitJustify(b)
  PROVE  StoreInv'
  <1>1. UNCHANGED <<store, stored, genericQC, lockedQC, execQC, voted, vpc, npc>>
    BY DEF WaitJustify, cacheVars, qcVars, voteVars
  <1>2. PICK l \in {"gap", "waiting", "update", "failed"} :
            /\ \A c \in Block : pc'[c] = IF c = b THEN l ELSE pc[c]
            /\ l = "update" => Justify[b] \in store
    <2>1. AsyncWaitBlock(pc[b], Justify[b], "update", "failed")
             \in {"gap", "waiting", "update", "failed"}
      BY DEF WaitJustify, AsyncWaitBlock, WaitPC
    <2>2. AsyncWaitBlock(pc[b], Justify[b], "update", "failed") = "update"
             => Justify[b] \in store
      BY DEF WaitJustify, AsyncWaitBlock, WaitPC
    <2> QED BY <2>1, <2>2, PcStep DEF WaitJustify
  <1>3. b # Genesis /\ store \subseteq stored
    BY DEF WaitJustify, StoreInv, GenesisDone, WaitPC, TypeOK
  <1>4. Room'
    BY <1>1, <1>2, RoomKept
  <1>5. {genericQC, lockedQC, execQC}' \subseteq stored'
    BY <1>1, PointersKept
  <1>6. pc'[Genesis] = pc[Genesis]
    BY <1>2, <1>3, TreeAssumption
  <1>7. \A c \in Block : pc'[c] \in Fresh => c \notin stored'
    BY <1>1, <1>2 DEF StoreInv, FreshNotStored, Fresh
  <1> QED
    BY <1>1, <1>2, <1>3, <1>4, <1>5, <1>6, <1>7, StoreFrame DEF Waiting, WaitPC

(* ... so that it has been stored when the vote is decided.                *)
LEMMA StoreDecision ==
  ASSUME TypeOK, StoreInv, NEW b \in Block, DecisionStep(b)
  PROVE  StoreInv'
  <1>1. /\ UNCHANGED <<store, stored, genericQC, lockedQC, execQC, npc>>
        /\ voted' \subseteq voted \cup {b}
        /\ pc[b] \in {"vote", "locked", "walk", "raise", "self"}
    BY DecisionFacts
  <1>2. PICK l \in {"safe", "walk", "raise", "selfvote", "done", "failed"} :
            \A c \in Block : pc'[c] = IF c = b THEN l ELSE pc[c]
    BY DecisionFacts
  <1>3. b # Genesis
    BY <1>1 DEF StoreInv, GenesisDone
  <1>4. Justify[b] \in stored
    BY <1>1, <1>3 DEF StoreInv, JustifyStored, Waiting, WaitPC
  <1>5. Room'
    BY <1>1, <1>2, RoomKept
  <1>6. {genericQC, lockedQC, execQC}' \subseteq stored'
    BY <1>1, PointersKept
  <1>7. pc'[Genesis] = pc[Genesis]
    BY <1>2, <1>3, TreeAssumption
  <1>8. \A c \in Block : pc'[c] \in Fresh => c \notin stored'
    BY <1>1, <1>2 DEF StoreInv, FreshNotStored, Fresh
  <1>9. \A c \in Block : \A t \in Replica : vpc'[c][t] \in {vpc[c][t], "load"}
    BY DecisionFacts
  <1> QED
    BY <1>1, <1>2, <1>4, <1>5, <1>6, <1>7, <1>8, <1>9, StoreFrame

(* OnPropose stores a leaf that was not stored before.                     *)
LEMMA StoreStoreLeaf ==
  ASSUME TypeOK, StoreInv, NEW b \in Block, StoreLeaf(b)
  PROVE  StoreInv'
  <1>1. UNCHANGED <<genericQC, lockedQC, execQC, npc, vpc, voted>>
    BY DEF StoreLeaf, qcVars, voteVars
  <1>2. pc[b] = "height" /\ b \notin stored /\ b # Genesis
    BY DEF StoreLeaf, At, StoreInv, FreshNotStored, Fresh, GenesisDone
  <1>3. PICK l \in {"update", "failed"} :
            \A c \in Block : pc'[c] = IF c = b THEN l ELSE pc[c]
    BY PcStep DEF StoreLeaf
  <1>4. Room' /\ stored \subseteq stored' /\ stored' \subseteq stored \cup {b}
    <2>1. CASE StoreBlock(b)
      BY <1>2, <1>3, <2>1, RoomStoreBlock
    <2>2. CASE UNCHANGED cacheVars
      BY <1>3, <2>2, RoomKept DEF cacheVars
    <2> QED BY <2>1, <2>2 DEF StoreLeaf
  <1>5. Justify[b] \in stored
    BY <1>2 DEF StoreInv, JustifyStored, Waiting, WaitPC
  <1>6. {genericQC, lockedQC, execQC}' \subseteq stored'
    BY <1>1, <1>4, PointersKept
  <1>7. pc'[Genesis] = pc[Genesis]
    BY <1>2, <1>3, TreeAssumption
  <1>8. \A c \in Block : pc'[c] \in Fresh => c \notin stored'
    BY <1>3, <1>4 DEF StoreInv, FreshNotStored, Fresh
  <1> QED
    BY <1>1, <1>3, <1>4, <1>5, <1>6, <1>7, <1>8, StoreFrame

(* OnProposalVote assigns genericQC only for a block it loaded.            *)
LEMMA StoreVote ==
  ASSUME TypeOK, StoreInv, NEW b \in Block, NEW s \in Replica,
         ReceiveVote(b, s) \/ VoteStep(b, s)
  PROVE  StoreInv'
  <1>1. UNCHANGED <<store, stored, lockedQC, execQC, pc, npc, voted>>
    BY DEF ReceiveVote, VoteStep, LoadVoted, AddVoteMsg, CountVote, FinishQC, qcVars,
           cacheVars
  <1>2. genericQC' \in stored
    <2>1. CASE FinishQC(b, s)
      BY <2>1 DEF FinishQC, At, UpdateHighestQC, StoreInv, PointersStored, CountedStored
    <2> QED
      BY <2>1 DEF ReceiveVote, VoteStep, LoadVoted, AddVoteMsg, CountVote, StoreInv,
                  PointersStored, qcVars
  <1>3. PICK l : /\ vpc' = [vpc EXCEPT ![b][s] = l]
                 /\ l \in {"load", "buffer", "done"} \/ b \in stored
    BY DEF ReceiveVote, VoteStep, LoadVoted, AddVoteMsg, CountVote, FinishQC, At,
           StoreInv, CountedStored, TypeOK
  <1>4. \A c \in Block : \A t \in Replica :
           vpc'[c][t] \in {vpc[c][t], "load", "buffer", "done"} \/ c \in stored
    BY <1>3, VpcStep
  <1>5. {genericQC, lockedQC, execQC}' \subseteq stored'
    BY <1>1, <1>2 DEF StoreInv, PointersStored
  <1>6. Room'
    BY <1>1, RoomKept
  <1>7. \A c \in Block : pc'[c] \in Fresh => c \notin stored'
    BY <1>1 DEF StoreInv, FreshNotStored
  <1> QED
    BY <1>1, <1>4, <1>5, <1>6, <1>7, StoreFrame

(* OnReceiveNewView assigns genericQC only for a block that AsyncWaitBlock *)
(* found.                                                                  *)
LEMMA StoreNewView ==
  ASSUME TypeOK, StoreInv, NEW b \in Block, ReceiveNewView(b) \/ NewViewStep(b)
  PROVE  StoreInv'
  <1>1. UNCHANGED <<store, stored, lockedQC, execQC, pc, vpc, voted>>
    BY DEF ReceiveNewView, NewViewStep, WaitNewView, ApplyNewView, cacheVars, qcVars,
           voteVars
  <1>2. genericQC' \in stored
    BY DEF ReceiveNewView, NewViewStep, WaitNewView, ApplyNewView, At, UpdateHighestQC,
           qcVars, StoreInv, PointersStored, HighStored
  <1>3. \A c \in Block : npc'[c] = "hqc" => npc[c] = "hqc" \/ c \in stored
    BY DEF ReceiveNewView, NewViewStep, WaitNewView, ApplyNewView, AsyncWaitBlock,
           WaitPC, TypeOK
  <1>4. {genericQC, lockedQC, execQC}' \subseteq stored'
    BY <1>1, <1>2 DEF StoreInv, PointersStored
  <1>5. Room'
    BY <1>1, RoomKept
  <1>6. \A c \in Block : pc'[c] \in Fresh => c \notin stored'
    BY <1>1 DEF StoreInv, FreshNotStored
  <1> QED
    BY <1>1, <1>3, <1>4, <1>5, <1>6, StoreFrame

(* Every step keeps StoreInv.                                              *)
LEMMA StoreStep == TypeOK /\ StoreInv /\ [Next]_vars => StoreInv'
  <1> SUFFICES ASSUME TypeOK, StoreInv, [Next]_vars PROVE StoreInv'
    OBVIOUS
  <1>1. ASSUME NEW b \in Block, ProposalStep(b) PROVE StoreInv'
    BY <1>1, StoreLoad, StoreUpdate, StoreWaitJustify, StoreDecision, StoreStoreLeaf
    DEF ProposalStep, LoadStep, DecisionStep
  <1>2. ASSUME NEW b \in Block, NewViewStep(b) PROVE StoreInv'
    BY <1>2, StoreNewView
  <1>3. ASSUME NEW b \in Block, NEW s \in Replica, VoteStep(b, s) PROVE StoreInv'
    BY <1>3, StoreVote
  <1>4. CASE Environment
    BY <1>4, StoreReceiveProposal, StorePanics, StoreLoad, StoreNewView, StoreVote
    DEF Environment, LoadStep
  <1>5. CASE UNCHANGED vars
    BY <1>5 DEF vars, cacheVars, qcVars, voteVars, StoreInv, PointersStored, GenesisDone,
                FreshNotStored, JustifyStored, PhasesStored, HighStored, CountedStored,
                Running
  <1> QED BY <1>1, <1>2, <1>3, <1>4, <1>5 DEF Next

(* A QC is taken over, and a vote sent, only for a block whose block, or   *)
(* justify, was stored; LoadBlock misses a block that was stored, and      *)
(* handleProposal panics for want of the block of execQC, only after more  *)
(* blocks than the cache holds were stored: for every capacity of the      *)
(* cache, every choice of the block it evicts and every interleaving.      *)
THEOREM PointersAlwaysStored == Spec => []PointersStored
  <1>1. Spec => [](TypeOK /\ StoreInv)
    BY TypeInit, TypeStep, StoreInit, StoreStep, PTL DEF Spec
  <1>2. StoreInv => PointersStored
    BY DEF StoreInv
  <1> QED BY <1>1, <1>2, PTL

-----------------------------------------------------------------------------
(* The inductive strengthening of QcFinishOnce and VotesConserved.  Nothing*)
(* is counted for a block that was not stored: storing it then forgets no  *)
(* signature; at most one goroutine is between the release of mut and the  *)
(* QcFinishEvent, and the quorum that it saw stays.                        *)
NotStoredEmpty ==
    \A b \in Block : b \notin stored => signs[b] = {} /\ qcFinish[b] = 0

Finisher ==
    \A b \in Block : \A s \in Replica : vpc[b][s] = "qc" =>
        /\ HasQuorum(signs[b])
        /\ qcFinish[b] = 0
        /\ \A t \in Replica : vpc[b][t] = "qc" => t = s

CountInv ==
    /\ NotStoredEmpty
    /\ QcFinishOnce
    /\ Finisher
    /\ VotesConserved

(* No quorum is empty.                                                     *)
LEMMA EmptyNoQuorum == ~HasQuorum({})
  BY ConfAssumption, FS_EmptySet DEF HasQuorum, QuorumSize

(* No vote has been counted at the start.                                  *)
LEMMA CountInit == Init => CountInv
  BY ConfAssumption, TreeAssumption
  DEF Init, CountInv, NotStoredEmpty, QcFinishOnce, Finisher,
      VotesConserved

(* A step that counts no vote and stores no block disturbs nothing, unless *)
(* a vote reaches "qc" or "done".                                          *)
LEMMA CountFrame ==
  ASSUME CountInv,
         UNCHANGED <<stored, signs, voteSet, qcFinish>>,
         \A b \in Block : \A s \in Replica :
            vpc'[b][s] \in {vpc[b][s], "load", "buffer", "count"}
  PROVE  CountInv'
  <1>1. NotStoredEmpty'
    BY DEF CountInv, NotStoredEmpty
  <1>2. QcFinishOnce'
    BY DEF CountInv, QcFinishOnce, HasQuorum, QuorumSize
  <1>3. Finisher'
    BY DEF CountInv, Finisher, HasQuorum, QuorumSize
  <1>4. VotesConserved'
    BY DEF CountInv, VotesConserved, HasQuorum, QuorumSize
  <1> QED BY <1>1, <1>2, <1>3, <1>4 DEF CountInv

(* A proposal that is stored replaces no block with votes: nothing is      *)
(* counted before.                                                         *)
LEMMA CountReceiveProposal ==
  ASSUME TypeOK, StoreInv, CountInv, NEW b \in Block, ReceiveProposal(b)
  PROVE  CountInv'
  <1>1. b \notin stored /\ signs[b] = {} /\ qcFinish[b] = 0
    BY DEF ReceiveProposal, At, StoreInv, FreshNotStored, Fresh, CountInv,
           NotStoredEmpty
  <1>2. /\ UNCHANGED <<voteSet, vpc, qcFinish>>
        /\ stored' = stored \cup {b}
        /\ \A c \in Block \ {b} : signs'[c] = signs[c]
    BY DEF ReceiveProposal, StoreBlock, TypeOK
  <1>3. NotStoredEmpty'
    BY <1>2 DEF CountInv, NotStoredEmpty
  <1>4. QcFinishOnce'
    BY <1>1, <1>2 DEF CountInv, QcFinishOnce, HasQuorum, QuorumSize
  <1>5. Finisher'
    <2>1. \A s \in Replica : vpc[b][s] # "qc"
      BY <1>1 DEF StoreInv, CountedStored
    <2> QED
      BY <1>2, <2>1 DEF CountInv, Finisher, HasQuorum, QuorumSize
  <1>6. VotesConserved'
    <2>1. \A s \in Replica : vpc[b][s] = "done" => s \in voteSet[b]
      BY <1>1, EmptyNoQuorum DEF CountInv, VotesConserved
    <2> QED
      BY <1>2, <2>1 DEF CountInv, VotesConserved, HasQuorum, QuorumSize
  <1> QED BY <1>3, <1>4, <1>5, <1>6 DEF CountInv

(* The handler of a proposal counts no vote.                               *)
LEMMA CountProposalStep ==
  ASSUME TypeOK, CountInv, NEW b \in Block,
         \/ ProposalStep(b) /\ ~StoreLeaf(b)
         \/ OnBeat(b)
         \/ CreateLeaf(b)
         \/ ReceiveProposalPanics(b)
  PROVE  CountInv'
  <1>1. CASE DecisionStep(b)
    BY <1>1, DecisionFacts, CountFrame
  <1>2. CASE LoadStep(b)
    <2>1. UNCHANGED <<stored, signs, voteSet, qcFinish, vpc>>
      BY <1>2, LoadStepPc DEF OnlyPc, cacheVars, voteVars
    <2> QED BY <2>1, CountFrame
  <1>3. CASE \/ WaitJustify(b) \/ PreCommit(b) \/ Commit(b) \/ Decide(b)
             \/ DecideLoop(b) \/ ReceiveProposalPanics(b)
    <2>1. UNCHANGED <<stored, signs, voteSet, qcFinish, vpc>>
      BY <1>3 DEF WaitJustify, PreCommit, Commit, Decide, DecideLoop,
                  ReceiveProposalPanics, cacheVars, voteVars
    <2> QED BY <2>1, CountFrame
  <1> QED
    BY <1>1, <1>2, <1>3 DEF ProposalStep, DecisionStep, LoadStep

(* Nor does the storing of a new leaf.                                     *)
LEMMA CountStoreLeaf ==
  ASSUME TypeOK, CountInv, NEW b \in Block, StoreLeaf(b)
  PROVE  CountInv'
  <1>1. UNCHANGED <<signs, voteSet, qcFinish, vpc>> /\ stored \subseteq stored'
    BY DEF StoreLeaf, StoreBlock, voteVars, cacheVars
  <1>2. NotStoredEmpty'
    BY <1>1 DEF CountInv, NotStoredEmpty
  <1>3. QcFinishOnce' /\ VotesConserved'
    BY <1>1 DEF CountInv, QcFinishOnce, VotesConserved, HasQuorum, QuorumSize
  <1>4. Finisher'
    BY <1>1 DEF CountInv, Finisher, HasQuorum, QuorumSize
  <1> QED BY <1>2, <1>3, <1>4 DEF CountInv

(* A vote that arrives and is looked up is not counted yet.                *)
LEMMA CountEarlyVote ==
  ASSUME TypeOK, CountInv, NEW b \in Block, NEW s \in Replica,
         ReceiveVote(b, s) \/ LoadVoted(b, s)
  PROVE  CountInv'
  <1>1. PICK l \in {"load", "buffer", "count"} : vpc' = [vpc EXCEPT ![b][s] = l]
    BY DEF ReceiveVote, LoadVoted
  <1>2. UNCHANGED <<stored, signs, voteSet, qcFinish, pc>>
    BY DEF ReceiveVote, LoadVoted, cacheVars
  <1> QED
    BY <1>1, <1>2, VpcStep, CountFrame

(* addVoteMsg keeps the vote.                                              *)
LEMMA CountAddVoteMsg ==
  ASSUME TypeOK, CountInv, NEW b \in Block, NEW s \in Replica, AddVoteMsg(b, s)
  PROVE  CountInv'
  <1>1. UNCHANGED <<stored, signs, qcFinish, pc>>
    BY DEF AddVoteMsg, cacheVars
  <1>2. \A c \in Block : \A t \in Replica :
           vpc'[c][t] = IF c = b /\ t = s THEN "done" ELSE vpc[c][t]
    <2>1. vpc' = [vpc EXCEPT ![b][s] = "done"]
      BY DEF AddVoteMsg
    <2>2. vpc \in [Block -> [Replica -> VotePC]]
      BY DEF TypeOK
    <2> QED BY <2>1, <2>2
  <1>3. \A c \in Block : voteSet'[c] = IF c = b THEN voteSet[b] \cup {s} ELSE voteSet[c]
    BY DEF AddVoteMsg, TypeOK
  <1>4. NotStoredEmpty' /\ QcFinishOnce'
    BY <1>1 DEF CountInv, NotStoredEmpty, QcFinishOnce, HasQuorum,
                QuorumSize
  <1>5. Finisher'
    BY <1>1, <1>2 DEF CountInv, Finisher, HasQuorum, QuorumSize
  <1>6. VotesConserved'
    BY <1>1, <1>2, <1>3 DEF CountInv, VotesConserved, HasQuorum, QuorumSize
  <1> QED BY <1>4, <1>5, <1>6 DEF CountInv

(* The part of OnProposalVote under mut: a vote is counted with the        *)
(* buffered ones, and only the first goroutine that sees a quorum goes on  *)
(* to report it.                                                           *)
LEMMA CountCountVote ==
  ASSUME TypeOK, StoreInv, CountInv, NEW b \in Block, NEW s \in Replica,
         CountVote(b, s)
  PROVE  CountInv'
  <1>1. UNCHANGED <<stored, qcFinish, pc>> /\ b \in stored
    BY DEF CountVote, At, cacheVars, StoreInv, CountedStored
  <1>2. CASE IgnoredVote(b, s)
    <2>1. UNCHANGED <<signs, voteSet>>
      BY <1>2 DEF CountVote
    <2>2. \A c \in Block : \A t \in Replica :
             vpc'[c][t] = IF c = b /\ t = s THEN "done" ELSE vpc[c][t]
      BY <1>2, VpcStep DEF CountVote
    <2>3. NotStoredEmpty' /\ QcFinishOnce'
      BY <1>1, <2>1 DEF CountInv, NotStoredEmpty, QcFinishOnce,
                        HasQuorum, QuorumSize
    <2>4. Finisher'
      BY <1>1, <2>1, <2>2 DEF CountInv, Finisher, HasQuorum, QuorumSize
    <2>5. VotesConserved'
      BY <1>2, <1>1, <2>1, <2>2
      DEF CountInv, VotesConserved, IgnoredVote, HasQuorum, QuorumSize
    <2> QED BY <2>3, <2>4, <2>5 DEF CountInv
  <1>3. CASE ~IgnoredVote(b, s)
    <2>1. /\ \A c \in Block : signs'[c] = IF c = b THEN Collect(b, s) ELSE signs[c]
          /\ \A c \in Block : voteSet'[c] = IF c = b THEN {} ELSE voteSet[c]
      BY <1>3 DEF CountVote, TypeOK
    <2>2. \A c \in Block : \A t \in Replica :
             vpc'[c][t] = IF c = b /\ t = s
                          THEN IF HasQuorum(Collect(b, s)) THEN "qc" ELSE "done"
                          ELSE vpc[c][t]
      BY <1>3, VpcStep DEF CountVote, AfterCount
    <2>3. ~HasQuorum(signs[b]) /\ qcFinish[b] = 0
          /\ \A t \in Replica : vpc[b][t] # "qc"
      <3>1. ~HasQuorum(signs[b])
        BY <1>3 DEF IgnoredVote
      <3>2. qcFinish[b] \in Nat
        BY DEF TypeOK
      <3> QED
        BY <3>1, <3>2 DEF CountInv, QcFinishOnce, Finisher
    <2>4. NotStoredEmpty'
      BY <1>1, <2>1 DEF CountInv, NotStoredEmpty
    <2>5. QcFinishOnce'
      BY <1>1, <2>1, <2>3 DEF CountInv, QcFinishOnce, HasQuorum, QuorumSize
    <2>6. Finisher'
      BY <1>1, <2>1, <2>2, <2>3 DEF CountInv, Finisher, HasQuorum, QuorumSize
    <2>7. VotesConserved'
      BY <1>1, <2>1, <2>2, <2>3
      DEF CountInv, VotesConserved, Collect, HasQuorum, QuorumSize
    <2> QED BY <2>4, <2>5, <2>6, <2>7 DEF CountInv
  <1> QED BY <1>2, <1>3

(* The goroutine that reports the quorum is the only one, and reports it   *)
(* once.                                                                   *)
LEMMA CountFinishQC ==
  ASSUME TypeOK, StoreInv, CountInv, NEW b \in Block, NEW s \in Replica,
         FinishQC(b, s)
  PROVE  CountInv'
  <1>1. UNCHANGED <<stored, signs, voteSet, pc>> /\ b \in stored
    BY DEF FinishQC, At, cacheVars, StoreInv, CountedStored
  <1>2. \A c \in Block : \A t \in Replica :
           vpc'[c][t] = IF c = b /\ t = s THEN "done" ELSE vpc[c][t]
    <2>1. vpc' = [vpc EXCEPT ![b][s] = "done"]
      BY DEF FinishQC
    <2>2. vpc \in [Block -> [Replica -> VotePC]]
      BY DEF TypeOK
    <2> QED BY <2>1, <2>2
  <1>3. \A c \in Block : qcFinish'[c] = IF c = b THEN qcFinish[b] + 1 ELSE qcFinish[c]
    BY DEF FinishQC, TypeOK
  <1>4. /\ vpc[b][s] = "qc" /\ HasQuorum(signs[b]) /\ qcFinish[b] = 0
        /\ \A t \in Replica : vpc[b][t] = "qc" => t = s
    BY DEF FinishQC, At, CountInv, Finisher
  <1>5. NotStoredEmpty'
    BY <1>1, <1>3 DEF CountInv, NotStoredEmpty
  <1>6. QcFinishOnce'
    BY <1>1, <1>3, <1>4 DEF CountInv, QcFinishOnce, HasQuorum, QuorumSize
  <1>7. Finisher'
    BY <1>1, <1>2, <1>3, <1>4 DEF CountInv, Finisher, HasQuorum, QuorumSize
  <1>8. VotesConserved'
    BY <1>1, <1>2, <1>4 DEF CountInv, VotesConserved, HasQuorum, QuorumSize
  <1> QED BY <1>5, <1>6, <1>7, <1>8 DEF CountInv

(* Every step keeps CountInv.                                              *)
LEMMA CountStep == TypeOK /\ StoreInv /\ CountInv /\ [Next]_vars => CountInv'
  <1> SUFFICES ASSUME TypeOK, StoreInv, CountInv, [Next]_vars PROVE CountInv'
    OBVIOUS
  <1>1. ASSUME NEW b \in Block, ProposalStep(b) PROVE CountInv'
    BY <1>1, CountProposalStep, CountStoreLeaf
  <1>2. ASSUME NEW b \in Block, NewViewStep(b) \/ ReceiveNewView(b) PROVE CountInv'
    <2>1. UNCHANGED <<stored, signs, voteSet, qcFinish, pc, vpc>>
      BY <1>2 DEF NewViewStep, ReceiveNewView, WaitNewView, ApplyNewView, cacheVars, voteVars
    <2> QED BY <2>1, CountFrame
  <1>3. ASSUME NEW b \in Block, NEW s \in Replica, VoteStep(b, s) PROVE CountInv'
    BY <1>3, CountEarlyVote, CountAddVoteMsg, CountCountVote, CountFinishQC
    DEF VoteStep
  <1>4. CASE Environment
    BY <1>2, <1>4, CountReceiveProposal, CountProposalStep, CountEarlyVote
    DEF Environment
  <1>5. CASE UNCHANGED vars
    BY <1>5, CountFrame DEF vars, cacheVars, voteVars
  <1> QED BY <1>1, <1>2, <1>3, <1>4, <1>5 DEF Next

(* OnProposalVote reports the QC of a block at most once and only with a   *)
(* quorum of signatures, for every interleaving of the vote handlers.      *)
THEOREM QcReportedOnce == Spec => []QcFinishOnce
  <1>1. Spec => [](TypeOK /\ StoreInv /\ CountInv)
    BY TypeInit, TypeStep, StoreInit, StoreStep, CountInit, CountStep, PTL DEF Spec
  <1>2. CountInv => QcFinishOnce
    BY DEF CountInv
  <1> QED BY <1>1, <1>2, PTL

(* addVoteMsg and applyVotes lose no vote that OnProposalVote was given.   *)
THEOREM NoVoteLost == Spec => []VotesConserved
  <1>1. Spec => [](TypeOK /\ StoreInv /\ CountInv)
    BY TypeInit, TypeStep, StoreInit, StoreStep, CountInit, CountStep, PTL DEF Spec
  <1>2. CountInv => VotesConserved
    BY DEF CountInv
  <1> QED BY <1>1, <1>2, PTL

-----------------------------------------------------------------------------
(* All replicas are a quorum, so that UpdateHighestQC accepts the QC of a  *)
(* block that is not the genesis block.                                    *)
LEMMA AllQuorum == HasQuorum(Replica)
  <1>1. Cardinality(Replica) = N
    BY ConfAssumption, FS_Interval DEF Replica
  <1> QED BY <1>1, ConfAssumption DEF HasQuorum, QuorumSize

(* UpdateHighestQC does not lower genericQC, and with a quorum raises it   *)
(* to at least the block it is given, unless it misses the old one.        *)
LEMMA HighestQCStep ==
  ASSUME TypeOK, NEW b \in Block, NEW S, UpdateHighestQC(b, S)
  PROVE  /\ Height[genericQC'] >= Height[genericQC]
         /\ HasQuorum(S) /\ genericQC \in store => Height[genericQC'] >= Height[b]
  <1>1. Height[b] \in Nat /\ Height[genericQC] \in Nat
    BY TreeFacts DEF TypeOK
  <1> QED BY <1>1 DEF UpdateHighestQC

(* updateLockedQC does not lower the lock and raises it to at least the    *)
(* block it is given, unless it misses the old one.                        *)
LEMMA LockedQCStep ==
  ASSUME TypeOK, NEW b \in Block, UpdateLockedQC(b)
  PROVE  /\ Height[lockedQC'] >= Height[lockedQC]
         /\ lockedQC \in store => Height[lockedQC'] >= Height[b]
  <1>1. Height[b] \in Nat /\ Height[lockedQC] \in Nat
    BY TreeFacts DEF TypeOK
  <1> QED BY <1>1 DEF UpdateLockedQC

(* The highest QC is assigned by UpdateHighestQC only ...                  *)
LEMMA GenericStep ==
  ASSUME TypeOK, [Next]_vars
  PROVE  \/ UNCHANGED genericQC
         \/ UNCHANGED store /\ \E b \in Block : \E S : UpdateHighestQC(b, S)
  <1>1. ASSUME NEW b \in Block, PreCommit(b)
        PROVE  UNCHANGED store /\ \E c \in Block : \E S : UpdateHighestQC(c, S)
    BY <1>1, TreeFacts DEF PreCommit, cacheVars
  <1>2. ASSUME NEW b \in Block, ApplyNewView(b)
        PROVE  UNCHANGED store /\ \E c \in Block : \E S : UpdateHighestQC(c, S)
    BY <1>2 DEF ApplyNewView, cacheVars
  <1>3. ASSUME NEW b \in Block, NEW s \in Replica, FinishQC(b, s)
        PROVE  UNCHANGED store /\ \E c \in Block : \E S : UpdateHighestQC(c, S)
    BY <1>3 DEF FinishQC, cacheVars
  <1>4. ASSUME NEW b \in Block, DecisionStep(b) \/ LoadStep(b)
        PROVE  UNCHANGED genericQC
    BY <1>4, DecisionFacts, LoadStepPc DEF OnlyPc, qcVars
  <1>5. ASSUME NEW b \in Block,
               \/ WaitJustify(b) \/ Commit(b) \/ Decide(b) \/ DecideLoop(b)
               \/ StoreLeaf(b) \/ ReceiveProposal(b) \/ ReceiveProposalPanics(b)
               \/ WaitNewView(b) \/ ReceiveNewView(b)
        PROVE  UNCHANGED genericQC
    BY <1>5 DEF WaitJustify, Commit, Decide, DecideLoop, StoreLeaf, ReceiveProposal,
                ReceiveProposalPanics, WaitNewView, ReceiveNewView, qcVars
  <1>6. ASSUME NEW b \in Block, NEW s \in Replica,
               ReceiveVote(b, s) \/ LoadVoted(b, s) \/ AddVoteMsg(b, s) \/ CountVote(b, s)
        PROVE  UNCHANGED genericQC
    BY <1>6 DEF ReceiveVote, LoadVoted, AddVoteMsg, CountVote, qcVars
  <1>7. CASE UNCHANGED vars
    BY <1>7 DEF vars, qcVars
  <1> QED
    BY <1>1, <1>2, <1>3, <1>4, <1>5, <1>6, <1>7
    DEF Next, ProposalStep, VoteStep, NewViewStep, Environment, DecisionStep, LoadStep

(* ... and the lock by updateLockedQC only.                                *)
LEMMA LockStep ==
  ASSUME TypeOK, [Next]_vars
  PROVE  \/ UNCHANGED lockedQC
         \/ UNCHANGED store /\ \E b \in Block : UpdateLockedQC(b)
  <1>1. ASSUME NEW b \in Block, Commit(b)
        PROVE  UNCHANGED store /\ \E c \in Block : UpdateLockedQC(c)
    BY <1>1, TreeFacts DEF Commit, cacheVars
  <1>2. ASSUME NEW b \in Block, DecisionStep(b) \/ LoadStep(b)
        PROVE  UNCHANGED lockedQC
    BY <1>2, DecisionFacts, LoadStepPc DEF OnlyPc, qcVars
  <1>3. ASSUME NEW b \in Block,
               \/ WaitJustify(b) \/ PreCommit(b) \/ Decide(b) \/ DecideLoop(b)
               \/ StoreLeaf(b) \/ ReceiveProposal(b) \/ ReceiveProposalPanics(b)
               \/ WaitNewView(b) \/ ReceiveNewView(b) \/ ApplyNewView(b)
        PROVE  UNCHANGED lockedQC
    BY <1>3 DEF WaitJustify, PreCommit, Decide, DecideLoop, StoreLeaf, ReceiveProposal,
                ReceiveProposalPanics, WaitNewView, ReceiveNewView, ApplyNewView, qcVars
  <1>4. ASSUME NEW b \in Block, NEW s \in Replica, ReceiveVote(b, s) \/ VoteStep(b, s)
        PROVE  UNCHANGED lockedQC
    BY <1>4 DEF ReceiveVote, VoteStep, LoadVoted, AddVoteMsg, CountVote, FinishQC, qcVars
  <1>5. CASE UNCHANGED vars
    BY <1>5 DEF vars, qcVars
  <1> QED
    BY <1>1, <1>2, <1>3, <1>4, <1>5
    DEF Next, ProposalStep, NewViewStep, Environment, DecisionStep, LoadStep

(* No step lowers the highest QC or the lock.                              *)
LEMMA MonotoneStep ==
  ASSUME TypeOK, [Next]_vars
  PROVE  /\ Height[genericQC'] >= Height[genericQC]
         /\ Height[lockedQC'] >= Height[lockedQC]
  <1>1. Height[genericQC] \in Nat /\ Height[lockedQC] \in Nat
    BY TreeFacts DEF TypeOK
  <1>2. Height[genericQC'] >= Height[genericQC]
    BY <1>1, GenericStep, HighestQCStep
  <1>3. Height[lockedQC'] >= Height[lockedQC]
    BY <1>1, LockStep, LockedQCStep
  <1> QED BY <1>2, <1>3

(* The highest QC and the lock only rise, for every interleaving of the    *)
(* handlers: UpdateHighestQC and updateLockedQC compare and assign under   *)
(* qcLock.                                                                 *)
THEOREM QcOnlyRises == Spec => QcMonotone
  <1>1. TypeOK /\ [Next]_vars =>
           [/\ Height[genericQC'] >= Height[genericQC]
            /\ Height[lockedQC'] >= Height[lockedQC]]_vars
    BY MonotoneStep
  <1> QED
    BY <1>1, TypeInit, TypeStep, PTL DEF Spec, QcMonotone

-----------------------------------------------------------------------------
(* A block is stored by a step only when it never was before ...           *)
LEMMA CacheStep ==
  ASSUME TypeOK, StoreInv, [Next]_vars
  PROVE  \A c \in stored : c \in store' => c \in store
  <1>1. ASSUME NEW b \in Block, b \notin stored, StoreBlock(b)
        PROVE  \A c \in stored : c \in store' => c \in store
    BY <1>1 DEF StoreBlock
  <1>2. ASSUME NEW b \in Block, ReceiveProposal(b)
        PROVE  \A c \in stored : c \in store' => c \in store
    BY <1>1, <1>2 DEF ReceiveProposal, At, StoreInv, FreshNotStored, Fresh
  <1>3. ASSUME NEW b \in Block, StoreLeaf(b)
        PROVE  \A c \in stored : c \in store' => c \in store
    BY <1>1, <1>3 DEF StoreLeaf, At, StoreInv, FreshNotStored, Fresh, cacheVars
  <1>4. ASSUME NEW b \in Block, DecisionStep(b) \/ LoadStep(b)
        PROVE  UNCHANGED store
    BY <1>4, DecisionFacts, LoadStepPc DEF OnlyPc, cacheVars
  <1>5. ASSUME NEW b \in Block,
               \/ WaitJustify(b) \/ PreCommit(b) \/ Commit(b) \/ Decide(b)
               \/ DecideLoop(b) \/ ReceiveProposalPanics(b)
               \/ WaitNewView(b) \/ ReceiveNewView(b) \/ ApplyNewView(b)
        PROVE  UNCHANGED store
    BY <1>5 DEF WaitJustify, PreCommit, Commit, Decide, DecideLoop,
                ReceiveProposalPanics, WaitNewView, ReceiveNewView, ApplyNewView,
                cacheVars
  <1>6. ASSUME NEW b \in Block, NEW s \in Replica, ReceiveVote(b, s) \/ VoteStep(b, s)
        PROVE  UNCHANGED store
    BY <1>6 DEF ReceiveVote, VoteStep, LoadVoted, AddVoteMsg, CountVote, FinishQC,
                cacheVars
  <1>7. CASE UNCHANGED vars
    BY <1>7 DEF vars, cacheVars
  <1> QED
    BY <1>2, <1>3, <1>4, <1>5, <1>6, <1>7
    DEF Next, ProposalStep, NewViewStep, Environment, DecisionStep, LoadStep

(* ... so that a QC whose block was evicted stays where it is, and its     *)
(* block away.                                                             *)
LEMMA EvictedForGood ==
  ASSUME TypeOK, StoreInv, [Next]_vars
  PROVE  /\ genericQC' \in store' => genericQC \in store
         /\ lockedQC' \in store' => lockedQC \in store
  <1>1. genericQC \in stored /\ lockedQC \in stored
    BY DEF StoreInv, PointersStored
  <1>2. genericQC' \in store' => genericQC \in store
    <2>1. CASE UNCHANGED genericQC
      BY <1>1, <2>1, CacheStep
    <2>2. CASE UNCHANGED store /\ \E b \in Block : \E S : UpdateHighestQC(b, S)
      BY <2>2 DEF UpdateHighestQC
    <2> QED BY <2>1, <2>2, GenericStep
  <1>3. lockedQC' \in store' => lockedQC \in store
    <2>1. CASE UNCHANGED lockedQC
      BY <1>1, <2>1, CacheStep
    <2>2. CASE UNCHANGED store /\ \E b \in Block : UpdateLockedQC(b)
      BY <2>2 DEF UpdateLockedQC
    <2> QED BY <2>1, <2>2, LockStep
  <1> QED BY <1>2, <1>3

(* The inductive strengthening of DecideUnderLock and LockUnderGeneric:    *)
(* what a goroutine between two phases of update knows of the QCs, as long *)
(* as their blocks can be loaded.                                          *)
AtLock ==
    \A b \in Block : pc[b] \in {"lock", "commit"} =>
        /\ genericQC \in store => Height[Block2(b)] <= Height[genericQC]
        /\ pc[b] = "commit" => Block2(b) # Genesis

AtExec ==
    \A b \in Block : pc[b] \in {"exec", "execqc"} =>
        /\ lockedQC \in store => Height[Block1(b)] <= Height[lockedQC]
        /\ pc[b] = "execqc" => Block1(b) # Genesis /\ Block0(b) = Parent[Block1(b)]

AtDecide ==
    \A b \in Block : pc[b] = "decide" =>
        /\ left[b] <= Height[cur[b]]
        /\ left[b] > 0 /\ lockedQC \in store => Height[cur[b]] < Height[lockedQC]

PhaseInv ==
    /\ DecideUnderLock
    /\ LockUnderGeneric
    /\ AtLock
    /\ AtExec
    /\ AtDecide

InPhase == {"lock", "commit", "exec", "execqc", "decide"}

(* At the start no goroutine is between two phases.                        *)
LEMMA PhaseInit == Init => PhaseInv
  BY DEF Init, PhaseInv, DecideUnderLock, LockUnderGeneric, AtLock, AtExec, AtDecide

(* The heights that the invariant compares.                                *)
LEMMA PhaseHeights ==
  ASSUME TypeOK
  PROVE  /\ Height[genericQC] \in Nat /\ Height[lockedQC] \in Nat
         /\ Height[execQC] \in Nat
         /\ \A i \in DOMAIN decided : Height[decided[i]] \in Nat
         /\ \A c \in Block : /\ Height[cur[c]] \in Nat /\ left[c] \in Int
                             /\ Height[Block2(c)] \in Nat /\ Height[Block1(c)] \in Nat
  <1>1. /\ genericQC \in Block /\ lockedQC \in Block /\ execQC \in Block
        /\ decided \in Seq(Block)
        /\ \A c \in Block : cur[c] \in Block /\ left[c] \in Int
    BY DEF TypeOK
  <1>2. \A i \in DOMAIN decided : decided[i] \in Block
    BY <1>1
  <1> QED BY <1>1, <1>2, TreeFacts

(* What rising QCs keep of the invariant: a step that moves neither execQC *)
(* nor the loops nor the lock, and takes no handler into a phase.          *)
LEMMA PhaseFrame ==
  ASSUME TypeOK, TypeOK', StoreInv, PhaseInv, [Next]_vars,
         UNCHANGED <<lockedQC, execQC, decided>>,
         \A b \in Block : pc'[b] \in InPhase => pc'[b] = pc[b],
         \A b \in Block : pc'[b] = "decide" => cur'[b] = cur[b] /\ left'[b] = left[b]
  PROVE  PhaseInv'
  <1>1. Height[genericQC'] >= Height[genericQC]
    BY MonotoneStep
  <1>2. Height[genericQC] \in Nat /\ Height[genericQC'] \in Nat /\ Height[lockedQC] \in Nat
    BY TreeFacts DEF TypeOK
  <1>3. /\ genericQC' \in store' => genericQC \in store
        /\ lockedQC \in store' => lockedQC \in store
    BY EvictedForGood
  <1>4. DecideUnderLock'
    BY <1>3 DEF PhaseInv, DecideUnderLock
  <1>5. LockUnderGeneric'
    BY <1>1, <1>2, <1>3 DEF PhaseInv, LockUnderGeneric, Straight
  <1>6. AtLock'
    <2> SUFFICES ASSUME NEW b \in Block, pc'[b] \in {"lock", "commit"}
                 PROVE  /\ genericQC' \in store' => Height[Block2(b)] <= Height[genericQC']
                        /\ pc'[b] = "commit" => Block2(b) # Genesis
      BY DEF AtLock, Block2
    <2>1. pc'[b] = pc[b] /\ Height[Block2(b)] \in Nat
      BY PhaseHeights DEF InPhase
    <2> QED BY <1>1, <1>2, <1>3, <2>1 DEF PhaseInv, AtLock
  <1>7. AtExec'
    BY <1>3 DEF PhaseInv, AtExec, InPhase, Block0, Block1, Block2
  <1>8. AtDecide'
    BY <1>3 DEF PhaseInv, AtDecide, InPhase
  <1> QED BY <1>4, <1>5, <1>6, <1>7, <1>8 DEF PhaseInv

(* After the PRE-COMMIT phase genericQC is at least as high as block2.     *)
LEMMA PhasePreCommit ==
  ASSUME TypeOK, TypeOK', PhaseInv, NEW b \in Block, PreCommit(b)
  PROVE  PhaseInv'
  <1>1. UNCHANGED <<store, lockedQC, execQC, decided, cur, left>>
    BY DEF PreCommit, cacheVars, loopVars
  <1>2. \A c \in Block : pc'[c] = IF c = b THEN "lock" ELSE pc[c]
    BY PcStep DEF PreCommit
  <1>3. /\ Height[genericQC] \in Nat /\ Height[lockedQC] \in Nat
        /\ \A c \in Block : Height[Block2(c)] \in Nat
    BY PhaseHeights
  <1>4. Height[genericQC'] \in Nat
    BY TreeFacts DEF TypeOK
  <1>5. UpdateHighestQC(Block2(b), CertSigns(Block2(b))) /\ Block2(b) \in Block
    BY TreeFacts DEF PreCommit
  <1>6. Height[genericQC'] >= Height[genericQC]
    BY <1>5, HighestQCStep
  <1>7. genericQC' \in store => genericQC \in store
    BY <1>5 DEF UpdateHighestQC
  <1>8. genericQC \in store => Height[Block2(b)] <= Height[genericQC']
    <2>1. CASE Block2(b) = Genesis
      BY <2>1, <1>4, ParentHeight
    <2>2. CASE Block2(b) # Genesis
      <3>1. UpdateHighestQC(Block2(b), Replica)
        BY <1>5, <2>2 DEF CertSigns
      <3> QED BY <1>3, <1>4, <1>5, <3>1, AllQuorum, HighestQCStep
    <2> QED BY <2>1, <2>2
  <1>9. DecideUnderLock'
    BY <1>1 DEF PhaseInv, DecideUnderLock
  <1>10. LockUnderGeneric'
    BY <1>1, <1>3, <1>4, <1>6, <1>7 DEF PhaseInv, LockUnderGeneric, Straight
  <1>11. AtLock'
    <2> SUFFICES ASSUME NEW c \in Block, pc'[c] \in {"lock", "commit"}
                 PROVE  /\ genericQC' \in store' => Height[Block2(c)] <= Height[genericQC']
                        /\ pc'[c] = "commit" => Block2(c) # Genesis
      BY DEF AtLock, Block2
    <2>1. CASE c = b
      BY <1>1, <1>2, <1>7, <1>8, <2>1
    <2>2. CASE c # b
      BY <1>1, <1>2, <1>3, <1>4, <1>6, <1>7, <2>2 DEF PhaseInv, AtLock
    <2> QED BY <2>1, <2>2
  <1>12. AtExec' /\ AtDecide'
    BY <1>1, <1>2 DEF PhaseInv, AtExec, AtDecide, Block0, Block1, Block2
  <1> QED BY <1>9, <1>10, <1>11, <1>12 DEF PhaseInv

(* After the COMMIT phase the lock is at least as high as block1.          *)
LEMMA PhaseCommit ==
  ASSUME TypeOK, TypeOK', PhaseInv, NEW b \in Block, Commit(b)
  PROVE  PhaseInv'
  <1>1. UNCHANGED <<store, genericQC, execQC, decided, cur, left>>
    BY DEF Commit, cacheVars, loopVars
  <1>2. \A c \in Block : pc'[c] = IF c = b THEN "exec" ELSE pc[c]
    BY PcStep DEF Commit
  <1>3. UpdateLockedQC(Block1(b)) /\ Block1(b) \in Block /\ pc[b] = "commit"
    BY TreeFacts DEF Commit, At
  <1>4. /\ Height[genericQC] \in Nat /\ Height[lockedQC] \in Nat
        /\ Height[execQC] \in Nat
        /\ \A i \in DOMAIN decided : Height[decided[i]] \in Nat
        /\ \A c \in Block : Height[cur[c]] \in Nat /\ Height[Block1(c)] \in Nat
    BY PhaseHeights
  <1>5. Height[lockedQC'] \in Nat
    BY TreeFacts DEF TypeOK
  <1>6. /\ Height[lockedQC'] >= Height[lockedQC]
        /\ lockedQC \in store => Height[lockedQC'] >= Height[Block1(b)]
    BY <1>3, LockedQCStep
  <1>7. lockedQC' \in store => lockedQC \in store
    BY <1>3 DEF UpdateLockedQC
  <1>8. DecideUnderLock'
    BY <1>1, <1>4, <1>5, <1>6, <1>7 DEF PhaseInv, DecideUnderLock
  <1>9. LockUnderGeneric'
    <2> SUFFICES ASSUME Straight, genericQC \in store, lockedQC' # Genesis
                 PROVE  Height[lockedQC'] < Height[genericQC]
      BY <1>1 DEF LockUnderGeneric, Straight
    <2>1. CASE lockedQC' = lockedQC
      BY <2>1 DEF PhaseInv, LockUnderGeneric
    <2>2. CASE lockedQC' = Block1(b)
      <3>1. /\ Block2(b) \in Block /\ Block2(b) # Genesis
            /\ Height[Block2(b)] <= Height[genericQC]
        BY <1>3, TreeFacts DEF PhaseInv, AtLock
      <3>2. Block1(b) = Parent[Block2(b)]
        BY <3>1 DEF Straight, Block1
      <3>3. Height[Block2(b)] = Height[Block1(b)] + 1 /\ Height[Block1(b)] \in Nat
        BY <3>1, <3>2, ParentHeight, TreeFacts
      <3> QED BY <1>4, <2>2, <3>1, <3>3
    <2> QED BY <1>3, <2>1, <2>2 DEF UpdateLockedQC
  <1>10. AtLock'
    BY <1>1, <1>2 DEF PhaseInv, AtLock, Block2
  <1>11. AtExec'
    <2> SUFFICES ASSUME NEW c \in Block, pc'[c] \in {"exec", "execqc"}
                 PROVE  /\ lockedQC' \in store' => Height[Block1(c)] <= Height[lockedQC']
                        /\ pc'[c] = "execqc" => /\ Block1(c) # Genesis
                                                /\ Block0(c) = Parent[Block1(c)]
      BY DEF AtExec, Block0, Block1, Block2
    <2>1. CASE c = b
      BY <1>1, <1>2, <1>6, <1>7, <2>1
    <2>2. CASE c # b
      BY <1>1, <1>2, <1>4, <1>5, <1>6, <1>7, <2>2 DEF PhaseInv, AtExec
    <2> QED BY <2>1, <2>2
  <1>12. AtDecide'
    BY <1>1, <1>2, <1>4, <1>5, <1>6, <1>7 DEF PhaseInv, AtDecide
  <1> QED BY <1>8, <1>9, <1>10, <1>11, <1>12 DEF PhaseInv

(* The DECIDE phase moves execQC to a block below block1, which is not     *)
(* above the lock, and the loop starts there.                              *)
LEMMA PhaseDecide ==
  ASSUME TypeOK, TypeOK', StoreInv, PhaseInv, [Next]_vars, NEW b \in Block, Decide(b)
  PROVE  PhaseInv'
  <1>1. UNCHANGED <<store, genericQC, lockedQC, decided>> /\ pc[b] = "execqc"
    BY DEF Decide, At, cacheVars
  <1>2. cur \in [Block -> Block] /\ left \in [Block -> Int]
    BY DEF TypeOK
  <1>3. CASE execQC \in store
    <2>1. /\ execQC' = Block0(b)
          /\ cur' = [cur EXCEPT ![b] = Block0(b)]
          /\ left' = [left EXCEPT ![b] = Height[Block0(b)] - Height[execQC]]
          /\ \A c \in Block : pc'[c] = IF c = b THEN "decide" ELSE pc[c]
      BY <1>3, PcStep DEF Decide
    <2>2. lockedQC \in store => Height[Block0(b)] < Height[lockedQC]
      <3>1. /\ Block1(b) \in Block \ {Genesis} /\ Block0(b) = Parent[Block1(b)]
            /\ lockedQC \in store => Height[Block1(b)] <= Height[lockedQC]
        BY <1>1, TreeFacts DEF PhaseInv, AtExec
      <3>2. Height[Block1(b)] = Height[Block0(b)] + 1 /\ Height[Block0(b)] \in Nat
        BY <3>1, ParentHeight, TreeFacts
      <3> QED BY <3>1, <3>2, PhaseHeights
    <2>3. DecideUnderLock'
      BY <1>1, <2>1, <2>2 DEF PhaseInv, DecideUnderLock
    <2>4. LockUnderGeneric' /\ AtLock' /\ AtExec'
      BY <1>1, <2>1 DEF PhaseInv, LockUnderGeneric, Straight, AtLock, AtExec, Block0,
                        Block1, Block2
    <2>5. AtDecide'
      <3>1. \A c \in Block : /\ cur'[c] = IF c = b THEN Block0(b) ELSE cur[c]
                             /\ left'[c] = IF c = b THEN Height[Block0(b)] - Height[execQC]
                                           ELSE left[c]
        BY <1>2, <2>1
      <3>2. Height[Block0(b)] - Height[execQC] <= Height[Block0(b)]
        <4>1. Height[Block0(b)] \in Nat /\ Height[execQC] \in Nat
          BY PhaseHeights, TreeFacts
        <4> QED BY <4>1
      <3> QED BY <1>1, <2>1, <2>2, <3>1, <3>2 DEF PhaseInv, AtDecide
    <2> QED BY <2>3, <2>4, <2>5 DEF PhaseInv
  <1>4. CASE execQC \notin store
    <2>1. UNCHANGED <<execQC, cur, left>> /\ Goto(b, "failed")
      BY <1>4 DEF Decide
    <2>2. \A c \in Block : pc'[c] \in InPhase => pc'[c] = pc[c]
      BY <2>1, PcStep DEF InPhase
    <2> QED BY <1>1, <2>1, <2>2, PhaseFrame
  <1> QED BY <1>3, <1>4

(* The loop descends, so it stays below the lock; it ends before it leaves *)
(* the chain.                                                              *)
LEMMA PhaseDecideLoop ==
  ASSUME TypeOK, TypeOK', StoreInv, PhaseInv, [Next]_vars, NEW b \in Block,
         DecideLoop(b)
  PROVE  PhaseInv'
  <1>1. UNCHANGED <<store, genericQC, lockedQC, execQC>> /\ pc[b] = "decide"
    BY DEF DecideLoop, At, cacheVars, qcVars
  <1>2. /\ decided \in Seq(Block) /\ cur[b] \in Block /\ left[b] \in Int
        /\ cur \in [Block -> Block] /\ left \in [Block -> Int]
    BY DEF TypeOK
  <1>3. CASE left[b] > 0 /\ cur[b] \in store
    <2>1. /\ decided' = Append(decided, cur[b])
          /\ cur' = [cur EXCEPT ![b] = Parent[cur[b]]]
          /\ left' = [left EXCEPT ![b] = @ - 1]
          /\ UNCHANGED pc
      BY <1>2, <1>3 DEF DecideLoop
    <2>2. /\ left[b] <= Height[cur[b]]
          /\ lockedQC \in store => Height[cur[b]] < Height[lockedQC]
      BY <1>1, <1>3 DEF PhaseInv, AtDecide
    <2>3. DecideUnderLock'
      <3>1. \A i \in DOMAIN decided' : decided'[i] = cur[b] \/
               (i \in DOMAIN decided /\ decided'[i] = decided[i])
        BY <1>2, <2>1
      <3> QED BY <1>1, <2>2, <3>1 DEF PhaseInv, DecideUnderLock
    <2>4. LockUnderGeneric' /\ AtLock' /\ AtExec'
      BY <1>1, <2>1 DEF PhaseInv, LockUnderGeneric, Straight, AtLock, AtExec, Block0,
                        Block1, Block2
    <2>5. AtDecide'
      <3>1. \A c \in Block : /\ cur'[c] = IF c = b THEN Parent[cur[b]] ELSE cur[c]
                             /\ left'[c] = IF c = b THEN left[b] - 1 ELSE left[c]
        BY <1>2, <2>1
      <3>2. cur[b] \in Block \ {Genesis} /\ Height[lockedQC] \in Nat
        BY <1>2, <1>3, <2>2, ParentHeight, PhaseHeights
      <3>3. Height[cur[b]] = Height[Parent[cur[b]]] + 1
            /\ Height[Parent[cur[b]]] \in Nat
        BY <3>2, ParentHeight, TreeFacts
      <3>4. /\ left[b] - 1 <= Height[Parent[cur[b]]]
            /\ lockedQC \in store => Height[Parent[cur[b]]] < Height[lockedQC]
        BY <1>2, <2>2, <3>2, <3>3
      <3> QED BY <1>1, <2>1, <3>1, <3>4 DEF PhaseInv, AtDecide
    <2> QED BY <2>3, <2>4, <2>5 DEF PhaseInv
  <1>4. CASE ~(left[b] > 0 /\ cur[b] \in store)
    <2>1. /\ UNCHANGED <<decided, cur, left>>
          /\ Goto(b, "failed") \/ Goto(b, AfterUpdate(b))
      BY <1>4 DEF DecideLoop
    <2>2. \A c \in Block : pc'[c] \in InPhase => pc'[c] = pc[c]
      BY <2>1, PcStep DEF AfterUpdate, InPhase
    <2> QED BY <1>1, <2>1, <2>2, PhaseFrame
  <1> QED BY <1>3, <1>4

(* A look-up that succeeds takes a handler from the start of a phase to its*)
(* assignment.                                                             *)
LEMMA PhaseLoad ==
  ASSUME TypeOK, TypeOK', StoreInv, PhaseInv, [Next]_vars, NEW b \in Block, LoadStep(b)
  PROVE  PhaseInv'
  <1>1. UNCHANGED <<store, genericQC, lockedQC, execQC, decided, cur, left>>
    BY LoadStepPc DEF OnlyPc, cacheVars, qcVars, loopVars
  <1>2. CASE LoadBlock1(b) /\ HasJustify(Block2(b))
    <2>1. pc[b] = "lock" /\ \A c \in Block : pc'[c] = IF c = b THEN "commit" ELSE pc[c]
      BY <1>2, PcStep DEF LoadBlock1, At
    <2>2. Block2(b) # Genesis
      BY <1>2 DEF HasJustify
    <2>3. AtLock'
      <3> SUFFICES ASSUME NEW c \in Block, pc'[c] \in {"lock", "commit"}
                   PROVE  /\ genericQC \in store => Height[Block2(c)] <= Height[genericQC]
                          /\ pc'[c] = "commit" => Block2(c) # Genesis
        BY <1>1 DEF AtLock, Block2
      <3>1. pc[c] \in {"lock", "commit"}
        BY <2>1
      <3> QED BY <2>1, <2>2, <3>1 DEF PhaseInv, AtLock
    <2>4. AtExec' /\ AtDecide'
      BY <1>1, <2>1 DEF PhaseInv, AtExec, AtDecide, Block0, Block1, Block2
    <2>5. DecideUnderLock' /\ LockUnderGeneric'
      BY <1>1 DEF PhaseInv, DecideUnderLock, LockUnderGeneric, Straight
    <2> QED BY <2>3, <2>4, <2>5 DEF PhaseInv
  <1>3. CASE LoadBlock0(b) /\ HasJustify(Block1(b)) /\ DirectChain(b)
    <2>1. pc[b] = "exec" /\ \A c \in Block : pc'[c] = IF c = b THEN "execqc" ELSE pc[c]
      BY <1>3, PcStep DEF LoadBlock0, At
    <2>2. Block1(b) # Genesis /\ Block0(b) = Parent[Block1(b)]
      BY <1>3 DEF HasJustify, DirectChain, Block0
    <2>3. AtExec'
      <3> SUFFICES ASSUME NEW c \in Block, pc'[c] \in {"exec", "execqc"}
                   PROVE  /\ lockedQC \in store => Height[Block1(c)] <= Height[lockedQC]
                          /\ pc'[c] = "execqc" => /\ Block1(c) # Genesis
                                                  /\ Block0(c) = Parent[Block1(c)]
        BY <1>1 DEF AtExec, Block0, Block1, Block2
      <3>1. pc[c] \in {"exec", "execqc"}
        BY <2>1
      <3> QED BY <2>1, <2>2, <3>1 DEF PhaseInv, AtExec
    <2>4. AtLock' /\ AtDecide'
      BY <1>1, <2>1 DEF PhaseInv, AtLock, AtDecide, Block2
    <2>5. DecideUnderLock' /\ LockUnderGeneric'
      BY <1>1 DEF PhaseInv, DecideUnderLock, LockUnderGeneric, Straight
    <2> QED BY <2>3, <2>4, <2>5 DEF PhaseInv
  <1>4. CASE /\ ~(LoadBlock1(b) /\ HasJustify(Block2(b)))
             /\ ~(LoadBlock0(b) /\ HasJustify(Block1(b)) /\ DirectChain(b))
    <2>1. \E l \in {"precommit", "locked", "parent", "leaf", "height", "done", "failed",
                    AfterUpdate(b)} : Goto(b, l)
      BY <1>4 DEF LoadStep, LoadBlock2, LoadBlock1, LoadBlock0, LoadJustify, OnBeat,
                  LoadParent, CreateLeaf, Propose
    <2>2. \A c \in Block : pc'[c] \in InPhase => pc'[c] = pc[c]
      BY <2>1, PcStep DEF AfterUpdate, InPhase
    <2> QED BY <1>1, <2>2, PhaseFrame
  <1> QED BY <1>2, <1>3, <1>4

(* The other steps of a proposal handler touch neither the QCs nor the     *)
(* decide loop.                                                            *)
LEMMA PhaseOther ==
  ASSUME TypeOK, TypeOK', StoreInv, PhaseInv, [Next]_vars, NEW b \in Block,
         \/ ReceiveProposal(b) \/ ReceiveProposalPanics(b) \/ WaitJustify(b)
         \/ DecisionStep(b) \/ StoreLeaf(b)
  PROVE  PhaseInv'
  <1>1. CASE DecisionStep(b)
    <2>1. UNCHANGED <<lockedQC, execQC, decided>>
      BY <1>1, DecisionFacts
    <2>2. /\ \A c \in Block : pc'[c] \in InPhase => c # b /\ pc'[c] = pc[c]
          /\ \A c \in Block \ {b} : cur'[c] = cur[c] /\ left'[c] = left[c]
      BY <1>1, DecisionFacts DEF InPhase
    <2>3. \A c \in Block : pc'[c] = "decide" => cur'[c] = cur[c] /\ left'[c] = left[c]
      BY <2>2 DEF InPhase
    <2> QED BY <2>1, <2>2, <2>3, PhaseFrame
  <1>2. CASE \/ ReceiveProposal(b) \/ ReceiveProposalPanics(b) \/ WaitJustify(b)
             \/ StoreLeaf(b)
    <2>1. UNCHANGED <<lockedQC, execQC, decided, cur, left>>
      BY <1>2 DEF ReceiveProposal, ReceiveProposalPanics, WaitJustify, StoreLeaf, qcVars,
                  loopVars
    <2>2. \A c \in Block : pc'[c] \in InPhase => pc'[c] = pc[c]
      <3>1. CASE ReceiveProposal(b)
        BY <3>1, BroadcastStep DEF InPhase
      <3>2. CASE WaitJustify(b)
        <4>1. AsyncWaitBlock(pc[b], Justify[b], "update", "failed") \notin InPhase
          BY <3>2 DEF WaitJustify, AsyncWaitBlock, WaitPC, InPhase
        <4> QED BY <3>2, <4>1, PcStep DEF WaitJustify
      <3>3. CASE \E l \in {"panic", "update", "failed"} : Goto(b, l)
        BY <3>3, PcStep DEF InPhase
      <3> QED
        BY <1>2, <3>1, <3>2, <3>3 DEF ReceiveProposalPanics, StoreLeaf
    <2> QED BY <2>1, <2>2, PhaseFrame
  <1> QED BY <1>1, <1>2

(* Every step keeps PhaseInv.                                              *)
LEMMA PhaseStep ==
  TypeOK /\ TypeOK' /\ StoreInv /\ PhaseInv /\ [Next]_vars => PhaseInv'
  <1> SUFFICES ASSUME TypeOK, TypeOK', StoreInv, PhaseInv, [Next]_vars PROVE PhaseInv'
    OBVIOUS
  <1>1. ASSUME NEW b \in Block, ProposalStep(b) PROVE PhaseInv'
    BY <1>1, PhasePreCommit, PhaseCommit, PhaseDecide, PhaseDecideLoop, PhaseLoad,
       PhaseOther
    DEF ProposalStep, LoadStep, DecisionStep
  <1>2. ASSUME NEW b \in Block, NewViewStep(b) \/ ReceiveNewView(b) PROVE PhaseInv'
    <2>1. UNCHANGED <<lockedQC, execQC, decided, cur, left, pc>>
      BY <1>2 DEF NewViewStep, ReceiveNewView, WaitNewView, ApplyNewView, qcVars,
                  loopVars
    <2> QED BY <2>1, PhaseFrame
  <1>3. ASSUME NEW b \in Block, NEW s \in Replica, VoteStep(b, s) \/ ReceiveVote(b, s)
        PROVE  PhaseInv'
    <2>1. UNCHANGED <<lockedQC, execQC, decided, cur, left, pc>>
      BY <1>3 DEF VoteStep, ReceiveVote, LoadVoted, AddVoteMsg, CountVote, FinishQC,
                  qcVars, loopVars
    <2> QED BY <2>1, PhaseFrame
  <1>4. CASE Environment
    BY <1>2, <1>3, <1>4, PhaseLoad, PhaseOther DEF Environment, LoadStep
  <1>5. CASE UNCHANGED vars
    <2>1. UNCHANGED <<lockedQC, execQC, decided, cur, left, pc>>
      BY <1>5 DEF vars, qcVars, loopVars
    <2> QED BY <2>1, PhaseFrame
  <1> QED BY <1>1, <1>2, <1>3, <1>4, <1>5 DEF Next

(* PhaseInv holds in every reachable state.                                *)
LEMMA PhaseCorrect == Spec => []PhaseInv
  BY TypeInit, TypeStep, StoreInit, StoreStep, PhaseInit, PhaseStep, PTL DEF Spec

(* The replica is locked above every block it moves execQC to or sends a   *)
(* DecideEvent for, for every interleaving of the handlers and every choice*)
(* of what the cache evicts, until the block of the lock itself is evicted.*)
THEOREM DecidesUnderLock == Spec => []DecideUnderLock
  <1>1. PhaseInv => DecideUnderLock
    BY DEF PhaseInv
  <1> QED BY <1>1, PhaseCorrect, PTL

(* In a chain whose blocks justify their parents the highest QC is above   *)
(* the lock, until its block is evicted.                                   *)
THEOREM LocksUnderGeneric == Spec => []LockUnderGeneric
  <1>1. PhaseInv => LockUnderGeneric
    BY DEF PhaseInv
  <1> QED BY <1>1, PhaseCorrect, PTL
=============================================================================
