---------------------------- MODULE HotStuffCore ----------------------------
(***************************************************************************)
(* The consensus core of ONE replica of go-hotstuff (type HotStuffCore in  *)
(* consensus/consensus.go), at the grain of its goroutines.                *)
(*                                                                         *)
(* HotStuffBase.Start runs every received message and every event in a     *)
(* goroutine of its own (hotstuff.go:75-78), so the handlers of different  *)
(* proposals, votes and new-view messages interleave.  A step of this      *)
(* module is what a goroutine does between two points at which another     *)
(* goroutine can get in: the code between two acquisitions of qcLock, vLock*)
(* or mut, a look-up in the block cache, the wait on the condition         *)
(* variable, one iteration of the decide loop.                             *)
(*                                                                         *)
(* A block is an element of the constant set Block and stands for its      *)
(* hash; Parent, Justify, Height and Proposer are its fields and NextLeader*)
(* is GetLeader(view) of the proposal that carries it, the replica its     *)
(* votes are sent to.  The constants are any tree of blocks that correct   *)
(* leaders create; which of them this replica sees, and in which order, is *)
(* up to the network.  The pacemaker, that decides when this replica       *)
(* proposes, and the other replicas are the environment: they may act in   *)
(* any order that respects causality (Sent).                               *)
(*                                                                         *)
(* Signatures of correct replicas verify.  The block cache evicts a block  *)
(* for each one it stores once it is full; which one goes depends on the   *)
(* order of all look-ups (LRUCache), and is left open here.                *)
(***************************************************************************)
EXTENDS Integers, FiniteSets, Sequences

CONSTANTS
    N, F,          \* ConfigMetadata: number of replicas, faults tolerated
    Self,          \* hsc.id
    Block,         \* the blocks that are ever created, and Genesis
    Genesis,
    Height,        \* [Block -> Nat]
    Parent,        \* [Block -> Block]    the block ParentHash names
    Justify,       \* [Block -> Block]    the block Justify.BlockHash names
    Proposer,      \* [Block -> Replica]
    NextLeader,    \* [Block -> Replica]
    CacheCapacity, \* memorydb.NewLRUCache(30) in NewHotStuffCore
    NewViewQC      \* bound: the blocks whose QC a new-view message carries

Replica == 0..(N - 1)

ASSUME ConfAssumption ==
    /\ N \in Nat \ {0}
    /\ F \in Nat
    /\ F < N
    /\ Self \in Replica

(* createLeaf: a block is one higher than its parent.  OnBeat reads the    *)
(* genericQC of the proposer for the parent and createLeaf reads it again  *)
(* for the justify; UpdateHighestQC may have replaced it by a higher one in*)
(* between.  The genesis block has neither parent nor justify; the         *)
(* functions map it to some block to be total.                             *)
ASSUME TreeAssumption ==
    /\ Genesis \in Block
    /\ Height \in [Block -> Nat]
    /\ Parent \in [Block -> Block]
    /\ Justify \in [Block -> Block]
    /\ Proposer \in [Block -> Replica]
    /\ NextLeader \in [Block -> Replica]
    /\ NewViewQC \in SUBSET (Block \ {Genesis})
    /\ Height[Genesis] = 0
    /\ \A b \in Block \ {Genesis} :
          /\ Height[b] = Height[Parent[b]] + 1
          /\ \/ Justify[b] = Parent[b]
             \/ Height[Justify[b]] > Height[Parent[b]]

ASSUME CacheAssumption ==
    /\ IsFiniteSet(Block)
    /\ CacheCapacity \in Nat \ {0}

VARIABLES
    store,       \* blockCache: the blocks LoadBlock finds
    signs,       \* signs[b]: the voters in SelfQc.Signs of the stored copy of b
    voteSet,     \* voteSet[b]: the votes for b that came before b
    genericQC,   \* the block genericQC certifies
    lockedQC,    \* the block lockedQC certifies
    execQC,      \* the block execQC certifies
    voteHeight,
    wal,         \* what handleProposal saved: HardState.Committed and the entries
    pc,          \* pc[b]: where the goroutine that handles, or proposes, b stands
    cur, left,   \* the locals of the two loops: blockHash or nblk, and i
    lockedb,     \* lockedb[b]: the local of OnReceiveProposal
    vpc,         \* vpc[b][s]: where the goroutine that handles s's vote for b stands
    npc,         \* npc[b]: same, for a new-view message that carries b's QC
    stored,      \* history: the blocks that StoreBlock was called for
    decided,     \* history: the blocks of the DecideEvents, in the order sent
    voted,       \* history: the blocks this replica sent a vote for
    qcFinish     \* history: qcFinish[b] is the number of QcFinishEvents for b

qcVars     == <<genericQC, lockedQC, execQC>>
voteVars   == <<signs, voteSet, vpc, qcFinish>>
cacheVars  == <<store, stored>>
loopVars   == <<cur, left, lockedb, decided>>
vars       == <<cacheVars, voteVars, qcVars, loopVars, voteHeight, wal, pc, npc, voted>>

(* The program points of AsyncWaitBlock, shared by its two callers: the    *)
(* first LoadBlock, the gap before cond.Wait, inside Wait, and after it.   *)
WaitPC == {"load", "gap", "waiting", "woken"}

ProposalPC == WaitPC \cup
    {"none", "parent", "leaf", "height",
     "update", "precommit", "lock", "commit", "exec", "execqc", "decide",
     "vote", "safe", "locked", "walk", "raise", "self", "selfvote",
     "done", "failed", "panic"}

VotePC == {"none", "load", "buffer", "count", "qc", "done"}

NewViewPC == WaitPC \cup {"none", "hqc", "done", "failed"}

TypeOK ==
    /\ stored \in SUBSET Block
    /\ store \in SUBSET stored
    /\ signs \in [Block -> SUBSET Replica]
    /\ voteSet \in [Block -> SUBSET Replica]
    /\ genericQC \in Block
    /\ lockedQC \in Block
    /\ execQC \in Block
    /\ voteHeight \in Nat
    /\ wal \in [committed : Nat, entries : SUBSET Block]
    /\ pc \in [Block -> ProposalPC]
    /\ cur \in [Block -> Block]
    /\ left \in [Block -> Int]
    /\ lockedb \in [Block -> Block]
    /\ vpc \in [Block -> [Replica -> VotePC]]
    /\ npc \in [Block -> NewViewPC]
    /\ decided \in Seq(Block)
    /\ voted \in SUBSET Block
    /\ qcFinish \in [Block -> Nat]

-----------------------------------------------------------------------------
(* utils.GetQuorumSize and the number of signatures VerifyQuorumCert and   *)
(* OnProposalVote ask for.                                                 *)
QuorumSize == N - F

HasQuorum(S) == Cardinality(S) >= QuorumSize

(* The signatures of the QC of j that a message of another replica carries:*)
(* a correct replica only sends its genericQC, which is the empty one of   *)
(* the genesis block or one that VerifyQuorumCert accepted.                *)
CertSigns(j) == IF j = Genesis THEN {} ELSE Replica

(* The blocks from b down its parents: AncestorFrom[i][b] is the one at    *)
(* distance i, Branch[b] the set of them.                                  *)
AncestorFrom[i \in Nat] ==
    IF i = 0 THEN [b \in Block |-> b]
             ELSE [b \in Block |-> Parent[AncestorFrom[i - 1][b]]]

Branch == [b \in Block |-> {AncestorFrom[i][b] : i \in 0..Height[b]}]

Extends(b, a) == a \in Branch[b]

(* The blocks that had to exist, and be certified, before b was created.   *)
PastFrom[i \in Nat] ==
    IF i = 0 THEN [b \in Block |-> {Parent[b], Justify[b]} \ {Genesis}]
             ELSE [b \in Block |-> PastFrom[i - 1][b] \cup
                      UNION {PastFrom[i - 1][c] : c \in PastFrom[i - 1][b]}]

Past == PastFrom[Cardinality(Block)]

(* The proposal of b is on the wire.  For a block of another replica this  *)
(* may be so as soon as this replica has done its part for the blocks in   *)
(* its past: broadcast the ones it proposed, certified the ones whose votes*)
(* are sent to it.                                                         *)
Certifiable(c) == NextLeader[c] = Self => qcFinish[c] > 0

Sent(b) ==
    IF Proposer[b] = Self
    THEN pc[b] = "done"
    ELSE \A c \in Past[b] :
            /\ Proposer[c] = Self => pc[c] = "done"
            /\ Certifiable(c)

-----------------------------------------------------------------------------
Init ==
    /\ store = {Genesis}
    /\ stored = {Genesis}
    /\ signs = [b \in Block |-> {}]
    /\ voteSet = [b \in Block |-> {}]
    /\ genericQC = Genesis
    /\ lockedQC = Genesis
    /\ execQC = Genesis
    /\ voteHeight = 0
    /\ wal = [committed |-> 0, entries |-> {}]
    /\ pc = [b \in Block |-> IF b = Genesis THEN "done" ELSE "none"]
    /\ cur = [b \in Block |-> Genesis]
    /\ left = [b \in Block |-> 0]
    /\ lockedb = [b \in Block |-> Genesis]
    /\ vpc = [b \in Block |-> [s \in Replica |-> "none"]]
    /\ npc = [b \in Block |-> "none"]
    /\ decided = <<>>
    /\ voted = {}
    /\ qcFinish = [b \in Block |-> 0]

Goto(b, l) == pc' = [pc EXCEPT ![b] = l]

(* A panic of one goroutine ends the process.                              *)
Running == \A b \in Block : pc[b] # "panic"

(* A goroutine of the running process stands at line l.                    *)
At(p, l) == p = l /\ Running

(* StoreBlock: a full cache evicts another block.                          *)
StoreBlock(b) ==
    /\ stored' = stored \cup {b}
    /\ \/ /\ Cardinality(store) < CacheCapacity
          /\ store' = store \cup {b}
       \/ /\ Cardinality(store) >= CacheCapacity
          /\ \E v \in store : store' = (store \ {v}) \cup {b}

(* AsyncWaitBlock: LoadBlock; when it fails, wait for the next Broadcast   *)
(* and LoadBlock once more.  The mutex of the condition variable is taken  *)
(* only after the first LoadBlock, and Broadcast does not take it.         *)
AsyncWaitBlock(l, hash, ok, err) ==
    CASE l = "load"  -> IF hash \in store THEN ok ELSE "gap"
      [] l = "gap"   -> "waiting"
      [] l = "woken" -> IF hash \in store THEN ok ELSE err

(* cond.Broadcast.                                                         *)
Broadcast(p) == [b \in Block |-> IF p[b] = "waiting" THEN "woken" ELSE p[b]]

-----------------------------------------------------------------------------
(* handleProposal and the head of OnReceiveProposal: save to the WAL, store*)
(* the block (with the signature of the proposer's own vote, which OnPropose*)
(* put into SelfQc before the broadcast), wake the waiting goroutines.     *)
CommittedBelow == Height[execQC] - 1
Committed == Height[execQC]

ReceiveProposal(b) ==
    /\ At(pc[b], "none")
    /\ Proposer[b] # Self
    /\ Sent(b)
    /\ execQC \in store
    /\ wal' = [committed |-> Committed, entries |-> wal.entries \cup {b}]
    /\ StoreBlock(b)
    /\ signs' = [signs EXCEPT ![b] = {Proposer[b]}]
    /\ pc' = [Broadcast(pc) EXCEPT ![b] = "load"]
    /\ npc' = Broadcast(npc)
    /\ UNCHANGED <<qcVars, loopVars, voteSet, vpc, qcFinish, voteHeight, voted>>

(* handleProposal takes the height of the block of execQC without looking  *)
(* at the error of LoadBlock.                                              *)
ReceiveProposalPanics(b) ==
    /\ At(pc[b], "none")
    /\ Proposer[b] # Self
    /\ Sent(b)
    /\ execQC \notin store
    /\ Goto(b, "panic")
    /\ UNCHANGED <<cacheVars, qcVars, loopVars, voteVars, voteHeight, wal, npc, voted>>

(* OnReceiveProposal waits for the block its justify names.                *)
WaitJustify(b) ==
    /\ Running
    /\ pc[b] \in WaitPC \ {"waiting"}
    /\ Goto(b, AsyncWaitBlock(pc[b], Justify[b], "update", "failed"))
    /\ UNCHANGED <<cacheVars, qcVars, loopVars, voteVars, voteHeight, wal, npc, voted>>

-----------------------------------------------------------------------------
(* update, called for a received block and for a block of this replica.    *)
(* block = b, block2 = Justify[b], block1 = its justify, block0 = theirs.  *)
Block2(b) == Justify[b]
Block1(b) == Justify[Block2(b)]
Block0(b) == Justify[Block1(b)]

(* getJustifyBlock succeeds.                                               *)
HasJustifyUnchecked(b) == b # Genesis

HasJustify(b) == b # Genesis /\ Justify[b] \in store

(* What follows update in its two callers.                                 *)
AfterUpdate(b) == IF Proposer[b] = Self THEN "self" ELSE "vote"

(* The block of the QC held so far has to be loaded to compare with it.    *)
UpdateHighestQC(b, S) ==
    genericQC' = IF /\ HasQuorum(S)
                    /\ genericQC \in store
                    /\ Height[b] > Height[genericQC]
                 THEN b ELSE genericQC

UpdateLockedQCAnyHeight(b) ==
    lockedQC' = b

UpdateLockedQC(b) ==
    lockedQC' = IF lockedQC \in store /\ Height[b] > Height[lockedQC]
                THEN b ELSE lockedQC

(* PRE-COMMIT phase: getJustifyBlock gives block2, or update fails ...     *)
LoadBlock2(b) ==
    /\ At(pc[b], "update")
    /\ Goto(b, IF HasJustify(b) THEN "precommit" ELSE "failed")
    /\ UNCHANGED <<cacheVars, qcVars, loopVars, voteVars, voteHeight, wal, npc, voted>>

PreCommit(b) ==
    /\ At(pc[b], "precommit")
    /\ UpdateHighestQC(Block2(b), CertSigns(Block2(b)))
    /\ Goto(b, "lock")
    /\ UNCHANGED <<cacheVars, lockedQC, execQC, loopVars, voteVars, voteHeight,
                   wal, npc, voted>>

(* ... COMMIT phase on block1, without which update just ends.             *)
LoadBlock1(b) ==
    /\ At(pc[b], "lock")
    /\ Goto(b, IF HasJustify(Block2(b)) THEN "commit" ELSE AfterUpdate(b))
    /\ UNCHANGED <<cacheVars, qcVars, loopVars, voteVars, voteHeight, wal, npc, voted>>

Commit(b) ==
    /\ At(pc[b], "commit")
    /\ UpdateLockedQC(Block1(b))
    /\ Goto(b, "exec")
    /\ UNCHANGED <<cacheVars, genericQC, execQC, loopVars, voteVars, voteHeight,
                   wal, npc, voted>>

(* The three-chain test: block2 and block1 extend the block they justify.  *)
DirectChainUnchecked(b) == TRUE
DirectChain(b) ==
    /\ Parent[Block2(b)] = Justify[Block2(b)]
    /\ Parent[Block1(b)] = Justify[Block1(b)]

(* DECIDE phase on block0 ...                                              *)
LoadBlock0(b) ==
    /\ At(pc[b], "exec")
    /\ Goto(b, IF HasJustify(Block1(b)) /\ DirectChain(b) THEN "execqc" ELSE AfterUpdate(b))
    /\ UNCHANGED <<cacheVars, qcVars, loopVars, voteVars, voteHeight, wal, npc, voted>>

(* ... execQC moves, whatever its height, and the loop that notifies a     *)
(* DecideEvent per block is entered with the old height.                   *)
Decide(b) ==
    /\ At(pc[b], "execqc")
    /\ \/ /\ execQC \in store
          /\ execQC' = Block0(b)
          /\ cur' = [cur EXCEPT ![b] = Block0(b)]
          /\ left' = [left EXCEPT ![b] = Height[Block0(b)] - Height[execQC]]
          /\ Goto(b, "decide")
       \/ /\ execQC \notin store
          /\ Goto(b, "failed")
          /\ UNCHANGED <<execQC, cur, left>>
    /\ UNCHANGED <<cacheVars, genericQC, lockedQC, lockedb, voteVars, voteHeight, wal,
                   npc, decided, voted>>

(* One iteration of the decide loop, or its end.  A block that is missing  *)
(* makes update, and with it the handler, return an error.                 *)
DecideLoop(b) ==
    /\ At(pc[b], "decide")
    /\ \/ /\ left[b] > 0 /\ cur[b] \in store
          /\ decided' = Append(decided, cur[b])
          /\ cur' = [cur EXCEPT ![b] = Parent[cur[b]]]
          /\ left' = [left EXCEPT ![b] = @ - 1]
          /\ UNCHANGED pc
       \/ /\ left[b] > 0 /\ cur[b] \notin store
          /\ Goto(b, "failed")
          /\ UNCHANGED <<decided, cur, left>>
       \/ /\ left[b] <= 0
          /\ Goto(b, AfterUpdate(b))
          /\ UNCHANGED <<decided, cur, left>>
    /\ UNCHANGED <<cacheVars, qcVars, lockedb, voteVars, voteHeight, wal, npc, voted>>

-----------------------------------------------------------------------------
(* voteProposal and the ReceiveProposalEvent: the vote goes to the leader  *)
(* of the next view; the pacemaker calls OnProposalVote when that is this  *)
(* replica.                                                                *)
SendVote(b) ==
    /\ voted' = voted \cup {b}
    /\ vpc' = IF NextLeader[b] = Self THEN [vpc EXCEPT ![b][Self] = "load"]
                                      ELSE vpc
    /\ Goto(b, "done")

(* The vote decision of OnReceiveProposal: compare with voteHeight ...     *)
CheckVoteHeight(b) ==
    /\ At(pc[b], "vote")
    /\ \/ /\ Height[b] > voteHeight
          /\ Goto(b, "safe")
          /\ UNCHANGED <<voted, vpc>>
       \/ /\ Height[b] <= voteHeight
          /\ SendVote(b)
    /\ UNCHANGED <<cacheVars, qcVars, loopVars, signs, voteSet, qcFinish,
                   voteHeight, wal, npc>>

(* ... load the justify ...                                                *)
LoadJustify(b) ==
    /\ At(pc[b], "safe")
    /\ Goto(b, IF HasJustify(b) THEN "locked" ELSE "failed")
    /\ UNCHANGED <<cacheVars, qcVars, loopVars, voteVars, voteHeight, wal, npc, voted>>

(* ... and the locked block: the liveness condition, or else the walk down *)
(* to the height of the locked block ...                                   *)
LivenessCondition(b) == Height[Justify[b]] > Height[lockedQC]

CheckLiveness(b) ==
    /\ At(pc[b], "locked")
    /\ \/ /\ lockedQC \notin store
          /\ Goto(b, "failed")
          /\ UNCHANGED <<lockedb, cur, left>>
       \/ /\ lockedQC \in store /\ LivenessCondition(b)
          /\ Goto(b, "raise")
          /\ UNCHANGED <<lockedb, cur, left>>
       \/ /\ lockedQC \in store /\ ~LivenessCondition(b)
          /\ lockedb' = [lockedb EXCEPT ![b] = lockedQC]
          /\ cur' = [cur EXCEPT ![b] = b]
          /\ left' = [left EXCEPT ![b] = Height[b] - Height[lockedQC]]
          /\ Goto(b, "walk")
    /\ UNCHANGED <<cacheVars, qcVars, decided, voteVars, voteHeight, wal, npc, voted>>

(* ... and the safety condition.  Either condition makes voteHeight follow,*)
(* in a step of its own because vLock is taken anew; the vote is sent in   *)
(* any case, unless a block is missing.                                    *)
WalkDown(b) ==
    /\ At(pc[b], "walk")
    /\ \/ /\ left[b] > 0 /\ Parent[cur[b]] \in store
          /\ cur' = [cur EXCEPT ![b] = Parent[cur[b]]]
          /\ left' = [left EXCEPT ![b] = @ - 1]
          /\ UNCHANGED <<pc, voted, vpc>>
       \/ /\ left[b] > 0 /\ Parent[cur[b]] \notin store
          /\ Goto(b, "failed")
          /\ UNCHANGED <<cur, left, voted, vpc>>
       \/ /\ left[b] <= 0 /\ cur[b] = lockedb[b]
          /\ Goto(b, "raise")
          /\ UNCHANGED <<cur, left, voted, vpc>>
       \/ /\ left[b] <= 0 /\ cur[b] # lockedb[b]
          /\ SendVote(b)
          /\ UNCHANGED <<cur, left>>
    /\ UNCHANGED <<cacheVars, qcVars, lockedb, decided, signs, voteSet, qcFinish,
                   voteHeight, wal, npc>>

RaiseVoteHeight(b) ==
    /\ At(pc[b], "raise")
    /\ voteHeight' = Height[b]
    /\ SendVote(b)
    /\ UNCHANGED <<cacheVars, qcVars, loopVars, signs, voteSet, qcFinish, wal, npc>>

-----------------------------------------------------------------------------
(* OnPropose.  OnBeat reads the parent with GetHighQC, OnPropose loads it  *)
(* ...                                                                     *)
OnBeat(b) ==
    /\ At(pc[b], "none")
    /\ Proposer[b] = Self
    /\ Parent[b] = genericQC
    /\ Goto(b, "parent")
    /\ UNCHANGED <<cacheVars, qcVars, loopVars, voteVars, voteHeight, wal, npc, voted>>

LoadParent(b) ==
    /\ At(pc[b], "parent")
    /\ Goto(b, IF Parent[b] \in store THEN "leaf" ELSE "failed")
    /\ UNCHANGED <<cacheVars, qcVars, loopVars, voteVars, voteHeight, wal, npc, voted>>

(* ... and createLeaf reads the justify later.                             *)
CreateLeaf(b) ==
    /\ At(pc[b], "leaf")
    /\ Justify[b] = genericQC
    /\ Goto(b, "height")
    /\ UNCHANGED <<cacheVars, qcVars, loopVars, voteVars, voteHeight, wal, npc, voted>>

(* The new block has to be higher than voteHeight to be stored.            *)
StoreLeaf(b) ==
    /\ At(pc[b], "height")
    /\ \/ /\ Height[b] > voteHeight
          /\ StoreBlock(b)
          /\ Goto(b, "update")
       \/ /\ Height[b] <= voteHeight
          /\ Goto(b, "failed")
          /\ UNCHANGED cacheVars
    /\ UNCHANGED <<qcVars, loopVars, voteVars, voteHeight, wal, npc, voted>>

(* After update: the self vote.                                            *)
SelfVote(b) ==
    /\ At(pc[b], "self")
    /\ voteHeight' = Height[b]
    /\ voted' = voted \cup {b}
    /\ vpc' = [vpc EXCEPT ![b][Self] = "load"]
    /\ Goto(b, "selfvote")
    /\ UNCHANGED <<cacheVars, qcVars, loopVars, signs, voteSet, qcFinish, wal, npc>>

(* OnProposalVote has returned; the ProposeEvent broadcasts the proposal.  *)
Propose(b) ==
    /\ At(pc[b], "selfvote")
    /\ vpc[b][Self] = "done"
    /\ Goto(b, "done")
    /\ UNCHANGED <<cacheVars, qcVars, loopVars, voteVars, voteHeight, wal, npc, voted>>

-----------------------------------------------------------------------------
(* handleVote: a vote of another replica arrives.  The proposer of b sends *)
(* none: its signature is in the block.                                    *)
ReceiveVote(b, s) ==
    /\ At(vpc[b][s], "none")
    /\ NextLeader[b] = Self
    /\ s \notin {Self, Proposer[b]}
    /\ b # Genesis
    /\ Sent(b)
    /\ vpc' = [vpc EXCEPT ![b][s] = "load"]
    /\ UNCHANGED <<cacheVars, qcVars, loopVars, signs, voteSet, qcFinish, voteHeight,
                   wal, pc, npc, voted>>

(* OnProposalVote: is the block there? ...                                 *)
LoadVoted(b, s) ==
    /\ At(vpc[b][s], "load")
    /\ vpc' = [vpc EXCEPT ![b][s] = IF b \in store THEN "count" ELSE "buffer"]
    /\ UNCHANGED <<cacheVars, qcVars, loopVars, signs, voteSet, qcFinish, voteHeight,
                   wal, pc, npc, voted>>

(* ... no: addVoteMsg, under mut ...                                       *)
AddVoteMsg(b, s) ==
    /\ At(vpc[b][s], "buffer")
    /\ voteSet' = [voteSet EXCEPT ![b] = @ \cup {s}]
    /\ vpc' = [vpc EXCEPT ![b][s] = "done"]
    /\ UNCHANGED <<cacheVars, qcVars, loopVars, signs, qcFinish, voteHeight,
                   wal, pc, npc, voted>>

(* ... yes: count it, with the buffered ones (applyVotes), under mut.      *)
CollectOwnOnly(b, s) == signs[b] \cup {s}
Collect(b, s) == signs[b] \cup {s} \cup voteSet[b]

(* "receive vote number already satisfied quorum size", and the error for  *)
(* a duplicate vote.                                                       *)
IgnoredVoteDupOnly(b, s) == s \in signs[b]
IgnoredVote(b, s) == HasQuorum(signs[b]) \/ s \in signs[b]

(* The goroutine that reaches the quorum goes on to report it.             *)
AfterCountExact(b, s) ==
    IF Cardinality(Collect(b, s)) = QuorumSize THEN "qc" ELSE "done"

AfterCount(b, s) ==
    IF HasQuorum(Collect(b, s)) THEN "qc" ELSE "done"

CountVote(b, s) ==
    /\ At(vpc[b][s], "count")
    /\ \/ /\ IgnoredVote(b, s)
          /\ vpc' = [vpc EXCEPT ![b][s] = "done"]
          /\ UNCHANGED <<signs, voteSet>>
       \/ /\ ~IgnoredVote(b, s)
          /\ signs' = [signs EXCEPT ![b] = Collect(b, s)]
          /\ voteSet' = [voteSet EXCEPT ![b] = {}]
          /\ vpc' = [vpc EXCEPT ![b][s] = AfterCount(b, s)]
    /\ UNCHANGED <<cacheVars, qcVars, loopVars, qcFinish, voteHeight, wal, pc, npc,
                   voted>>

(* mut is released; UpdateHighestQC with the new QC and QcFinishEvent.     *)
FinishQC(b, s) ==
    /\ At(vpc[b][s], "qc")
    /\ UpdateHighestQC(b, signs[b])
    /\ qcFinish' = [qcFinish EXCEPT ![b] = @ + 1]
    /\ vpc' = [vpc EXCEPT ![b][s] = "done"]
    /\ UNCHANGED <<cacheVars, lockedQC, execQC, loopVars, signs, voteSet, voteHeight,
                   wal, pc, npc, voted>>

-----------------------------------------------------------------------------
(* The part of the pacemaker's OnReceiveNewView that uses the core: wait   *)
(* for the block of the sender's highest QC, then UpdateHighestQC.  Whether*)
(* that call is made depends on views that the pacemaker keeps.            *)
ReceiveNewView(b) ==
    /\ At(npc[b], "none")
    /\ b \in NewViewQC
    /\ Sent(b)
    /\ Certifiable(b)
    /\ npc' = [npc EXCEPT ![b] = "load"]
    /\ UNCHANGED <<cacheVars, qcVars, loopVars, voteVars, voteHeight, wal, pc, voted>>

WaitNewView(b) ==
    /\ Running
    /\ npc[b] \in WaitPC \ {"waiting"}
    /\ npc' = [npc EXCEPT ![b] = AsyncWaitBlock(npc[b], b, "hqc", "failed")]
    /\ UNCHANGED <<cacheVars, qcVars, loopVars, voteVars, voteHeight, wal, pc, voted>>

ApplyNewView(b) ==
    /\ At(npc[b], "hqc")
    /\ UpdateHighestQC(b, CertSigns(b))
    /\ npc' = [npc EXCEPT ![b] = "done"]
    /\ UNCHANGED <<cacheVars, lockedQC, execQC, loopVars, voteVars, voteHeight, wal,
                   pc, voted>>

-----------------------------------------------------------------------------
(* The steps of the goroutines this replica is running.                    *)
ProposalStep(b) ==
    \/ WaitJustify(b)
    \/ LoadBlock2(b) \/ PreCommit(b)
    \/ LoadBlock1(b) \/ Commit(b)
    \/ LoadBlock0(b) \/ Decide(b) \/ DecideLoop(b)
    \/ CheckVoteHeight(b)
    \/ LoadJustify(b) \/ CheckLiveness(b) \/ WalkDown(b)
    \/ RaiseVoteHeight(b)
    \/ LoadParent(b) \/ StoreLeaf(b) \/ SelfVote(b) \/ Propose(b)

VoteStep(b, s) ==
    \/ LoadVoted(b, s) \/ AddVoteMsg(b, s)
    \/ CountVote(b, s) \/ FinishQC(b, s)

NewViewStep(b) == WaitNewView(b) \/ ApplyNewView(b)

(* What the network and the pacemaker may start, or not.                   *)
Environment ==
    \E b \in Block :
        \/ ReceiveProposal(b)
        \/ ReceiveProposalPanics(b)
        \/ OnBeat(b)
        \/ CreateLeaf(b)
        \/ ReceiveNewView(b)
        \/ \E s \in Replica : ReceiveVote(b, s)

Next ==
    \/ \E b \in Block : ProposalStep(b) \/ NewViewStep(b)
    \/ \E b \in Block, s \in Replica : VoteStep(b, s)
    \/ Environment

Spec == Init /\ [][Next]_vars

(* A goroutine that can run is eventually run.                             *)
Fairness ==
    /\ \A b \in Block : WF_vars(ProposalStep(b)) /\ WF_vars(NewViewStep(b))
    /\ \A b \in Block : \A s \in Replica : WF_vars(VoteStep(b, s))

FairSpec == Spec /\ Fairness

-----------------------------------------------------------------------------
(* Properties the code has.                                                *)

(* No replica takes over a QC, and none votes, before it had the block that*)
(* the QC, or the justify of what it votes for, names.  Only eviction can  *)
(* make such a block missing again, and so can it alone make handleProposal*)
(* panic, which dereferences the block of execQC without looking at the    *)
(* error of LoadBlock (hotstuff.go:130-131): not before more blocks than   *)
(* the cache can hold were stored.                                         *)
PointersStored ==
    /\ {genericQC, lockedQC, execQC} \subseteq stored
    /\ \A b \in voted : Justify[b] \in stored
    /\ (store = stored /\ Running) \/ Cardinality(stored) > CacheCapacity

(* No interleaving of handlers, and no order in which proposals, votes and *)
(* new-view messages arrive, lowers the highest QC or the lock:            *)
(* UpdateHighestQC and updateLockedQC compare and assign under qcLock.     *)
QcMonotone ==
    [][/\ Height[genericQC'] >= Height[genericQC]
       /\ Height[lockedQC'] >= Height[lockedQC]]_vars

(* A replica is locked on a higher block before it moves execQC to one, and*)
(* before it sends the DecideEvent of any block, whichever handlers raise  *)
(* the lock and run the decide loop: update takes its three phases in      *)
(* order.  A lock whose block was evicted cannot be compared with, and     *)
(* stays where it is while execQC goes on.                                 *)
DecideUnderLock ==
    lockedQC \in store =>
        /\ execQC # Genesis => Height[execQC] < Height[lockedQC]
        /\ \A i \in DOMAIN decided : Height[decided[i]] < Height[lockedQC]

(* While every leaf justifies its parent, the highest QC stays above the   *)
(* lock, although other goroutines run between the two assignments of      *)
(* update, unless the block of the highest QC was evicted, which then stays*)
(* where it is.                                                            *)
Straight == \A b \in Block \ {Genesis} : Justify[b] = Parent[b]

LockUnderGeneric ==
    Straight /\ genericQC \in store /\ lockedQC # Genesis =>
        Height[lockedQC] < Height[genericQC]

(* The votes of a block are counted to a quorum by exactly one goroutine:  *)
(* OnProposalVote reports a QC once, and only with a quorum behind it,     *)
(* however the handlers of the votes, of the proposal and of the own vote  *)
(* interleave.                                                             *)
QcFinishOnce ==
    \A b \in Block :
        /\ qcFinish[b] <= 1
        /\ qcFinish[b] = 1 => HasQuorum(signs[b])

(* A vote is not lost: once its handler has ended it is counted, or kept   *)
(* for the block to come, or the block has its quorum (addVoteMsg,         *)
(* applyVotes).                                                            *)
VotesConserved ==
    \A b \in Block : \A s \in Replica :
        vpc[b][s] = "done" =>
            s \in signs[b] \cup voteSet[b] \/ HasQuorum(signs[b])

(* A quorum that is counted is reported: some goroutine calls              *)
(* UpdateHighestQC and sends the QcFinishEvent that moves the pacemaker to *)
(* the next view, unless the process panics first.                         *)
QuorumNotified ==
    \A b \in Block : HasQuorum(signs[b]) ~> (qcFinish[b] > 0 \/ ~Running)

-----------------------------------------------------------------------------
(* What comments of the code say and the code does not keep.               *)

(* consensus.go:35, "last executed block": the height of execQC does not   *)
(* go back, so that no block is executed twice.                            *)
ExecutedOnce ==
    \A i, j \in DOMAIN decided : decided[i] = decided[j] => i = j

(* consensus.go:35, "last executed block": once the decide loops have      *)
(* ended, the blocks below execQC have been executed.                      *)
ExecutedUpTo ==
    (\A b \in Block : pc[b] # "decide") =>
        \A b \in Block \ {Genesis} :
            Extends(execQC, b) => \E i \in DOMAIN decided : decided[i] = b

(* State machine replication: commands are executed in the order of the    *)
(* chain, a block after its parent.                                        *)
ExecutedInOrder ==
    \A i \in DOMAIN decided :
        \/ Parent[decided[i]] = Genesis
        \/ \E j \in 1..(i - 1) : decided[j] = Parent[decided[i]]

(* consensus.go:40, "height of the block last voted for".                  *)
VoteHeightIsLast ==
    [][\A b \in voted' \ voted : voteHeight' = Height[b]]_vars

(* consensus.go:166-169, the liveness condition and the safety condition   *)
(* (extend the locked branch): a received proposal that satisfies neither  *)
(* gets no vote.                                                           *)
VoteRespectsLock ==
    [][\A b \in voted' \ voted :
          \/ Proposer[b] = Self
          \/ Height[Justify[b]] > Height[lockedQC]
          \/ Extends(b, lockedQC)]_vars

(* consensus.go:31, genericQC is the "highest QC" the replica knows of.    *)
GenericHighest ==
    Height[lockedQC] <= Height[genericQC]

(* consensus.go:197, the proposal may arrive after the vote: when nothing  *)
(* is being handled for a stored block and a quorum of votes for it came,  *)
(* then its QC is there.                                                   *)
LateProposalCounted ==
    \A b \in store :
        /\ NextLeader[b] = Self
        /\ pc[b] = "done"
        /\ \A s \in Replica : vpc[b][s] \in {"none", "done"}
        => (HasQuorum(signs[b] \cup voteSet[b]) => HasQuorum(signs[b]))

(* consensus.go:138, proposals of different heights arrive in any order: a *)
(* proposal whose past has arrived too is voted for in the end.            *)
ReorderedProposalVoted ==
    \A b \in Block \ {Genesis} :
        (b \in store /\ Past[b] \subseteq store) ~> (b \in voted)
=============================================================================
