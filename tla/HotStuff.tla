------------------------------ MODULE HotStuff ------------------------------
(***************************************************************************)
(* N replicas of go-hotstuff and the network between them: the core        *)
(* (consensus/consensus.go), the pacemaker (pacemaker/roundrobin.go) and   *)
(* the messages they exchange.                                             *)
(*                                                                         *)
(* HotStuffCore and RoundRobinPM look inside one replica, at the grain of  *)
(* its goroutines.  Here a handler runs to its end in one step, with the   *)
(* events it raises, except that it may stop in AsyncWaitBlock, and that   *)
(* OnBeat reads genericQC for the parent of a leaf and createLeaf reads it *)
(* again for its justify.  What is explored is the order of the messages,  *)
(* of the timers and of the clients' commands across replicas.  The        *)
(* replicas are correct and all connected.  A message is delivered at any  *)
(* time after it was sent, or never; a replica may be killed and started   *)
(* again.  The cache keeps all blocks; HotStuffCore has the one that       *)
(* evicts.                                                                 *)
(*                                                                         *)
(* A handler is an operator from the state of a replica (a record) to its  *)
(* next state.                                                             *)
(***************************************************************************)
EXTENDS Integers, FiniteSets

CONSTANTS
    N, F,          \* ConfigMetadata
    Block,         \* the blocks that may be created, and Genesis
    Genesis,
    Height,        \* [Block -> Nat]
    Parent,        \* [Block -> Block]   ParentHash
    Justify,       \* [Block -> Block]   Justify.BlockHash
    View,          \* [Block -> Int]     SelfQc.ViewNumber; -1 for Genesis
    Reach,         \* bound: Reach[b] are the replicas the proposal of b gets to
    NewViews,      \* bound: the <<from, to, view>> of new-view messages that
                   \* are delivered
    Timeouts,      \* bound: the <<replica, view>> in which a timer runs out
    Clients,       \* bound: the replicas whose clients always have a command
                   \* waiting; the other replicas never get one
    Killed,        \* bound: the replicas that are killed, once
    MaxView,       \* bound: no replica goes beyond this view
    MaxBeats       \* bound: the OnBeat goroutines of a replica that wait

Replica == 0..(N - 1)

ASSUME ConfAssumption ==
    /\ N \in Nat \ {0}
    /\ F \in Nat
    /\ 3 * F < N

ASSUME TreeAssumption ==
    /\ Genesis \in Block
    /\ Height \in [Block -> Nat]
    /\ Parent \in [Block -> Block]
    /\ Justify \in [Block -> Block]
    /\ View \in [Block -> Int]
    /\ Reach \in [Block -> SUBSET Replica]
    /\ Height[Genesis] = 0
    /\ \A b \in Block \ {Genesis} :
          /\ Height[b] = Height[Parent[b]] + 1
          /\ Justify[b] = Parent[b] \/ Height[Justify[b]] > Height[Parent[b]]
          /\ View[b] \in Nat

(* GetLeader is the leader of the view after v, GetCurLeader the one of v. *)
GetLeaderUnwrapped(v) == v + 1
GetLeader(v)    == (v + 1) % N
GetCurLeader(v) == v % N
Proposer(b)     == GetCurLeader(View[b])

QuorumSize == N - F
HasQuorumOfOneLess(S) == Cardinality(S) >= QuorumSize - 1
HasQuorum(S) == Cardinality(S) >= QuorumSize

AncestorFrom[i \in Nat] ==
    IF i = 0 THEN [b \in Block |-> b]
             ELSE [b \in Block |-> Parent[AncestorFrom[i - 1][b]]]

Branch == [b \in Block |-> {AncestorFrom[i][b] : i \in 0..Height[b]}]
Extends(b, a) == a \in Branch[b]

VARIABLE rep     \* rep[r]: the state of replica r, a record

vars == rep

Message == [type : {"proposal", "vote", "newview"}, from : Replica, to : Replica,
            block : Block, view : Int]

State ==
    [id : Replica,
     store : SUBSET Block,                   \* blockCache
     signs : [Block -> SUBSET Replica],      \* SelfQc.Signs of the stored blocks
     voteSet : [Block -> SUBSET Replica],    \* the votes that came early
     genericQC : Block, lockedQC : Block, execQC : Block,
     voteHeight : Nat,
     curView : Int,
     views : [0..MaxView -> SUBSET Replica], \* the senders of new-view messages
     beats : Nat,                            \* OnBeat goroutines at submitC
     leaf : SUBSET Block,                    \* ... before createLeaf, with its block
     timer : BOOLEAN,                        \* waitTimer runs
     waiting : SUBSET Message,               \* handlers in cond.Wait
     woken : SUBSET Message,                 \* ... that a Broadcast woke
     restarted : BOOLEAN,
     seen : SUBSET Message,                  \* messages delivered
     sent : SUBSET Message,                  \* messages sent
     voted : SUBSET Block,                   \* history: the blocks voted for
     executed : SUBSET Block]                \* history: the DecideEvents

TypeOK == \A r \in Replica : rep[r] \in State

Start(r) ==
    [id |-> r, store |-> {Genesis},
     signs |-> [b \in Block |-> {}], voteSet |-> [b \in Block |-> {}],
     genericQC |-> Genesis, lockedQC |-> Genesis, execQC |-> Genesis,
     voteHeight |-> 0, curView |-> 0, views |-> [v \in 0..MaxView |-> {}],
     beats |-> 1, leaf |-> {}, timer |-> FALSE, waiting |-> {}, woken |-> {},
     restarted |-> FALSE, seen |-> {}, sent |-> {}, voted |-> {}, executed |-> {}]

Init == rep = [r \in Replica |-> Start(r)]

Larger(i, j) == IF i > j THEN i ELSE j

Unicast(s, type, b, v, dest) ==
    [s EXCEPT !.sent = @ \cup {[type |-> type, from |-> s.id, to |-> dest,
                                block |-> b, view |-> v]}]

Broadcast(s, type, b, v) ==
    [s EXCEPT !.sent = @ \cup {[type |-> type, from |-> s.id, to |-> q,
                                block |-> b, view |-> v] : q \in Replica \ {s.id}}]

-----------------------------------------------------------------------------
(* The core.                                                               *)

(* UpdateHighestQC, and UpdateQcHigh of the pacemaker for the              *)
(* HqcUpdateEvent.                                                         *)
UpdateQcHigh(s, v) == [s EXCEPT !.curView = Larger(@, v)]

UpdateHighestQC(s, b) ==
    IF Height[b] > Height[s.genericQC]
    THEN UpdateQcHigh([s EXCEPT !.genericQC = b], View[b])
    ELSE s

UpdateLockedQC(s, b) ==
    IF Height[b] > Height[s.lockedQC] THEN [s EXCEPT !.lockedQC = b] ELSE s

(* getJustifyBlock succeeds.                                               *)
HasJustify(s, b) == b # Genesis /\ Justify[b] \in s.store

(* The decide loop: down the parents from b, as many blocks as b is higher *)
(* than the block of execQC, up to the first one that is missing.          *)
Decided(s, b) ==
    {a \in Branch[b] :
        /\ Height[a] > Height[s.execQC]
        /\ \A c \in Branch[b] : Height[c] >= Height[a] => c \in s.store}

Decide(s, b) ==
    [s EXCEPT !.execQC = b, !.executed = @ \cup Decided(s, b)]

(* update: the three phases.  The last one is for a direct chain only, and *)
(* fails when its loop misses a block.                                     *)
DirectChainUnchecked(b2, b1) == TRUE
DirectChain(b2, b1) == Parent[b2] = Justify[b2] /\ Parent[b1] = Justify[b1]

Decides(s, b) ==
    LET b2 == Justify[b]
        b1 == Justify[b2]
    IN  HasJustify(s, b2) /\ HasJustify(s, b1) /\ DirectChain(b2, b1)

Update(s, b) ==
    LET b2 == Justify[b]
        b1 == Justify[b2]
        s1 == UpdateHighestQC(s, b2)
        s2 == UpdateLockedQC(s1, b1)
    IN  IF ~HasJustify(s, b2) THEN s1
        ELSE IF ~Decides(s, b) THEN s2
        ELSE Decide(s2, Justify[b1])

UpdateFails(s, b) ==
    LET b0 == Justify[Justify[Justify[b]]] IN
    /\ Decides(s, b)
    /\ ~({a \in Branch[b0] : Height[a] > Height[s.execQC]} \subseteq s.store)

(* The voting rule.  It only decides about voteHeight.                     *)
WalkLoaded(s, b) ==
    {a \in Branch[b] : Height[s.lockedQC] <= Height[a] /\ Height[a] < Height[b]}
        \subseteq s.store

Liveness(s, b) == Height[Justify[b]] > Height[s.lockedQC]
Safety(s, b)   == Extends(b, s.lockedQC)

VoteFails(s, b) ==
    Height[b] > s.voteHeight /\ ~Liveness(s, b) /\ ~WalkLoaded(s, b)

RaiseVoteHeight(s, b) ==
    IF Height[b] > s.voteHeight /\ (Liveness(s, b) \/ Safety(s, b))
    THEN [s EXCEPT !.voteHeight = Height[b]] ELSE s

-----------------------------------------------------------------------------
(* The pacemaker.                                                          *)

(* len(submitC) > 0                                                        *)
Busy(s)       == s.id \in Clients
StartTimer(s) == [s EXCEPT !.timer = TRUE]
StopTimer(s)  == [s EXCEPT !.timer = FALSE]
Beat(s)       == [s EXCEPT !.beats = @ + 1]

(* The tail of OnReceiveNewView: addNewViewMsg, and the quorum.            *)
AddNewView(s, from, v, qc) ==
    LET s1 == [s EXCEPT !.views[v] = @ \cup {from}]
        s2 == UpdateQcHigh(UpdateHighestQC(s1, qc), v)
    IN  IF from \in s.views[v] \/ HasQuorum(s.views[v]) THEN s
        ELSE IF ~HasQuorum(s1.views[v]) THEN s1
        ELSE IF Busy(s) THEN Beat(StopTimer(s2)) ELSE StartTimer(s2)

ClearViews(s) ==
    [s EXCEPT !.views = [v \in 0..MaxView |-> IF v < s.curView THEN {} ELSE @[v]]]

OnNextSyncView(s) ==
    LET leader == GetLeader(s.curView)
        s1 == [s EXCEPT !.curView = @ + 1]
    IN  ClearViews(
          IF leader # s.id
          THEN Unicast(StartTimer(s1), "newview", s1.genericQC, s1.curView, leader)
          ELSE IF Busy(s) THEN AddNewView(s1, s.id, s1.curView, s1.genericQC)
          ELSE StartTimer(s1))

(* OnReceiveNewView, once the block of the QC is there.                    *)
ApplyNewView(s, m) ==
    LET s1 == UpdateQcHigh(UpdateHighestQC(s, m.block), m.view) IN
    IF View[m.block] > View[s.genericQC]
    THEN IF Busy(s) THEN Beat(s1) ELSE OnNextSyncView(s1)
    ELSE IF m.view > s.curView
    THEN Broadcast(StartTimer([s EXCEPT !.curView = m.view]),
                   "newview", s.genericQC, m.view)
    ELSE AddNewView(s, m.from, m.view, m.block)

OnQcFinishEvent(s, v) ==
    LET s1 == UpdateQcHigh(s, v)
        s2 == [s1 EXCEPT !.curView = @ + 1]
    IN  IF GetLeader(s1.curView) # s.id THEN OnNextSyncView(s1)
        ELSE IF Busy(s) THEN Beat(s2) ELSE OnNextSyncView(s2)

(* OnProposalVote.  A vote for a block that is not there is kept; the kept *)
(* ones are counted with the next one.                                     *)
Collect(s, b, voter) == s.signs[b] \cup {voter} \cup s.voteSet[b]

OnProposalVote(s, b, voter) ==
    LET s1 == [s EXCEPT !.signs[b] = Collect(s, b, voter), !.voteSet[b] = {}] IN
    IF b \notin s.store THEN [s EXCEPT !.voteSet[b] = @ \cup {voter}]
    ELSE IF HasQuorum(s.signs[b]) \/ voter \in s.signs[b] THEN s
    ELSE IF ~HasQuorum(s1.signs[b]) THEN s1
    ELSE OnQcFinishEvent(UpdateHighestQC(s1, b), View[b])

-----------------------------------------------------------------------------
(* OnReceiveProposal of the core, once the justify is there, and then of   *)
(* the pacemaker: the vote goes to the leader of the next view.            *)
SendVote(s, b) ==
    LET s1 == UpdateQcHigh([s EXCEPT !.voted = @ \cup {b}], View[b])
        s2 == IF GetLeader(s1.curView) = s.id THEN StopTimer(s1) ELSE s1
    IN  IF GetLeader(View[b]) = s.id
        THEN OnProposalVote(s2, b, s.id)
        ELSE Unicast(s2, "vote", b, View[b], GetLeader(View[b]))

ApplyProposal(s, b) ==
    LET s1 == Update(s, b) IN
    IF UpdateFails(s, b) \/ VoteFails(s1, b) THEN s1 ELSE SendVote(RaiseVoteHeight(s1, b), b)

(* AsyncWaitBlock: go on when the block is there, else wait.               *)
Needed(m) == IF m.type = "proposal" THEN Justify[m.block] ELSE m.block

Apply(s, m) ==
    IF m.type = "proposal" THEN ApplyProposal(s, m.block)
                           ELSE ApplyNewView(s, m)

Await(s, m) ==
    IF Needed(m) \in s.store THEN Apply(s, m)
                             ELSE [s EXCEPT !.waiting = @ \cup {m}]

(* StoreBlock and cond.Broadcast.  The block carries the proposer's vote.  *)
StoreBlock(s, b) ==
    [s EXCEPT !.store = @ \cup {b}, !.signs[b] = {Proposer(b)},
              !.woken = @ \cup s.waiting, !.waiting = {}]

(* OnPropose: the leaf, its own update and vote, and OnProposeEvent.  A    *)
(* leaf that is not above voteHeight is dropped.                           *)
OnPropose(s, b) ==
    LET s0 == [s EXCEPT !.store = @ \cup {b}]
        s1 == Update(s0, b)
        s2 == [s1 EXCEPT !.voteHeight = Height[b], !.voted = @ \cup {b}]
        s3 == Broadcast(OnProposalVote(s2, b, s.id), "proposal", b, View[b])
    IN  IF Height[b] <= s.voteHeight THEN s
        ELSE IF UpdateFails(s0, b) THEN s1
        ELSE IF GetLeader(s3.curView) # s.id THEN StartTimer(s3) ELSE s3

-----------------------------------------------------------------------------
(* A step of replica r: its next state, within the bounds.                 *)
Step(r, s) ==
    /\ s.curView <= MaxView
    /\ s.beats <= MaxBeats
    /\ rep' = [rep EXCEPT ![r] = s]

(* A client's command reaches a waiting OnBeat goroutine: read the parent  *)
(* of the leaf and propose, or forward the command to the leader and start *)
(* the timer.  No leaf is made twice: its timestamp sets it apart.         *)
OnBeat(r) ==
    LET s == [rep[r] EXCEPT !.beats = @ - 1] IN
    /\ r \in Clients
    /\ rep[r].beats > 0
    /\ \/ /\ GetCurLeader(s.curView) # r
          /\ <<r, s.curView>> \in Timeouts
          /\ Step(r, StartTimer(s))
       \/ \E b \in Block \ (s.store \cup s.voted \cup s.leaf) :
             /\ Parent[b] = s.genericQC
             /\ View[b] = s.curView
             /\ Proposer(b) = r
             /\ Step(r, [s EXCEPT !.leaf = @ \cup {b}])

(* createLeaf reads genericQC again, and OnPropose goes on.                *)
CreateLeaf(r, b) ==
    LET s == [rep[r] EXCEPT !.leaf = @ \ {b}] IN
    /\ Justify[b] = s.genericQC
    /\ Step(r, OnPropose(s, b))

(* The message is handled: handleProposal, handleVote, handleViewChange.   *)
Deliver(r, m) ==
    LET s == [rep[r] EXCEPT !.seen = @ \cup {m}] IN
    /\ m \notin rep[r].seen
    /\ \/ /\ m.type = "proposal" /\ r \in Reach[m.block]
          /\ Step(r, Await(StoreBlock(s, m.block), m))
       \/ /\ m.type = "vote"
          /\ Step(r, OnProposalVote(s, m.block, m.from))
       \/ /\ m.type = "newview" /\ <<m.from, r, m.view>> \in NewViews
          /\ Step(r, IF m.view < s.curView THEN s ELSE Await(s, m))

(* A handler that was woken looks for its block once more.                 *)
Resume(r, m) ==
    LET s == [rep[r] EXCEPT !.woken = @ \ {m}] IN
    Step(r, IF Needed(m) \in s.store THEN Apply(s, m) ELSE s)

Timeout(r) ==
    /\ rep[r].timer
    /\ <<r, rep[r].curView>> \in Timeouts
    /\ Step(r, OnNextSyncView(StopTimer(rep[r])))

(* The process is killed and started again: nothing of its state comes     *)
(* back.  What is on its way is still delivered.                           *)
Restart(r) ==
    /\ r \in Killed /\ ~rep[r].restarted
    /\ rep' = [rep EXCEPT ![r] =
          [Start(r) EXCEPT !.restarted = TRUE, !.seen = rep[r].seen, !.sent = rep[r].sent,
                           !.voted = rep[r].voted, !.executed = rep[r].executed]]

Next ==
    \E r \in Replica :
        \/ OnBeat(r)
        \/ Timeout(r)
        \/ Restart(r)
        \/ \E q \in Replica : \E m \in rep[q].sent : m.to = r /\ Deliver(r, m)
        \/ \E m \in rep[r].woken : Resume(r, m)
        \/ \E b \in rep[r].leaf : CreateLeaf(r, b)

Spec == Init /\ [][Next]_vars

-----------------------------------------------------------------------------
(* Properties.                                                             *)

Voters(b) == {r \in Replica : b \in rep[r].voted}

(* A QC is what the name says: whatever block a replica takes for the      *)
(* highest one, locks on or executes to, N - F replicas have voted for it. *)
(* It rests on the counting of OnProposalVote at every leader, with votes  *)
(* that come before their block: updateLockedQC and the DECIDE phase take  *)
(* the QC of a stored block as it is, only UpdateHighestQC verifies it.    *)
QcBacked ==
    \A r \in Replica :
        \A b \in {rep[r].genericQC, rep[r].lockedQC, rep[r].execQC} \ {Genesis} :
            Cardinality(Voters(b)) >= N - F

(* A block is executed only at the foot of a three-chain (the DECIDE phase *)
(* of update): it or a block above it is the parent and the justify of a   *)
(* second block, and that one of a third, and N - F replicas voted for all *)
(* three.  A leaf whose proposer took a new QC between GetHighQC and       *)
(* createLeaf is no link of such a chain, though its justify is certified. *)
Certified(b) == b = Genesis \/ Cardinality(Voters(b)) >= N - F

Link(c) == Justify[c] = Parent[c]

ThreeChainExecuted ==
    \A r \in Replica : \A b \in rep[r].executed :
        \E c \in Block :
            /\ Extends(Parent[Parent[c]], b)
            /\ Link(c) /\ Link(Parent[c])
            /\ Certified(c) /\ Certified(Parent[c]) /\ Certified(Parent[Parent[c]])

(* Agreement: the blocks that two replicas execute lie on one branch.      *)
Agreement ==
    \A q, r \in Replica : \A a \in rep[q].executed, b \in rep[r].executed :
        Extends(a, b) \/ Extends(b, a)

(* Only the voting rule stands between the replicas and a fork: as long as *)
(* no replica has voted for two blocks of one height, all the QCs that any *)
(* two replicas hold, and with them what they execute, lie on one branch.  *)
VotedOnce ==
    \A r \in Replica : \A a, b \in rep[r].voted : Height[a] = Height[b] => a = b

Held(r) == {rep[r].genericQC, rep[r].lockedQC, rep[r].execQC} \cup rep[r].executed

OneBranchIfVotedOnce ==
    VotedOnce => \A q, r \in Replica : \A a \in Held(q), b \in Held(r) :
                    Extends(a, b) \/ Extends(b, a)
=============================================================================
