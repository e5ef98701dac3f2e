# go-hotstuff: a TLA+ verification project

go-hotstuff is a Go implementation of chained HotStuff: replicas elect a leader
per view in turn, the leader proposes a block with a batch of commands, the
replicas vote to the leader of the next view, a quorum of N - F votes is a
quorum certificate (QC), and a block with three certified descendants in a
direct chain is executed.  This directory holds TLA+ modules translated from
the source, TLC configurations that check them on small instances, and proofs
checked by TLAPS.

All modules are about correct replicas under asynchrony: messages are delayed
and reordered, goroutines interleave, streams break and come back, timers run
out, and processes are killed and started again.  Replicas that lie are not
modelled.

## 1. Inventory

| Part | State | Operations | Talks to |
|---|---|---|---|
| Consensus core (`consensus/consensus.go`, `entity.go`, `utils.go`) | block cache, genericQC / lockedQC / execQC, voteHeight, voteSet, `SelfQc.Signs` of the stored blocks | OnReceiveProposal, update, OnProposalVote, OnPropose, UpdateHighestQC, AsyncWaitBlock | sends events on the unbuffered `notifyChan` |
| Pacemaker (`pacemaker/roundrobin.go`) | curView, new-view messages per view, submitC, the timer | OnBeat, OnNextSyncView, OnProposeEvent, OnReceiveProposal, OnReceiveNewView, OnQcFinishEvent, UpdateQcHigh, Submit | calls the core, sends messages |
| Message dispatch (`consensus/hotstuff.go`, `events.go`) | the unbuffered queue and notifyChan | Start, handleProposal / Vote / ViewChange / Forward, Submit | a goroutine for each message and each event |
| Broadcast server (`transport/abserver.go`) | map from peers to channels, sendLock | Handshake, Broadcast, Unicast | the streams of the peers |
| Connections (`consensus/connection.go`, `transport/abclient.go`) | Connected flag per peer | ConnectWorkers, GetConnectStatus | opens streams, feeds the dispatch loop |
| Block cache (`common/db/memorydb/lru_cache.go`) | list and map, capacity | Get, Put, Delete, EnlargeCapacity | used by StoreBlock and LoadBlock |
| Write-ahead log (`consensus/wal.go`) | hard state and entries on disk, MemoryStorage | openWAL, replayWAL, Save | handleProposal |
| Signatures (`common/crypto/ecdsa.go`, `consensus/entity.go`) | none; a WaitGroup and a counter per call | Sign, Verify, VerifyIdentity, VerifyQuorumCert | the core, the handlers of messages |
| LevelDB store (`common/db/leveldb`) | one database shared by all names, a file lock | Open, Close, Get, Put, Delete, WriteBatch, GetIterator, Lock, Unlock | not used by the consensus code yet |
| gRPC and TLS set-up (`transport/client.go`, `server.go`) | TLS configuration | NewGrpcServer, NewGrpcClient, NewConnection | connections, the commands |
| Commands (`cmd/server`, `cmd/client`) | keys and addresses | serve | wires the parts |
| Logging, generated code | | | see section 7 |

What is hard in this code:

* `Start` runs every message and every event in a goroutine of its own, and
  `ConnectWorkers` hands every message over in a goroutine of its own, so that
  nothing arrives or is handled in the order in which it was sent.
* The core protects each of its fields by a lock but takes the lock anew for
  every access: the three phases of `update`, the read and the write of
  voteHeight and the two reads of genericQC of a proposal are separate steps.
* A proposal may arrive before the block it justifies, a vote or a new-view
  message before the proposal it is about; `AsyncWaitBlock` and `voteSet` are
  there for that.
* The pacemaker keeps curView in an atomic integer that its methods load,
  compare and store in separate steps.
* The broadcast server holds a lock while it sends on unbuffered channels, and
  the core holds qcLock while it sends an event to the loop of `Start`.
* A replica can be killed between any two steps.  Its log survives; its votes,
  QCs and view do not come back.
* Whether replicas agree is a matter of N of them: a fork takes view changes,
  new-view messages and votes of several leaders in the right order.
* Directories and databases are made in several steps, and `Fatal` of the logger
  does not end the process, so that the code goes on after an error.
* The block cache holds 30 blocks, and the QCs are only names of blocks: what a
  lookup finds depends on what came since.
* Entries of the log have the height of their block for index, and are saved by
  goroutines in any order.

What makes each part correct:

* core: QCs are taken over for stored blocks and only rise; execution stays below
  the lock; a vote is neither lost nor counted twice; a quorum is reported, once;
  blocks are executed once, in order and without a gap; votes obey the voting
  rule; a proposal whose past has arrived is voted for;
* pacemaker: a view is never left for a lower one; a quorum of new-view
  messages is acted upon once, with the highest QC known; commands are neither
  lost nor duplicated; votes and new-view messages go to the replica that will
  take them; the view changes as long as nothing happens;
* broadcast server: no send on a closed channel, no deadlock, a connected peer
  is reachable;
* cache: least recently used eviction, list and map coherent;
* all replicas together: a QC means N - F votes, a block is executed only below
  a certified three-chain, and what is executed lies on one branch;
* node: a proposal is in the log before the core handles it and is replayed
  after a restart; a received message is handled, whoever waits for whom; a
  broken stream comes back; a start that was cut off can be repeated;
* signatures: Verify accepts what Sign returns, in one form; VerifyQuorumCert
  says yes to N - F good signatures of known replicas and always answers;
* LevelDB store: a store of its own for each name, atomic batches, exact
  iterators, durability of synchronous writes, an exclusive file lock.

`PROJECT.json` lists the hazards line by line.  Some of these properties do
not hold of the code; section 4 says which.

## 2. Modules and how they correspond to the code

**HotStuffCore** is the core of one replica.  A block is an element of a
constant set and stands for its hash; `Parent`, `Justify`, `Height`, `Proposer`
and `NextLeader` are its fields.  `TreeAssumption` admits every tree that
correct leaders can make, including the leaves whose justify is higher than
their parent, which come from the two reads of genericQC.  `pc[b]`, `vpc[b][s]`
and `npc[b]` say where the goroutine stands that handles the proposal of `b`,
the vote of `s` for `b`, and a new-view message with the QC of `b`.  A step is
the code between two points at which another goroutine can get in.

| Code | Actions |
|---|---|
| handleProposal, OnReceiveProposal | ReceiveProposal (WAL, StoreBlock, Broadcast), WaitJustify |
| handleProposal, where the block of execQC is missing | ReceiveProposalPanics |
| update | LoadBlock2, PreCommit, LoadBlock1, Commit, LoadBlock0, Decide, DecideLoop (one iteration) |
| the vote decision | CheckVoteHeight, LoadJustify, CheckLiveness, WalkDown (one iteration), RaiseVoteHeight |
| OnBeat's GetHighQC, OnPropose | OnBeat, LoadParent, CreateLeaf, StoreLeaf, then update, SelfVote, Propose |
| handleVote, OnProposalVote | ReceiveVote, LoadVoted, AddVoteMsg, CountVote, FinishQC |
| OnReceiveNewView (its use of the core) | ReceiveNewView, WaitNewView, ApplyNewView |

The other replicas and the network are the environment: they may deliver a
message at any time after it could have been sent (`Sent`).  The cache holds
`CacheCapacity` blocks (30 in the code); a full one evicts some other block for
each that it stores.  Which one is least recently used depends on every look-up of
every goroutine, so that the choice is left open, and every look-up that may fail
for it is a step of its own, with the error path the code has: `store` is what
LoadBlock finds, `stored` everything that was ever stored.  A panic of a
handler ends the process (`Running`).  StoreBlock and the Broadcast that follows it
are one step: a goroutine that begins to wait between the two is one that began to
wait before.

**RoundRobinPM** is the pacemaker of one replica.  Its goroutines are a bag of
records: a line label, the locals, and the lines to return to (`then`), because
OnReceiveProposal, OnNextSyncView and UpdateQcHigh are called from other
methods.  A step is one access to curView or a critical section of `mut`.  The
core is reduced to its highest QC, to OnPropose, that may fail, and to
AsyncWaitBlock, that may find a block late or never.  A peer may be connected
or not at any time.  `held` (the QCs that were the highest one), `proposed`,
`forwarded`, `answered` and `quorums` are history variables.

**ABServer** has the handlers (`hpc`), the senders (`spc`), the channels and
sendLock with its rule that a waiting writer keeps new readers out.  A channel
is named after the stream it was made for.  `readers` and `pending` are the lock's
holders and waiters; TypeOK ties them to the lines at which the goroutines stand.

**LRUCache** has the list, the map and the answer of the last call; a method is
a step since each holds the mutex throughout.  **RecencyStore** is what such a
cache promises, without a list: the pairs held and the order in which their
keys were used.

**HotStuff** is N replicas and the network.  The state of a replica is a record,
and a handler is an operator from such a record to the next; it runs to its end in
one step, with the events it raises, except that it may stop in AsyncWaitBlock
(`waiting`, then `woken`), and that a proposer reads genericQC for the parent
(OnBeat) and again for the justify (CreateLeaf), with other handlers in between
(`leaf`).  The justify of a block thus may be another one than its parent, and
update's test for a direct chain is what keeps them apart.  An error of update
ends the handler before it votes.  No block is evicted here.  What HotStuffCore
and RoundRobinPM show of the inside of one replica is left out here, and so the
order of messages, timers and commands across replicas can be explored.

| Code | Operators and actions |
|---|---|
| OnBeat; createLeaf, OnPropose, OnProposeEvent | OnBeat; CreateLeaf, OnPropose |
| handleMessage, handleProposal, handleVote, handleViewChange | Deliver |
| OnReceiveProposal of core and pacemaker, update, the voting rule | ApplyProposal, Update, Decides, DirectChain, UpdateFails, RaiseVoteHeight, VoteFails, SendVote |
| OnProposalVote, addVoteMsg, applyVotes, OnQcFinishEvent | OnProposalVote, Collect, OnQcFinishEvent |
| OnReceiveNewView, addNewViewMsg, clearViews, OnNextSyncView | ApplyNewView, AddNewView, ClearViews, OnNextSyncView |
| AsyncWaitBlock, StoreBlock | Await, Resume, StoreBlock |
| Run, when the timer runs out | Timeout |
| a killed process, NewHotStuffCore and NewRoundRobinPM again | Restart |

Every replica is connected, so that the branches that skip an unconnected leader
are in RoundRobinPM only.  The constants `Block`, `Parent`, `Justify`, `View` fix
which blocks can be proposed and `Reach`, `NewViews`, `Timeouts`, `Killed` which
messages, timers and crashes may happen; within these the order is free.

**Node** is the process of one replica.  `phase` is where startNode is; `worker[p]`,
`connected[p]` and `stream[p]` are the goroutine of ConnectWorkers for peer `p`;
`pc[m]` follows a message from the stream through the queue, its handler and the
send on notifyChan or submitC; `events` are the goroutines of events.  `wal` are the
entries on disk in the order in which they were saved, each with the height of its
block for index.  Replay is by index: an entry takes its place and cuts off what
was there and behind it, and one that would leave a gap makes ReadAll return
an error, which replayWAL writes to the log before it goes on with nothing, or panic.

| Code | Actions |
|---|---|
| serve, NewHotStuffBase, Start | Boot |
| startNode, openWAL | Mkdir, CreateWal |
| replayWAL | ReadRecord (one entry), ReadFails, ReadPanics, ReplayWAL |
| ConnectWorkers, NewBroadcastClient, the TLS options | Connect, Recv, Broke |
| the loop of Start, handleMessage | Dispatch, TakeEvent |
| handleForward | Submit |
| handleProposal (Save), UpdateHighestQC, ExecuteEvent | Save, Core, ExecuteEvent |
| outside the code | Crash, PeerStart, PeerStop, BreakStream |

**LevelDB** has the one database behind all handles, with level keys as sequences
of bytes made and taken apart as provider.go does it; and the file lock of
leveldb.go.  Open and Lock have three steps each, with crashes and other
processes between them: the directory, the first files in it, the database.  Of the
external library it takes: a map in byte order, atomic batches, an exclusive lock on
the directory of an open database, that a crash may undo writes since the last
synchronous one, and that a directory with files but no database (`"partial"`) is a
missing database to it.  **NamedStores** is what handles promise, without level keys: a
store for each name.

**Signatures** puts a group of `Order` elements in the place of the curve.  It keeps
what matters to ecdsa.go, that `<<r, s>>` and `<<r, Order - s>>` are both valid.
A signature is the pair that its bytes decode to; bytes behind the pair, which
asn1.Unmarshal leaves over and Verify ignores, are left out, since no code
compares the bytes of signatures.
VerifyQuorumCert is a loop that starts goroutines and a WaitGroup.

The theorems about a module are in the module of the same name with `Proofs` after
it; there is one for each of the eight modules that model code.  The `MC` modules
give the constants their values.  Operators such as `CollectOwnOnly` that no
action uses are variants of the definition that follows them; each is a
plausible mistake that one of the properties rules out.

## 3. Runs that pass

| Run | Instance | Shows |
|---|---|---|
| core_fork | N = 4, F = 1, an own block 1 and 4 blocks of another leader, the first of which (block 2) has the genesis block as parent and block 1 as justify; a cache of 4 blocks | TypeOK, PointersStored, DecideUnderLock, QcMonotone |
| core_lead | votes for block 1, own block 2, an own block 3 begun before block 1, new-view messages with the QCs of blocks 1 and 2; a cache of 2 blocks | QcFinishOnce, VotesConserved, QuorumNotified |
| lru_cache | 4 keys, 2 values, capacity 2, later 3 | TypeOK, Coherent, ImplementsRecencyStore |
| abserver | 2 peers, 3 streams, 2 Broadcasts, 1 Unicast | TypeOK, NoSendOnClosed, HealthySendReturns |
| pm_newview | N = 3, F = 1, the leader of view 1, 3 messages, 2 commands | TypeOK, CountedBelowHigh, QuorumOnce |
| pm_events | N = 4, F = 1, the leader of view 1, the proposal of view 0, a QC of view 0, 2 commands, views up to 3 | CommandsConserved, ForwardedKeepsMoving, ProposalAnswered |
| hotstuff | N = 4, F = 1, a chain of 4 blocks; after replica 3 timed out twice replica 2 begins a block on the genesis block, and finishes it at once (block 7) or with the QC of block 2 as its justify (block 5, with block 6 on it); replica 3 killed once | TypeOK, QcBacked, ThreeChainExecuted, OneBranchIfVotedOnce |
| node | a peer that requires TLS; proposals of heights 1, 2 and 1 and a forwarded command; 1 crash | TypeOK, WriteAhead, ReceivedHandled, Reconnects, Restarts |
| leveldb | names 01 and 0101, keys empty and 010001, 1 value, 2 file locks | TypeOK, IteratorExact, LockExclusive, PanicsOnlyIfCutOff, ImplementsNamedStores |
| signatures | a group of 7 elements, N = 4, F = 1: every pair of numbers from -1 to 8 for each digest, and all sets of three to five signers with good, foreign and twin signatures | TypeOK, VerifiesExactlySigned, QuorumAnswered, Answers |

Why the bounds are enough: core_fork has the leaf that two reads of genericQC can
make, with a chain on top of it, so that the direct-chain test of update fails for
block 4 and succeeds for block 5, in whatever order the proposals arrive and with
the phases of both interleaved.  Six blocks with the genesis block and room for
four are two evictions: the blocks of the QCs go, look-ups fail in update, in its
loop and in the vote decision, and handleProposal panics.  core_lead has N = 4, so
that a quorum can be completed by the own vote, by a foreign vote or by buffered
votes.  In abserver one peer connects twice, which is what replaces a channel.
pm_newview is run with a quorum of two so that a quorum is reached and then a
message comes too late, a sender is heard twice, and a higher QC arrives before,
between and after them.  MaxView bounds the views: a goroutine that would go
beyond it stops there, and ProposalAnswered and ForwardedKeepsMoving say nothing
of it.  In pm_events three views and two commands suffice for the proposal of view
0 to be passed on to a view this replica leads, for a replica that forwarded its
command to leave the view by its timer, and for one that comes to lead a view with
its second command pending to count its own new-view message and wait, without a
timer, for a quorum that nobody owes it (`AwaitsQuorum`, roundrobin.go:128-131).
ForwardedKeepsMoving excepts that state and no other.

In hotstuff four blocks in a row are the shortest three-chain that is executed,
and blocks 5 and 7 make forks that a quorum can form on, since block 1 may not
have reached the others.  Block 5 is certified and so is its justify, but it is no
link of a direct chain: with block 6 on it, update without its test would execute
from it.  The proposal of block 4 is only delivered to replica 1, which then is
the first to execute, and the one of block 6 to replica 0; delivering them to all
adds states and no new case.  Replica 3 collects the votes for the blocks of view
2 on either branch, so that its restart loses counted votes.  `MaxBeats` bounds
the OnBeat goroutines that wait: more of them only repeat what one can do.  In
node one crash suffices for a second start to find what the first one left behind,
at each step of the first; with heights 1, 2 and 1 the log that is replayed has
entries in order, out of order, one that takes the place of another, and a gap,
and three handlers compete for qcLock and the loop.  In leveldb one name is a
prefix of the other, which goes on with lastKeyIndicator, a key contains the
separator, and both stores, batches of two keys and one unsynchronised write are
enough to tell apart what the properties tell apart.  In signatures 7 is the
smallest order with three low and three high values of s, and numbers below zero,
zero and above the order occur.

Fairness.  `Fairness` of HotStuffCore and ABServer is weak fairness of every
goroutine, which the Go scheduler gives to a runnable goroutine; a goroutine in
cond.Wait has no step.  Nothing is assumed of the network: messages need not
arrive, peers need not connect.  In ABServer weak fairness of a handler in
`register` is enough although Lock is enabled only when no reader holds the lock,
because a waiting writer keeps new readers out.  RoundRobinPM assumes only that
some goroutine that can run is run, that a started timer runs out, and that Run
takes its tick.  Node assumes weak fairness of the start, of the worker of each
peer, and of the handlers and event goroutines taken together: some one that can
run does, which is less than Go gives and enough where a run has finitely many
messages; that a process that died is started again; and nothing of the peers, the
network, the crashes or the room in submitC.  Signatures assumes weak fairness of
the goroutines of one call.  HotStuff and LevelDB are only checked for safety.

Deadlock is checked for the cache, leveldb and node.  The other models stop when
all messages have been handled, and goroutines that wait for ever are what the
liveness properties are about.

## 4. What the code does not keep

Each of these runs checks one statement of a comment or of the repository's
README that the code does not keep; `findings` in `PROJECT.json` quotes it.

| Run | Property | What happens |
|---|---|---|
| core_reorder | ReorderedProposalVoted | a reordered proposal is never voted for: missed wake-up |
| hotstuff_agreement | Agreement | two replicas execute blocks of different branches |

The trace of hotstuff_agreement has four correct replicas and no crash.
OnReceiveProposal sends a vote for every proposal that it can process, whatever
the voting rule says about it, so that the replicas vote on two branches: views 0,
5, 6 and 7 extend one, views 1, 2, 3 and 8 the other.  New-view messages and
timeouts take replicas 2 and 3, who have seen different parts, from one to the
other.  Each branch gets its three-chain, and each is executed by somebody.
OneBranchIfVotedOnce is the other side of it: as long as no replica votes for two
blocks of one height, which is what the rule is for, nothing of the kind happens.

The last section of HotStuffCore, ABServer and RoundRobinPM states further
properties that do not hold of one component.  They have no run of their own;
checking the property on the instance named here (the constants of that cfg, with
what is said to differ, under Spec unless a fair specification is named) shows the
trace.

| Property | Instance | What happens |
|---|---|---|
| ExecutedOnce | CoreReorder with a chain of five blocks (`ChainBlock(5)`, `ChainParent(5)`) | execQC is overwritten by a lower block; a block is executed twice |
| ExecutedUpTo | CoreReorder with a chain of five blocks (`ChainBlock(5)`, `ChainParent(5)`) | execQC passes a block that has not arrived; it is never executed |
| ExecutedInOrder | CoreReorder with a chain of five blocks (`ChainBlock(5)`, `ChainParent(5)`) | a child is executed before its parent |
| VoteRespectsLock | CoreFork | a proposal that fails both voting conditions gets a vote |
| VoteHeightIsLast | CoreReorder | a proposal at or below voteHeight gets a vote |
| LateProposalCounted | CoreLead | a quorum of early votes is not counted |
| GenericHighest | CoreFork | the lock is higher than the highest QC |
| SendReturns | ABServer, FairSpec | a broken stream stops all sending |
| ReconnectedReachable | ABServer | a reconnected peer is sent nothing |
| ViewMonotone | PMNewView | curView decreases |
| ProposesAsLeader | PMEvents | a replica proposes in a view it does not lead |
| VoteReachesLeader | PMEvents | a rerouted vote is dropped by its receiver |
| NewViewReachesLeader | PMEvents | a new-view message goes to a replica that does not lead its view |
| PendingMoves | PMEvents, FairSpec | a leader with a command pending stops changing views |

Three further weaknesses are states of a passing run that its property names and
does not exclude: once the cache has evicted the block of a QC, that QC stands still,
and handleProposal panics if it is execQC (PointersStored, core_fork); a log in
which heights are missing is replayed as an empty one, or not at all (WriteAhead and
Restarts, node); and a database whose creation was cut off makes every later
Open panic (PanicsOnlyIfCutOff, leveldb).

## 5. What is proved

Every invariant, every action property and both refinements that the passing runs
check are proved, for all values of the constants that satisfy the assumptions
named here.  A theorem is about `Spec`, without fairness, and so about the fair
specifications too.

| Module | Theorem | States | For every |
|---|---|---|---|
| HotStuffCoreProofs | TypeCorrect | `[]TypeOK` | N, F, Self, finite tree of blocks and capacity of the cache (ConfAssumption, TreeAssumption, CacheAssumption) |
| | PointersAlwaysStored | `[]PointersStored` | |
| | QcReportedOnce | `[]QcFinishOnce` | |
| | NoVoteLost | `[]VotesConserved` | |
| | QcOnlyRises | `QcMonotone` | |
| | DecidesUnderLock | `[]DecideUnderLock` | |
| | LocksUnderGeneric | `[]LockUnderGeneric` | no run checks it: it is about trees in which every leaf justifies its parent, and core_fork has another |
| HotStuffProofs | TypeCorrect | `[]TypeOK` | N, F with 3F < N, tree whose justifies may be above the parents, messages, timeouts and restarts (ConfAssumption, TreeAssumption) |
| | QcsAreBacked | `[]QcBacked` | |
| | ExecutedThreeChain | `[]ThreeChainExecuted` | |
| | OneBranch | `[]OneBranchIfVotedOnce` | |
| RoundRobinPMProofs | TypeCorrect | `[]TypeOK` | F < N, Self, QCs, messages, number of views and up to 100 commands (PMAssumption) |
| | CountedNotAbove | `[]CountedBelowHigh` | |
| | QuorumActedOnce | `[]QuorumOnce` | |
| | NoCommandLost | `[]CommandsConserved` | |
| ABServerProofs | TypeCorrect | `[]TypeOK` | peers, streams and senders (StreamAssumption) |
| | NeverSendsOnClosed | `[]NoSendOnClosed` | |
| NodeProofs | TypeCorrect | `[]TypeOK` | peers, TLS options, messages, heights of proposals and number of crashes (NodeAssumption) |
| | LogWrittenAhead | `[]WriteAhead` | |
| LRUCacheProofs | TypeCorrect | `[]TypeOK` | keys, values and capacities (CapacityAssumption) |
| | ListAndMapAgree | `[]Coherent` | |
| | RecencyStoreImplemented | `ImplementsRecencyStore` | |
| LevelDBProofs | TypeCorrect | `[]TypeOK` | names without a separator, keys and values (NameAssumption) |
| | LocksExclude | `[]LockExclusive` | |
| | OpensUnlessCutOff | `[]PanicsOnlyIfCutOff` | |
| | IteratesExactly | `[]IteratorExact` | |
| | NamedStoresImplemented | `ImplementsNamedStores` | |
| SignaturesProofs | TypeCorrect | `[]TypeOK` | odd prime order, keys, N, F and QC (OrderAssumption, KeyAssumption, CertAssumption) |
| | AcceptsExactlySigned | `[]VerifiesExactlySigned` | |
| | AnswersForQuorum | `[]QuorumAnswered` | |

TLC evaluates these assumptions on the instances of section 3, so that they can be
met.  NameAssumption says of a name that it holds no zero byte, which is the
separator; the names in use are words.  CertAssumption says that the Signs of a QC
are a finite map to pairs of integers, of any sign and size.

The inductive invariants, and why they are needed:

* **HotStuffCore** has three beside the types.  `StoreInv`: a QC moves to the
  justify of the block a goroutine works on, so the justify was stored from the
  moment WaitJustify has ended (`JustifyStored`), the blocks further down from
  the moment update loaded them (`PhasesStored`), a new-view handler past its wait
  found its block (`HighStored`), and votes are only counted for blocks that were
  stored (`CountedStored`).  `CountInv`: exactly one goroutine stands between the
  count and the report of a block with a quorum that was not reported (`Finisher`),
  and nothing was counted for a block that was never stored, since storing it sets
  its signatures anew (`NotStoredEmpty`).  `PhaseInv`: what a goroutine knows between
  two phases of update, at "lock" that the highest QC is at least block2 (`AtLock`),
  at "exec" that the lock is at least block1 (`AtExec`), in the loop that the lock is
  above the block to be executed next (`AtDecide`), each as long as the block of that
  QC is in the cache.  The QCs only rise, and a QC whose block was evicted never
  moves again (`EvictedForGood`: a block is stored once), so what one goroutine
  established no other one destroys.
* **HotStuff**: `Good` follows a vote from the replica that casts it, through the
  message, into the votes a leader counts or keeps, to the QC made of them and the
  blocks, new-view messages and locks that carry the QC on.  It is a predicate of
  one replica and of the votes cast, so that each handler, an operator from states
  to states, has one lemma; votes are never taken back, not by a restart either, so
  that what is sound elsewhere stays so.  For what is executed it keeps the chain
  of three certified blocks with the two links that `DirectChain` tested.  OneBranch
  is then quorum intersection at each height of a branch, by induction along it.
* **RoundRobinPM**: 34 of its 41 actions, and two of the three branches of Lock,
  only move goroutines on (`Idle`) and share one lemma.  CountedBelowHigh needs
  that a message past the test under mut, and not yet counted, is of no later view
  than some QC that was held (`CountedNext`): the test compares views and
  UpdateHighestQC heights, which nothing ties to each other, so that the QC held
  now need not be of that view.  What was held is never forgotten, and the one
  held is the highest of them (`Rises`, `HighHeld`).  CommandsConserved is about a
  bag of goroutines: InHand is the number of pairs (goroutine, i) with i up to its
  number of copies (`Tickets`), and the lemmas OneMoreTicket and OneTicketLess
  count them.  That the return lines of a goroutine are four known ones and that
  only the event of a QC has the view -1 (`Sound`) makes the types inductive.
* **ABServer**: while a sender holds sendLock for reading, what it has still to send
  to is in the map (`ReadersProtect`); a channel stands under the peer of its
  stream (`OwnChannel`), and the channel of a stream that is not registered is
  nowhere yet (`FreshUnused`).
* **Node**: a proposal before the core went through Save (`SavedFirst`); a handler
  runs only with an open log (`HandledWhileRunning`, `PhaseOfWal`), and a process
  without a log has handled nothing (`EmptyWhileNoWal`), so that CreateWal cannot
  empty a log that is needed.  Of the entries ReadAll has read so far each is in the
  place of its index, or a later one among them has taken that place or one below
  (`ReadSoFar`); at the last entry this is WriteAhead.
* **LRUCache**: list and map hold the same pairs (`Holds`).  Every method takes one
  pair out of the list or puts one in front, or both; what this does to the keys and
  to the order of use is proved once, and the step of RecencyStore follows.
* **LevelDB**: the first separator of a level key ends the name.  So level keys are
  different where names or keys are (`LevelKeyInjective`), the key is found again
  (`AppKeyRetrieved`), and the range of an iterator holds keys of its name only
  (`RangeOfName`).  PanicsOnlyIfCutOff needs that a directory found not empty holds a
  database, is one that somebody is creating with the lock held, or was cut off
  (`CreatesIfEmpty`, `LockCreates`).
* **Signatures**: every scalar has an inverse, because the least positive number
  congruent to a multiple of it divides the order (`HasInverse`); division is
  unique; the twin of a signature belongs to the opposite point.  VerifyQuorumCert:
  an entry is before the loop, with one goroutine, or over, numVerified counts the
  good ones that are past their Verify (`Counts`), and there is an answer only when
  none is left (`Answer`).

Induction over the natural numbers, and over the branches of a tree that
a recursive function defines, is derived from the well-foundedness of `<` as a
lemma about sets (`SetInduction`, `LeastElement`); `AncestorDef` shows that the
recursive definition has a solution.

## 6. What is only model-checked

Liveness: QuorumNotified, HealthySendReturns, ForwardedKeepsMoving, ProposalAnswered,
ReceivedHandled, Reconnects, Restarts and Answers.  Properties of the form P ~> Q
under fairness, and ENABLED, are outside the prover.  The two
properties that the code does not keep (section 4) have counterexamples only.

## 7. What is not modelled

* Replicas that lie, and malformed messages: they are dropped by checks before
  any state changes, or would need a different `TreeAssumption`.
* Steps of several goroutines of one replica in HotStuff: they are in HotStuffCore
  and RoundRobinPM, of one replica each.  Unconnected leaders are in RoundRobinPM
  only.
* Which block the cache evicts from the core: HotStuffCore leaves it open, LRUCache
  has the order.  HotStuff has no eviction.
* Two blocks with the same hash (GetBlockHash leaves out the justify).
* Snapshots: the program never writes one.  loadSnapshot calls a method of
  hs.Storage before it is assigned; what that does is up to the external library,
  and the model takes it that there is none.
* The creation of a log file by its library is one step.  What the library does
  with an entry that leaves a gap is assumed (an error or a panic), and that it
  goes by the index of entries.
* ParsePrivateKey and key generation, the flags, the built-in addresses and keys,
  the test client: wiring, and calls of the standard library.
* Keep-alive, message sizes and cipher suites: settings of the gRPC library.
* Logging, except where it decides what happens next, and the generated code.

## 8. Plan

1. Proofs: an abstract replicated log that HotStuff implements as long as VotedOnce
   holds, as a refinement; the safety half of the liveness properties (what
   a waiting goroutine waits for exists), where it is an invariant.
2. HotStuff with leaders that are not connected.
