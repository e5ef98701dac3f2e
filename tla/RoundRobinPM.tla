---------------------------- MODULE RoundRobinPM ----------------------------
(***************************************************************************)
(* The pacemaker of one replica, pacemaker/roundrobin.go, at the grain of  *)
(* its goroutines.  Every event of the core, every expiry of the timer and *)
(* every OnBeat runs in a goroutine of its own; curView is an atomic       *)
(* integer, but most methods load, compare and store it in several steps,  *)
(* and only some of them hold mut.  A step of this module is one access to *)
(* curView, or what mut makes atomic.                                      *)
(*                                                                         *)
(* The goroutines are a bag: only how many stand at which line with which  *)
(* locals matters.  A QC stands for itself and its block; what the core    *)
(* does (HotStuffCore) is reduced to the highest QC it keeps, that OnPropose*)
(* may fail, and that AsyncWaitBlock may not find a block.  Whether a peer *)
(* is connected may change at any time, so that GetConnectStatus may give  *)
(* either answer for it.                                                   *)
(***************************************************************************)
EXTENDS Integers, FiniteSets, Sequences, Bags

CONSTANTS
    N, F,          \* ConfigMetadata
    Self,          \* replicaId
    QC, Genesis,   \* the quorum certificates, and the one of the genesis block
    QcView,        \* [QC -> Int]
    QcHeight,      \* [QC -> Nat]   the height of the block of the QC
    Proposals,     \* bound: the proposals received, [view, qc (its justify)]
    NewViews,      \* bound: the new-view messages received, [from, view, qc]
    Finished,      \* bound: the QCs this replica collects
    MaxCmds,       \* bound: the commands submitted
    MaxView        \* bound: the views entered

Replica == 0..(N - 1)

View == 0..MaxView

ASSUME PMAssumption ==
    /\ N \in Nat \ {0} /\ F \in Nat /\ F < N
    /\ Self \in Replica
    /\ MaxCmds \in 0..100 /\ MaxView \in Nat   \* submitC holds 100
    /\ Genesis \in QC
    /\ QcView \in [QC -> View \cup {-1}]
    /\ QcHeight \in [QC -> Nat]
    /\ QcView[Genesis] = -1 /\ QcHeight[Genesis] = 0
    /\ Proposals \subseteq [view : View, qc : QC]
    /\ NewViews \subseteq [from : Replica \ {Self}, view : View, qc : QC]
    /\ Finished \subseteq QC \ {Genesis}

VARIABLES
    curView,
    views,       \* the new-view messages kept; a view and a sender have one
    queue,       \* len(submitC)
    timer,       \* waitTimer is running
    tick,        \* waitTimer.C() holds a value
    mut,         \* mut is locked
    threads,     \* the bag of goroutines
    high,        \* genericQC of the core
    input,       \* the messages and events still to come
    submitted,   \* history: the number of commands submitted
    forwarded,   \* history: the number of commands forwarded
    proposed,    \* history: the number of calls of OnPropose
    answered,    \* history: the views whose vote was sent, or given to the own core
    held,        \* history: the QCs that high has been
    quorums      \* history: quorums[v] counts the new-view quorums of v that were
                 \* acted upon since the messages of v were last deleted

history == <<submitted, forwarded, proposed, answered, quorums>>
core    == <<high, held>>
vars == <<curView, views, queue, timer, tick, mut, threads, core, input, history>>

Message == [from : Replica, view : View, qc : QC]

(* A goroutine: the line it stands at, its locals, and the lines at which  *)
(* the methods that called the current one go on.                          *)
Label ==
    {"beat", "lead", "propose",                                \* OnBeat
     "event", "link", "skip",                                  \* OnProposeEvent
     "recv", "recvset", "recvlead", "recvlink", "recvskip", "recvnew", "vote",
     "high", "set",                                            \* UpdateQcHigh
     "nv", "wait", "mut", "nvgo", "nvsync", "nvmsg", "add", "apply", "nvfin",
     "sync", "enter", "relay", "newview", "own", "clear",      \* OnNextSyncView
     "qcf", "qcfset", "qcflead", "qcfnext", "qcfgo"}           \* OnQcFinishEvent

Thread == [at : Label, who : Replica, view : View \cup {-1}, qc : QC, vote : View,
           then : Seq(Label)]

TypeOK ==
    /\ curView \in View
    /\ views \subseteq Message
    /\ queue \in Nat
    /\ timer \in BOOLEAN /\ tick \in BOOLEAN /\ mut \in BOOLEAN
    /\ IsABag(threads) /\ BagToSet(threads) \subseteq Thread
    /\ held \subseteq QC /\ high \in held
    /\ submitted \in 0..MaxCmds
    /\ forwarded \in Nat /\ proposed \in Nat
    /\ answered \subseteq View
    /\ quorums \in [View -> Nat]

-----------------------------------------------------------------------------
(* GetLeader: the leader of the view after v.                              *)
GetLeader(v)    == (v + 1) % N
GetCurLeader(v) == v % N

QuorumSize == N - F

New(l) == [at |-> l, who |-> Self, view |-> 0, qc |-> Genesis, vote |-> 0,
           then |-> <<>>]

(* Goroutine t becomes the goroutines in S: itself at another line, and the*)
(* ones it starts.                                                         *)
Run(t, S) == threads' = (threads (-) SetToBag({t})) (+) SetToBag(S)
Spawn(S)  == threads' = threads (+) SetToBag(S)

At(t, l)   == [t EXCEPT !.at = l]
Returns(t) == IF t.then = <<>> THEN {}
              ELSE {[t EXCEPT !.at = Head(t.then), !.then = Tail(t.then)]}

(* atomic.AddInt64(&r.curView, 1), up to the bound.                        *)
AddView == curView < MaxView /\ curView' = curView + 1

(* The core's UpdateHighestQC and the HqcUpdateEvent that it sends.        *)
Higher(q)  == QcHeight[q] > QcHeight[high]
Raise(q)   == /\ high' = IF Higher(q) THEN q ELSE high
              /\ held' = held \cup {high'}
HqcUpdate(q) == IF Higher(q) THEN {[New("high") EXCEPT !.view = QcView[q]]} ELSE {}

(* Run: the first OnBeat is started, the timer is stopped.                 *)
Init ==
    /\ curView = 0
    /\ views = {}
    /\ queue = 0
    /\ timer = FALSE /\ tick = FALSE /\ mut = FALSE
    /\ threads = SetToBag({New("beat")})
    /\ high = Genesis /\ held = {Genesis}
    /\ input = [proposals |-> Proposals, newViews |-> NewViews, qcs |-> Finished]
    /\ submitted = 0 /\ forwarded = 0 /\ proposed = 0
    /\ answered = {}
    /\ quorums = [v \in View |-> 0]

-----------------------------------------------------------------------------
(* OnBeat: take a command; forward it to the leader of the view, or propose*)
(* it.  The view is loaded once for the test and once for the proposal.    *)
TakeEmpty(t) ==
    /\ t.at = "beat"
    /\ queue' = queue - 1
    /\ Run(t, {At(t, "lead")})
    /\ UNCHANGED <<curView, views, timer, tick, mut, core, input, history>>

Take(t) ==
    /\ t.at = "beat"
    /\ queue > 0
    /\ queue' = queue - 1
    /\ Run(t, {At(t, "lead")})
    /\ UNCHANGED <<curView, views, timer, tick, mut, core, input, history>>

LeadBoth(t) ==
    /\ t.at = "lead"
    /\ forwarded' = IF GetCurLeader(curView) # Self THEN forwarded + 1 ELSE forwarded
    /\ timer' = TRUE
    /\ Run(t, {At(t, "propose")})
    /\ UNCHANGED <<curView, views, queue, tick, mut, core, input, submitted,
                   proposed, answered, quorums>>

Lead(t) ==
    /\ t.at = "lead"
    /\ \/ /\ GetCurLeader(curView) # Self
          /\ forwarded' = forwarded + 1
          /\ timer' = TRUE
          /\ Run(t, {})
       \/ /\ GetCurLeader(curView) = Self
          /\ Run(t, {At(t, "propose")})
          /\ UNCHANGED <<forwarded, timer>>
    /\ UNCHANGED <<curView, views, queue, tick, mut, core, input, submitted,
                   proposed, answered, quorums>>

(* OnPropose fails, or ends with a ProposeEvent.                           *)
Propose(t) ==
    /\ t.at = "propose"
    /\ \/ Run(t, {})
       \/ Run(t, {[New("event") EXCEPT !.view = curView]})
    /\ proposed' = proposed + 1
    /\ UNCHANGED <<curView, views, queue, timer, tick, mut, core, input, submitted,
                   forwarded, answered, quorums>>

(* OnProposeEvent: the next leader may be unreachable; then its view is    *)
(* skipped and the proposal is broadcast with the new view.                *)
Unreachable == GetLeader(curView) # Self

Event(t) ==
    /\ t.at = "event"
    /\ \/ /\ GetLeader(curView) # Self
          /\ timer' = TRUE
          /\ Run(t, {At(t, "link")})
       \/ /\ GetLeader(curView) = Self
          /\ Run(t, {})
          /\ UNCHANGED timer
    /\ UNCHANGED <<curView, views, queue, tick, mut, core, input, history>>

Link(t) ==
    /\ t.at = "link"
    /\ \/ Run(t, {})
       \/ Unreachable /\ Run(t, {At(t, "skip")})
    /\ UNCHANGED <<curView, views, queue, timer, tick, mut, core, input, history>>

(* Then the proposal is broadcast, with the view that curView has.         *)
Skip(t) ==
    /\ t.at = "skip"
    /\ AddView
    /\ Run(t, {})
    /\ UNCHANGED <<views, queue, timer, tick, mut, core, input, history>>

-----------------------------------------------------------------------------
(* OnReceiveProposal.  t.view is proposal.ViewNumber, t.vote the view of   *)
(* the vote, which is made before.                                         *)
Recv(t) ==
    /\ t.at = "recv"
    /\ Run(t, {At(t, IF t.view > curView THEN "recvset" ELSE "recvlead")})
    /\ UNCHANGED <<curView, views, queue, timer, tick, mut, core, input, history>>

RecvSet(t) ==
    /\ t.at = "recvset"
    /\ curView' = t.view
    /\ Run(t, {At(t, "recvlead")})
    /\ UNCHANGED <<views, queue, timer, tick, mut, core, input, history>>

RecvLeadReturns(t) ==
    /\ t.at = "recvlead"
    /\ \/ /\ GetLeader(curView) # Self
          /\ Run(t, {At(t, "recvlink")})
          /\ UNCHANGED timer
       \/ /\ GetLeader(curView) = Self
          /\ timer' = FALSE
          /\ Run(t, {})
    /\ UNCHANGED <<curView, views, queue, tick, mut, core, input, history>>

RecvLead(t) ==
    /\ t.at = "recvlead"
    /\ \/ /\ GetLeader(curView) # Self
          /\ Run(t, {At(t, "recvlink")})
          /\ UNCHANGED timer
       \/ /\ GetLeader(curView) = Self
          /\ timer' = FALSE
          /\ Run(t, {At(t, "vote")})
    /\ UNCHANGED <<curView, views, queue, tick, mut, core, input, history>>

(* When the next leader is not connected, OnReceiveProposal calls itself   *)
(* with the next view, and goes on to send the vote once more.             *)
RecvLink(t) ==
    /\ t.at = "recvlink"
    /\ \/ Run(t, {At(t, "vote")})
       \/ Unreachable /\ Run(t, {At(t, "recvskip")})
    /\ UNCHANGED <<curView, views, queue, timer, tick, mut, core, input, history>>

RecvSkip(t) ==
    /\ t.at = "recvskip"
    /\ AddView
    /\ Run(t, {At(t, "recvnew")})
    /\ UNCHANGED <<views, queue, timer, tick, mut, core, input, history>>

RecvNew(t) ==
    /\ t.at = "recvnew"
    /\ Run(t, {[t EXCEPT !.at = "recv", !.view = curView,
                         !.then = <<"vote">> \o @]})
    /\ UNCHANGED <<curView, views, queue, timer, tick, mut, core, input, history>>

SendVote(t) ==
    /\ t.at = "vote"
    /\ answered' = answered \cup {t.vote}
    /\ Run(t, Returns(t))
    /\ UNCHANGED <<curView, views, queue, timer, tick, mut, core, input, submitted,
                   forwarded, proposed, quorums>>

-----------------------------------------------------------------------------
(* UpdateQcHigh: compare, then store.                                      *)
High(t) ==
    /\ t.at = "high"
    /\ Run(t, IF t.view > curView THEN {At(t, "set")} ELSE Returns(t))
    /\ UNCHANGED <<curView, views, queue, timer, tick, mut, core, input, history>>

Set(t) ==
    /\ t.at = "set"
    /\ curView' = t.view
    /\ Run(t, Returns(t))
    /\ UNCHANGED <<views, queue, timer, tick, mut, core, input, history>>

-----------------------------------------------------------------------------
(* OnReceiveNewView of the message <<t.who, t.view, t.qc>>.  AsyncWaitBlock*)
(* finds the block of the highest QC and the genesis block at once ...     *)
NewView(t) ==
    /\ t.at = "nv"
    /\ Run(t, IF t.view < curView THEN Returns(t)
              ELSE {At(t, IF t.qc \in {Genesis, high} THEN "mut" ELSE "wait")})
    /\ UNCHANGED <<curView, views, queue, timer, tick, mut, core, input, history>>

(* ... and any other one then, or when it comes, or not at all.            *)
Wait(t) ==
    /\ t.at = "wait"
    /\ Run(t, {At(t, "mut")}) \/ Run(t, Returns(t))
    /\ UNCHANGED <<curView, views, queue, timer, tick, mut, core, input, history>>

(* Under mut: a QC of a higher view than that of the highest QC is taken   *)
(* over; a message of a higher view makes this replica enter that view; any*)
(* other message is collected.                                             *)
NewerQCReversed(t) == QcView[t.qc] < QcView[high]
NewerQC(t) == QcView[t.qc] > QcView[high]

Lock(t) ==
    /\ t.at = "mut"
    /\ ~mut
    /\ \/ /\ NewerQC(t)
          /\ Raise(t.qc)
          /\ mut' = TRUE
          /\ Run(t, {[t EXCEPT !.at = "high", !.then = <<"nvgo">> \o @]}
                    \cup HqcUpdate(t.qc))
          /\ UNCHANGED timer
       \/ /\ ~NewerQC(t) /\ t.view > curView
          /\ timer' = FALSE
          /\ mut' = TRUE
          /\ Run(t, {At(t, "nvsync")})
          /\ UNCHANGED core
       \/ /\ ~NewerQC(t) /\ t.view <= curView
          /\ Run(t, {At(t, "add")})
          /\ UNCHANGED <<core, timer, mut>>
    /\ UNCHANGED <<curView, views, queue, tick, input, history>>

(* go r.OnBeat() or go r.OnNextSyncView(), and Unlock.                     *)
BeatOrSync == IF queue > 0 THEN {New("beat")} ELSE {New("sync")}

Go(t) ==
    /\ t.at = "nvgo"
    /\ mut' = FALSE
    /\ Run(t, BeatOrSync \cup Returns(t))
    /\ UNCHANGED <<curView, views, queue, timer, tick, core, input, history>>

SyncView(t) ==
    /\ t.at = "nvsync"
    /\ curView' = t.view
    /\ Run(t, {At(t, "nvmsg")})
    /\ UNCHANGED <<views, queue, timer, tick, mut, core, input, history>>

(* createSignedViewChange, Unlock, go r.Broadcast, startNewViewTimer.      *)
SyncMsg(t) ==
    /\ t.at = "nvmsg"
    /\ mut' = FALSE
    /\ timer' = TRUE
    /\ Run(t, Returns(t))
    /\ UNCHANGED <<curView, views, queue, tick, core, input, history>>

(* addNewViewMsg: no more than a quorum is kept; of two messages of one    *)
(* sender the one with the lower QC view is.  The message that completes   *)
(* the quorum goes on.                                                     *)
Kept(v) == {m \in views : m.view = v}

MessageOf(t) == [from |-> t.who, view |-> t.view, qc |-> t.qc]

Replaced(t) ==
    {m \in Kept(t.view) : m.from = t.who /\ QcView[m.qc] > QcView[t.qc]}

Known(t) == \E m \in Kept(t.view) : m.from = t.who

AddNewViewMsgLoose(t) ==
    /\ t.at = "add"
    /\ ~mut
    /\ views' = views \cup {MessageOf(t)}
    /\ IF Cardinality(Kept(t.view)) + 1 >= QuorumSize
       THEN /\ Run(t, {At(t, "apply")})
            /\ quorums' = [quorums EXCEPT ![t.view] = @ + 1]
       ELSE /\ Run(t, Returns(t))
            /\ UNCHANGED quorums
    /\ UNCHANGED <<curView, queue, timer, tick, mut, core, input, submitted,
                   forwarded, proposed, answered>>

AddNewViewMsg(t) ==
    /\ t.at = "add"
    /\ ~mut
    /\ \/ /\ Cardinality(Kept(t.view)) >= QuorumSize
          /\ Run(t, Returns(t))
          /\ UNCHANGED <<views, quorums>>
       \/ /\ Cardinality(Kept(t.view)) < QuorumSize
          /\ Known(t)
          /\ views' = IF Replaced(t) = {} THEN views
                      ELSE (views \ Replaced(t)) \cup {MessageOf(t)}
          /\ Run(t, Returns(t))
          /\ UNCHANGED quorums
       \/ /\ Cardinality(Kept(t.view)) < QuorumSize
          /\ ~Known(t)
          /\ views' = views \cup {MessageOf(t)}
          /\ IF Cardinality(Kept(t.view)) + 1 = QuorumSize
             THEN /\ Run(t, {At(t, "apply")})
                  /\ quorums' = [quorums EXCEPT ![t.view] = @ + 1]
             ELSE /\ Run(t, Returns(t))
                  /\ UNCHANGED quorums
    /\ UNCHANGED <<curView, queue, timer, tick, mut, core, input, submitted,
                   forwarded, proposed, answered>>

(* After the quorum: the QC of the last message, then UpdateQcHigh.        *)
Apply(t) ==
    /\ t.at = "apply"
    /\ Raise(t.qc)
    /\ Run(t, {[t EXCEPT !.at = "high", !.then = <<"nvfin">> \o @]}
              \cup HqcUpdate(t.qc))
    /\ UNCHANGED <<curView, views, queue, timer, tick, mut, input, history>>

Finish(t) ==
    /\ t.at = "nvfin"
    /\ timer' = (queue = 0)
    /\ Run(t, (IF queue > 0 THEN {New("beat")} ELSE {}) \cup Returns(t))
    /\ UNCHANGED <<curView, views, queue, tick, mut, core, input, history>>

-----------------------------------------------------------------------------
(* OnNextSyncView: the leader is computed, then the view is entered.       *)
Sync(t) ==
    /\ t.at = "sync"
    /\ Run(t, {[t EXCEPT !.at = "enter", !.who = GetLeader(curView)]})
    /\ UNCHANGED <<curView, views, queue, timer, tick, mut, core, input, history>>

Enter(t) ==
    /\ t.at = "enter"
    /\ AddView
    /\ Run(t, {At(t, "relay")})
    /\ UNCHANGED <<views, queue, timer, tick, mut, core, input, history>>

(* Another replica leads: skip its view when it is not connected.  This    *)
(* replica leads: a pending command waits for a quorum of new-view messages*)
(* of which the own one is the first.                                      *)
RelayNoTimer(t) ==
    /\ t.at = "relay"
    /\ \/ /\ t.who # Self
          /\ Run(t, {New("sync")})
          /\ UNCHANGED timer
       \/ /\ t.who # Self
          /\ Run(t, {At(t, "newview")})
          /\ UNCHANGED timer
       \/ /\ t.who = Self /\ queue > 0
          /\ Run(t, {New("own")})
          /\ UNCHANGED timer
       \/ /\ t.who = Self /\ queue = 0
          /\ timer' = TRUE
          /\ Run(t, {New("clear")})
    /\ UNCHANGED <<curView, views, queue, tick, mut, core, input, history>>

Relay(t) ==
    /\ t.at = "relay"
    /\ \/ /\ t.who # Self
          /\ Run(t, {New("sync")})
          /\ UNCHANGED timer
       \/ /\ t.who # Self
          /\ timer' = TRUE
          /\ Run(t, {At(t, "newview")})
       \/ /\ t.who = Self /\ queue > 0
          /\ Run(t, {New("own")})
          /\ UNCHANGED timer
       \/ /\ t.who = Self /\ queue = 0
          /\ timer' = TRUE
          /\ Run(t, {New("clear")})
    /\ UNCHANGED <<curView, views, queue, tick, mut, core, input, history>>

(* The message to t.who carries the view that curView has now.             *)
SendNewView(t) ==
    /\ t.at = "newview"
    /\ Run(t, {New("clear")})
    /\ UNCHANGED <<curView, views, queue, timer, tick, mut, core, input, history>>

OwnNewView(t) ==
    /\ t.at = "own"
    /\ Run(t, {[t EXCEPT !.at = "nv", !.view = curView, !.qc = high,
                         !.then = <<"clear">>]})
    /\ UNCHANGED <<curView, views, queue, timer, tick, mut, core, input, history>>

ClearViews(t) ==
    /\ t.at = "clear"
    /\ ~mut
    /\ views' = {m \in views : m.view >= curView}
    /\ quorums' = [v \in View |-> IF v < curView THEN 0 ELSE quorums[v]]
    /\ Run(t, Returns(t))
    /\ UNCHANGED <<curView, queue, timer, tick, mut, core, input, submitted,
                   forwarded, proposed, answered>>

-----------------------------------------------------------------------------
(* OnQcFinishEvent.                                                        *)
QcFinish(t) ==
    /\ t.at = "qcf"
    /\ Run(t, {IF t.view > curView THEN At(t, "qcfset") ELSE New("qcflead")})
    /\ UNCHANGED <<curView, views, queue, timer, tick, mut, core, input, history>>

QcFinishSet(t) ==
    /\ t.at = "qcfset"
    /\ curView' = t.view
    /\ Run(t, {New("qcflead")})
    /\ UNCHANGED <<views, queue, timer, tick, mut, core, input, history>>

QcFinishLead(t) ==
    /\ t.at = "qcflead"
    /\ Run(t, IF GetLeader(curView) = Self THEN {At(t, "qcfnext")} ELSE {New("sync")})
    /\ UNCHANGED <<curView, views, queue, timer, tick, mut, core, input, history>>

QcFinishNext(t) ==
    /\ t.at = "qcfnext"
    /\ AddView
    /\ Run(t, {At(t, "qcfgo")})
    /\ UNCHANGED <<views, queue, timer, tick, mut, core, input, history>>

QcFinishGo(t) ==
    /\ t.at = "qcfgo"
    /\ Run(t, BeatOrSync)
    /\ UNCHANGED <<curView, views, queue, timer, tick, mut, core, input, history>>

-----------------------------------------------------------------------------
(* The timer runs out; Run takes the value from its channel.  A timer that *)
(* is stopped, or started again, after it ran out leaves the value there.  *)
Expire ==
    /\ timer
    /\ timer' = FALSE
    /\ tick' = TRUE
    /\ UNCHANGED <<curView, views, queue, mut, threads, core, input, history>>

Tick ==
    /\ tick
    /\ tick' = FALSE
    /\ Spawn({New("sync")})
    /\ UNCHANGED <<curView, views, queue, timer, mut, core, input, history>>

(* Submit, from a client or from handleForward.                            *)
Submit ==
    /\ submitted < MaxCmds
    /\ submitted' = submitted + 1
    /\ queue' = queue + 1
    /\ UNCHANGED <<curView, views, timer, tick, mut, threads, core, input, forwarded,
                   proposed, answered, quorums>>

(* The core handled a proposal: it took over the justify and sends the     *)
(* ReceiveProposalEvent with the vote.                                     *)
ReceiveProposal(p) ==
    /\ input' = [input EXCEPT !.proposals = @ \ {p}]
    /\ Raise(p.qc)
    /\ Spawn({[New("recv") EXCEPT !.view = p.view, !.vote = p.view]}
             \cup HqcUpdate(p.qc))
    /\ UNCHANGED <<curView, views, queue, timer, tick, mut, history>>

ReceiveNewView(m) ==
    /\ input' = [input EXCEPT !.newViews = @ \ {m}]
    /\ Spawn({[New("nv") EXCEPT !.who = m.from, !.view = m.view, !.qc = m.qc]})
    /\ UNCHANGED <<curView, views, queue, timer, tick, mut, core, history>>

(* The core collected a quorum of votes: UpdateHighestQC, QcFinishEvent.   *)
CollectQC(q) ==
    /\ input' = [input EXCEPT !.qcs = @ \ {q}]
    /\ Raise(q)
    /\ Spawn({[New("qcf") EXCEPT !.view = QcView[q]]} \cup HqcUpdate(q))
    /\ UNCHANGED <<curView, views, queue, timer, tick, mut, history>>

-----------------------------------------------------------------------------
ThreadStep(t) ==
    \/ Take(t) \/ Lead(t) \/ Propose(t)
    \/ Event(t) \/ Link(t) \/ Skip(t)
    \/ Recv(t) \/ RecvSet(t) \/ RecvLead(t) \/ RecvLink(t) \/ RecvSkip(t) \/ RecvNew(t)
    \/ SendVote(t)
    \/ High(t) \/ Set(t)
    \/ NewView(t) \/ Lock(t) \/ Go(t) \/ SyncView(t) \/ SyncMsg(t)
    \/ AddNewViewMsg(t) \/ Apply(t) \/ Finish(t)
    \/ Sync(t) \/ Enter(t) \/ Relay(t) \/ SendNewView(t) \/ OwnNewView(t) \/ ClearViews(t)
    \/ QcFinish(t) \/ QcFinishSet(t) \/ QcFinishLead(t) \/ QcFinishNext(t) \/ QcFinishGo(t)

SomeThread == \E t \in BagToSet(threads) : ThreadStep(t)

Environment ==
    \/ Submit
    \/ \E t \in BagToSet(threads) : Wait(t)
    \/ \E p \in input.proposals : ReceiveProposal(p)
    \/ \E m \in input.newViews : ReceiveNewView(m)
    \/ \E q \in input.qcs : CollectQC(q)

Next == SomeThread \/ Expire \/ Tick \/ Environment

Spec == Init /\ [][Next]_vars

(* The goroutines that can run are run, and time passes.                   *)
FairSpec == Spec /\ WF_vars(SomeThread) /\ WF_vars(Expire) /\ WF_vars(Tick)

-----------------------------------------------------------------------------
(* No new-view message is counted whose QC is newer than all that this     *)
(* replica has held: OnReceiveNewView hands such a QC to UpdateHighestQC   *)
(* first, and lets go of mut before it counts the message.  And of all the *)
(* QCs it has held, the leader that a quorum of messages makes propose     *)
(* extends the highest, though only the QC of the last message is applied. *)
(* The first is about views and the second about heights, and a QC of a    *)
(* later view may be lower after a fork.                                   *)
CountedBelowHigh ==
    /\ \A m \in views : \E q \in held : QcView[m.qc] <= QcView[q]
    /\ \A q \in held : QcHeight[q] <= QcHeight[high]

(* A quorum of new-view messages is acted upon, and once: a full set has   *)
(* made addNewViewMsg return a message to exactly one goroutine, and a set *)
(* that is not full to none, whichever messages arrive late or twice and   *)
(* whenever clearViews runs.                                               *)
QuorumOnce ==
    \A v \in View :
        quorums[v] = IF Cardinality(Kept(v)) < QuorumSize THEN 0 ELSE 1

(* A replica that forwarded a command and does not hear of a proposal keeps*)
(* entering views, as long as it proposes nothing itself: the ways through *)
(* OnBeat, OnNextSyncView and OnQcFinishEvent that leave it waiting start  *)
(* the timer again.  There is one that does not.  A replica that comes to  *)
(* lead a view with another command pending counts its own new-view message*)
(* and waits for those of the others without a timer (roundrobin.go:       *)
(* 128-131).                                                               *)
AwaitsQuorum ==
    queue > 0 /\ \E m \in views : m.from = Self /\ m.view = curView

ForwardedKeepsMoving ==
    (forwarded > 0) ~>
        (curView = MaxView \/ input.proposals # Proposals \/ AwaitsQuorum \/ proposed > 0)

(* No command is lost or used twice between submitC and the core: it is in *)
(* the queue, in the hands of one OnBeat, forwarded, or was given to       *)
(* OnPropose, however many OnBeat goroutines compete for it.               *)
InHand ==
    Cardinality(UNION {{t} \X (1..threads[t]) :
                         t \in {u \in DOMAIN threads : u.at \in {"lead", "propose"}}})

CommandsConserved ==
    submitted = queue + InHand + forwarded + proposed

(* Every proposal the core voted for is answered: OnReceiveProposal sends  *)
(* the vote in the end, however often it calls itself because leaders are  *)
(* not connected; each call is one view further, and this replica leads one*)
(* of N views.  At the bound of the views nothing is said.                 *)
ProposalAnswered ==
    \A p \in Proposals :
        (p \notin input.proposals) ~>
            (curView = MaxView \/ p.view \in answered)

-----------------------------------------------------------------------------
(* What comments of the code say and the code does not keep.               *)

(* Chained HotStuff: the view of a replica only grows.                     *)
ViewMonotone == [][curView' >= curView]_vars

(* roundrobin.go:83, "if it is not the leader, the proposal is forwarded to*)
(* the current leader": OnPropose is called with a view this replica leads.*)
ProposesAsLeader ==
    \A t \in BagToSet(threads) : t.at = "propose" => GetCurLeader(curView) = Self

(* roundrobin.go:177, the vote is sent to the leader of the next round, and*)
(* handleVote accepts a vote only at the leader of the view it carries.    *)
VoteReachesLeader ==
    \A t \in BagToSet(threads) :
        t.at = "vote" /\ GetLeader(t.view) # Self =>
            GetLeader(t.vote) = GetLeader(t.view)

(* api/pacemaker.go:22, GetLeader is "the leader of the next view": the    *)
(* new-view message, which carries the view it is made in, is sent to the  *)
(* replica that leads it.                                                  *)
NewViewReachesLeader ==
    \A t \in BagToSet(threads) : t.at = "newview" => GetCurLeader(curView) = t.who

(* A fault-tolerant pacemaker does not wait for ever: a pending command is *)
(* proposed or forwarded, or the view changes.                             *)
PendingMoves == (queue > 0) ~> (queue = 0 \/ curView = MaxView)
=============================================================================
