-------------------------------- MODULE Node --------------------------------
(***************************************************************************)
(* The process of one replica: it starts (cmd/server/main.go,              *)
(* HotStuffBase.Start), replays its write-ahead log (consensus/wal.go),    *)
(* keeps a stream open to every other replica (consensus/connection.go,    *)
(* transport), dispatches messages and events (consensus/hotstuff.go,      *)
(* events.go), and may be killed at any point and started again.           *)
(*                                                                         *)
(* The core and the pacemaker are reduced to what they do to the dispatch  *)
(* loop: a handler sends an event to the loop, some while they hold qcLock,*)
(* and the goroutine of an event takes qcLock in its turn.                 *)
(***************************************************************************)
EXTENDS Integers, Sequences, FiniteSets

CONSTANTS
    Self, Peer,    \* the replicas
    TlsOpts,       \* [Peer \cup {Self} -> Options]
    Msg,           \* the messages other replicas send in a run
    From,          \* [Msg -> Peer]
    Kind,          \* [Msg -> MsgKind]
    Index,         \* the height of a proposal, that is the index of its entry
    None,
    MaxCrashes     \* bound: how often the process is killed

MsgKind == {"proposal", "viewChange", "vote", "forward", "invalid"}

(* TLSOptions: a key pair and certificate pools are good, bad or absent.   *)
Options == [UseTLS : BOOLEAN, keyPair : {"good", "bad", "absent"},
            ServerRootCAs : {"good", "bad", "absent"},
            ClientRootCAs : {"good", "bad", "absent"}, RequireClientCert : BOOLEAN]

ASSUME NodeAssumption ==
    /\ Self \notin Peer
    /\ TlsOpts \in [Peer \cup {Self} -> Options]
    /\ From \in [Msg -> Peer]
    /\ Kind \in [Msg -> MsgKind]
    /\ Index \in [Msg -> Nat \ {0}]
    /\ None \notin Msg
    /\ MaxCrashes \in Nat

(* parseTLSOptionsForServer and parseTLSOptionsForClient return no error.  *)
ServerOK(o) ==
    o.UseTLS => /\ o.keyPair = "good"
                /\ o.RequireClientCert => o.ClientRootCAs # "bad"

ClientOK(o) ==
    o.UseTLS => /\ o.ServerRootCAs # "bad"
                /\ o.RequireClientCert => o.keyPair = "good"

(* NewConnection succeeds with a server of the same options: the client    *)
(* trusts the certificate.                                                 *)
Trusts(o) == o.UseTLS => o.ServerRootCAs = "good"

VARIABLES
    phase,      \* "down", then the steps of startNode, then "running": the loop
    waldir,     \* "missing", "empty", or holds a "wal"
    wal,        \* the entries on disk, in the order they were saved
    read,       \* how many of them ReadAll has read
    readErr,    \* ReadAll of this start returned an error
    memlog,     \* what ReadAll has made of them, and then MemoryStorage
    peerUp,     \* peerUp[p]: the server of p runs
    worker,     \* worker[p]: the goroutine of ConnectWorkers
    connected,  \* NodeInfo.Connected
    stream,     \* stream[p]: "none", "open" or "broken"
    pc,         \* pc[m]: where message m is
    qcLock,     \* the handler that holds it
    events,     \* the goroutines of events
    failed,     \* history: proposals whose Save failed
    handled,    \* history: proposals the core has got
    before,     \* history: ... before the last crash
    crashes

disk   == <<waldir, wal>>
replay == <<read, readErr, memlog>>
net    == <<peerUp, worker, connected, stream>>
loop   == <<pc, qcLock, events>>
hist   == <<failed, handled, before, crashes>>
vars   == <<phase, disk, replay, net, loop, hist>>

Up == phase # "down"

(* A message of a peer, once received, waits for the queue in a goroutine  *)
(* and is handled; it is done with at the end of its handler, or of the    *)
(* process.  A message that is lost on the way is one that is never        *)
(* received.                                                               *)
Handling == {"save", "core", "notify", "submit"}
Pc == {"away", "queue", "done"} \cup Handling

(* The types; qcLock is held over the send of an event only; Connected says*)
(* what its worker does, on which OnNextSyncView and OnReceiveProposal     *)
(* skip a leader.                                                          *)
TypeOK ==
    /\ phase \in {"down", "boot", "create", "open", "running"}
    /\ waldir \in {"missing", "empty", "wal"}
    /\ wal \in Seq(Msg) /\ memlog \in Seq(Msg)
    /\ read \in 0..Len(wal) /\ readErr \in BOOLEAN
    /\ peerUp \in [Peer -> BOOLEAN] /\ connected \in [Peer -> BOOLEAN]
    /\ worker \in [Peer -> {"none", "dial", "recv"}]
    /\ stream \in [Peer -> {"none", "open", "broken"}]
    /\ pc \in [Msg -> Pc]
    /\ qcLock \in Msg \cup {None}
    /\ events \subseteq Msg
    /\ failed \cup handled \cup before \subseteq Msg
    /\ crashes \in 0..MaxCrashes
    /\ qcLock # None => pc[qcLock] = "notify"
    /\ \A p \in Peer : connected[p] <=> worker[p] = "recv"

Init ==
    /\ phase = "down"
    /\ waldir = "missing" /\ wal = <<>>
    /\ read = 0 /\ readErr = FALSE /\ memlog = <<>>
    /\ peerUp = [p \in Peer |-> FALSE]
    /\ worker = [p \in Peer |-> "none"]
    /\ connected = [p \in Peer |-> FALSE]
    /\ stream = [p \in Peer |-> "none"]
    /\ pc = [m \in Msg |-> "away"]
    /\ qcLock = None /\ events = {}
    /\ failed = {} /\ handled = {} /\ before = {} /\ crashes = 0

-----------------------------------------------------------------------------
(* Starting.                                                               *)

(* serve, NewNodeManager, Start: the server listens and the workers of     *)
(* ConnectWorkers start while startNode runs.                              *)
Boot ==
    /\ phase = "down" /\ ServerOK(TlsOpts[Self])
    /\ phase' = "boot"
    /\ worker' = [p \in Peer |-> "dial"]
    /\ UNCHANGED <<disk, replay, peerUp, connected, stream, loop, hist>>

WalExistNever == FALSE
WalExist == waldir = "wal"

MkdirOrExit ==
    /\ phase = "boot"
    /\ IF WalExist THEN phase' = "open" /\ UNCHANGED waldir
       ELSE waldir = "missing" /\ waldir' = "empty" /\ phase' = "create"
    /\ UNCHANGED <<wal, replay, net, loop, hist>>

(* openWAL: the directory, and then the file.  Fatalf, where Mkdir fails   *)
(* because an earlier start got that far, only writes to the log; the      *)
(* library makes its file in the directory it finds.                       *)
Mkdir ==
    /\ phase = "boot"
    /\ IF WalExist THEN phase' = "open" /\ UNCHANGED waldir
                   ELSE phase' = "create" /\ waldir' = "empty"
    /\ UNCHANGED <<wal, replay, net, loop, hist>>

CreateWal ==
    /\ phase = "create"
    /\ waldir' = "wal" /\ wal' = <<>>
    /\ phase' = "open"
    /\ UNCHANGED <<replay, net, loop, hist>>

(* ReadAll reads the records one by one.  An entry takes the place of its  *)
(* index, and what was there, and behind it, goes.                         *)
Put(l, m) == Append(SubSeq(l, 1, Index[m] - 1), m)

Fits(m) == Index[m] <= Len(memlog) + 1

Reading == phase = "open" /\ read < Len(wal)

ReadRecord ==
    /\ Reading /\ Fits(wal[read + 1])
    /\ memlog' = Put(memlog, wal[read + 1])
    /\ read' = read + 1
    /\ UNCHANGED <<phase, disk, readErr, net, loop, hist>>

(* An entry that leaves a gap before it has no place: ReadAll returns an   *)
(* error, that Fatalf writes to the log, and replayWAL goes on with no     *)
(* entries.                                                                *)
ReadFails ==
    /\ Reading /\ ~Fits(wal[read + 1])
    /\ memlog' = <<>> /\ readErr' = TRUE
    /\ phase' = "running"
    /\ UNCHANGED <<disk, read, net, loop, hist>>

(* The end of replayWAL, and the loop of Start begins.                     *)
ReplayWAL ==
    /\ phase = "open" /\ read = Len(wal)
    /\ phase' = "running"
    /\ UNCHANGED <<disk, replay, net, loop, hist>>

(* The process ends.  Only the disk stays.                                 *)
Die ==
    /\ phase' = "down"
    /\ read' = 0 /\ readErr' = FALSE /\ memlog' = <<>>
    /\ worker' = [p \in Peer |-> "none"]
    /\ connected' = [p \in Peer |-> FALSE]
    /\ stream' = [p \in Peer |-> "none"]
    /\ pc' = [m \in Msg |-> IF pc[m] = "away" THEN "away" ELSE "done"]
    /\ qcLock' = None /\ events' = {}
    /\ before' = handled
    /\ UNCHANGED <<disk, peerUp, failed, handled>>

(* It is killed, or ReadAll panics at a gap instead of returning an error. *)
Crash ==
    /\ Up /\ crashes < MaxCrashes
    /\ crashes' = crashes + 1
    /\ Die

ReadPanics ==
    /\ Reading /\ ~Fits(wal[read + 1])
    /\ Die
    /\ UNCHANGED crashes

-----------------------------------------------------------------------------
(* Connections.                                                            *)

(* One attempt of a worker: NewBroadcastClient, that dials and calls       *)
(* Handshake.  It ends in the loop of Recv, or in the next attempt.        *)
DialOK(p) == peerUp[p] /\ ClientOK(TlsOpts[p]) /\ Trusts(TlsOpts[p])

Connect(p) ==
    /\ Up /\ worker[p] = "dial" /\ DialOK(p)
    /\ worker' = [worker EXCEPT ![p] = "recv"]
    /\ connected' = [connected EXCEPT ![p] = TRUE]
    /\ stream' = [stream EXCEPT ![p] = "open"]
    /\ UNCHANGED <<phase, disk, replay, peerUp, loop, hist>>

(* Recv returns a message, and a goroutine takes it to the queue.          *)
Recv(m) ==
    /\ worker[From[m]] = "recv" /\ pc[m] = "away"
    /\ pc' = [pc EXCEPT ![m] = "queue"]
    /\ UNCHANGED <<phase, disk, replay, net, qcLock, events, hist>>

BrokeAndStale(p) ==
    /\ worker[p] = "recv" /\ stream[p] = "broken"
    /\ worker' = [worker EXCEPT ![p] = "dial"]
    /\ stream' = [stream EXCEPT ![p] = "none"]
    /\ UNCHANGED <<phase, disk, replay, peerUp, connected, loop, hist>>

BrokeAndLeft(p) ==
    /\ worker[p] = "recv" /\ stream[p] = "broken"
    /\ worker' = [worker EXCEPT ![p] = "none"]
    /\ connected' = [connected EXCEPT ![p] = FALSE]
    /\ stream' = [stream EXCEPT ![p] = "none"]
    /\ UNCHANGED <<phase, disk, replay, peerUp, loop, hist>>

(* Recv returns an error: connect again.                                   *)
Broke(p) ==
    /\ worker[p] = "recv" /\ stream[p] = "broken"
    /\ worker' = [worker EXCEPT ![p] = "dial"]
    /\ connected' = [connected EXCEPT ![p] = FALSE]
    /\ stream' = [stream EXCEPT ![p] = "none"]
    /\ UNCHANGED <<phase, disk, replay, peerUp, loop, hist>>

(* The other replica starts or stops, or the network breaks the stream.    *)
Lose(p) == stream' = [stream EXCEPT ![p] = IF @ = "open" THEN "broken" ELSE @]

PeerStart(p) ==
    /\ ~peerUp[p] /\ ServerOK(TlsOpts[p])
    /\ peerUp' = [peerUp EXCEPT ![p] = TRUE]
    /\ UNCHANGED <<phase, disk, replay, worker, connected, stream, loop, hist>>

PeerStop(p) ==
    /\ peerUp[p]
    /\ peerUp' = [peerUp EXCEPT ![p] = FALSE]
    /\ Lose(p)
    /\ UNCHANGED <<phase, disk, replay, worker, connected, loop, hist>>

BreakStream(p) ==
    /\ stream[p] = "open"
    /\ Lose(p)
    /\ UNCHANGED <<phase, disk, replay, peerUp, worker, connected, loop, hist>>

-----------------------------------------------------------------------------
(* The loop of Start, and the goroutines it starts.                        *)

(* handleMessage: a proposal is saved first; a view change has OnNewView   *)
(* send an event; a vote goes to the core; a forwarded command goes to the *)
(* pacemaker, and nothing is done with another message.                    *)
FirstStep(kind) ==
    CASE kind = "proposal"   -> "save"
      [] kind = "viewChange" -> "notify"
      [] kind = "vote"       -> "core"
      [] kind = "forward"    -> "submit"
      [] OTHER               -> "done"

Dispatch(m) ==
    /\ phase = "running" /\ pc[m] = "queue"
    /\ pc' = [pc EXCEPT ![m] = FirstStep(Kind[m])]
    /\ UNCHANGED <<phase, disk, replay, net, qcLock, events, hist>>

(* handleForward: Submit sends the command to submitC, once there is room  *)
(* (see RoundRobinPM).                                                     *)
Submit(m) ==
    /\ pc[m] = "submit"
    /\ pc' = [pc EXCEPT ![m] = "done"]
    /\ UNCHANGED <<phase, disk, replay, net, qcLock, events, hist>>

(* handleProposal: wal.Save.  When it fails, logger.Fatal writes to the log*)
(* and the handler goes on.                                                *)
Save(m) ==
    /\ pc[m] = "save"
    /\ pc' = [pc EXCEPT ![m] = "core"]
    /\ \/ wal' = Append(wal, m) /\ UNCHANGED failed
       \/ failed' = failed \cup {m} /\ UNCHANGED wal
    /\ UNCHANGED <<phase, waldir, replay, net, qcLock, events, handled, before, crashes>>

(* The core gets the message.  UpdateHighestQC takes qcLock, and sends its *)
(* event with it.                                                          *)
Core(m) ==
    /\ pc[m] = "core" /\ qcLock = None
    /\ pc' = [pc EXCEPT ![m] = "notify"]
    /\ qcLock' = m
    /\ handled' = IF Kind[m] = "proposal" THEN handled \cup {m} ELSE handled
    /\ UNCHANGED <<phase, disk, replay, net, events, failed, before, crashes>>

TakeEventInline(m) ==
    /\ phase = "running" /\ pc[m] = "notify"
    /\ qcLock = None
    /\ pc' = [pc EXCEPT ![m] = "done"]
    /\ UNCHANGED <<phase, disk, replay, net, qcLock, events, hist>>

(* The loop receives the event from notifyChan and starts a goroutine.     *)
TakeEvent(m) ==
    /\ phase = "running" /\ pc[m] = "notify"
    /\ pc' = [pc EXCEPT ![m] = "done"]
    /\ qcLock' = IF qcLock = m THEN None ELSE qcLock
    /\ events' = events \cup {m}
    /\ UNCHANGED <<phase, disk, replay, net, hist>>

(* ExecuteEvent: the pacemaker asks the core for its highest QC.           *)
ExecuteEvent(m) ==
    /\ m \in events /\ qcLock = None
    /\ events' = events \ {m}
    /\ UNCHANGED <<phase, disk, replay, net, pc, qcLock, hist>>

-----------------------------------------------------------------------------
Handle(m) ==
    Dispatch(m) \/ Save(m) \/ Core(m) \/ TakeEvent(m) \/ ExecuteEvent(m)

Next ==
    \/ Boot \/ Mkdir \/ CreateWal
    \/ ReadRecord \/ ReadFails \/ ReadPanics \/ ReplayWAL \/ Crash
    \/ \E p \in Peer :
          \/ Connect(p) \/ Broke(p)
          \/ PeerStart(p) \/ PeerStop(p) \/ BreakStream(p)
    \/ \E m \in Msg :
          Recv(m) \/ Handle(m) \/ Submit(m)

(* Of the goroutines that can run one does, which is less than Go promises *)
(* and enough where a run has finitely many messages.  A process that died *)
(* is started again.  Nothing is assumed of Submit: submitC may stay full. *)
Fairness ==
    /\ WF_vars(Boot \/ Mkdir \/ CreateWal \/ ReadRecord \/ ReadFails \/ ReplayWAL)
    /\ \A p \in Peer : WF_vars(Connect(p)) /\ WF_vars(Broke(p))
    /\ WF_vars(\E m \in Msg : Handle(m))

Spec == Init /\ [][Next]_vars /\ Fairness

-----------------------------------------------------------------------------
(* Properties.                                                             *)

Logged(l) == {l[i] : i \in DOMAIN l}

(* A later entry took the place of m, or one before it.                    *)
Overwritten(m) ==
    \E i, j \in DOMAIN wal : i < j /\ wal[i] = m /\ Index[wal[j]] <= Index[m]

(* The log is written ahead: a proposal that the core got, in this life of *)
(* the process or an earlier one, is on disk.  Once the loop runs, one of  *)
(* an earlier life is in the MemoryStorage, that has every entry in the    *)
(* place of its height, unless a later one of at most this height was saved*)
(* or ReadAll met a gap.  Where Save failed handleProposal only writes to  *)
(* the log.                                                                *)
WriteAhead ==
    /\ handled \subseteq Logged(wal) \cup failed
    /\ \A i \in DOMAIN memlog : Index[memlog[i]] = i
    /\ phase = "running" /\ ~readErr =>
          \A m \in before \ failed : m \in Logged(memlog) \/ Overwritten(m)

(* What Recv returned is handled, with the events it raises, unless the    *)
(* process dies: no handler, loop and event goroutine wait for each other  *)
(* over notifyChan and qcLock (consensus.go:339), and again and again none *)
(* is left.  Only a forwarded command may wait, for room in submitC.       *)
ReceivedHandled ==
    []<>(events = {} /\ \A m \in Msg : pc[m] \in {"away", "submit", "done"})

(* A worker never gives up: while both replicas stay up, the stream is     *)
(* there again and again, whatever breaks it.                              *)
Reconnects ==
    \A p \in Peer :
        (ClientOK(TlsOpts[p]) /\ Trusts(TlsOpts[p])) =>
            (<>[](Up /\ peerUp[p]) => []<>connected[p])

(* Every entry stands at most one above the one saved before it: there is  *)
(* no gap for ReadAll to meet.                                             *)
NoGap(l) ==
    \A i \in DOMAIN l : Index[l[i]] <= 1 + (IF i = 1 THEN 0 ELSE Index[l[i - 1]])

(* A process that was killed at any point of its start gets to the loop    *)
(* when it is started again, with its log replayed unless that has a gap.  *)
Restarts ==
    phase = "boot" ~> (phase = "down" \/ (phase = "running" /\ (NoGap(wal) => ~readErr)))
=============================================================================
