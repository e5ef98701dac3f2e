----------------------------- MODULE NodeProofs -----------------------------
(***************************************************************************)
(* Proofs about Node: the types, with what they say of qcLock and of       *)
(* Connected, and that the log is written ahead, for any messages and any  *)
(* number of crashes at any point.                                         *)
(*                                                                         *)
(* WriteAhead is not inductive.  handled may grow only because a proposal  *)
(* that stands before the core went through Save (SavedFirst); wal may be  *)
(* made anew, empty, by CreateWal only because a process without a log has *)
(* handled nothing (EmptyWhileNoWal), and because a handler runs only once *)
(* the log is open (HandledWhileRunning, PhaseOfWal).  And at the end of   *)
(* ReadAll the log is in MemoryStorage only because every record that was  *)
(* read is in its place or was overwritten (ReadSoFar).                    *)
(***************************************************************************)
EXTENDS Node, TLAPS

(* The workers end with the process.                                       *)
NoWorkerDown == phase = "down" => \A p \in Peer : worker[p] = "none"

(* wal.Save comes before the core gets a proposal.                         *)
SavedFirst ==
    \A m \in Msg : Kind[m] = "proposal" /\ pc[m] = "core" =>
        m \in Logged(wal) \cup failed

(* A handler is under way only when the loop of Start runs.                *)
HandledWhileRunning == \A m \in Msg : pc[m] \in Handling => phase = "running"

(* openWAL has a log in the directory when replayWAL begins, and found none*)
(* when it creates one.                                                    *)
PhaseOfWal ==
    /\ phase \in {"open", "running"} => waldir = "wal"
    /\ phase = "create" => waldir # "wal"

(* A process that never had a log has handled nothing.                     *)
EmptyWhileNoWal == waldir # "wal" => handled = {}

BeforeHandled == before \subseteq handled

(* What ReadAll has read is in its place, or a later record of at most its *)
(* index has been read too.                                                *)
Superseded(i, n) == \E j \in 1..n : i < j /\ Index[wal[j]] <= Index[wal[i]]

ReadSoFar ==
    /\ phase = "open" =>
          \A i \in 1..read : wal[i] \in Logged(memlog) \/ Superseded(i, read)
    /\ phase \notin {"open", "running"} => read = 0 /\ memlog = <<>> /\ ~readErr
    /\ phase = "open" => ~readErr

Inv ==
    /\ TypeOK
    /\ NoWorkerDown
    /\ SavedFirst
    /\ HandledWhileRunning
    /\ PhaseOfWal
    /\ EmptyWhileNoWal
    /\ BeforeHandled
    /\ ReadSoFar
    /\ WriteAhead

-----------------------------------------------------------------------------
(* What is appended to a log is logged, and nothing is lost.               *)
LEMMA AppendLogged ==
  ASSUME NEW l \in Seq(Msg), NEW m \in Msg
  PROVE  Logged(Append(l, m)) = Logged(l) \cup {m}
  <1>1. /\ DOMAIN l = 1..Len(l) /\ Len(l) \in Nat
        /\ DOMAIN Append(l, m) = 1..(Len(l) + 1)
        /\ \A i \in 1..Len(l) : Append(l, m)[i] = l[i]
        /\ Append(l, m)[Len(l) + 1] = m
    OBVIOUS
  <1>2. ASSUME NEW x \in Logged(Append(l, m)) PROVE x \in Logged(l) \cup {m}
    <2>1. PICK i \in 1..(Len(l) + 1) : x = Append(l, m)[i]
      BY <1>1 DEF Logged
    <2>2. CASE i \in 1..Len(l) BY <2>1, <2>2, <1>1 DEF Logged
    <2>3. CASE i = Len(l) + 1 BY <2>1, <2>3, <1>1
    <2> QED BY <2>2, <2>3, <1>1
  <1>3. ASSUME NEW x \in Logged(l) \cup {m} PROVE x \in Logged(Append(l, m))
    <2>1. CASE x = m
      <3>1. Len(l) + 1 \in DOMAIN Append(l, m) BY <1>1
      <3> QED BY <2>1, <3>1, <1>1 DEF Logged
    <2>2. CASE x \in Logged(l)
      <3>1. PICK i \in 1..Len(l) : x = l[i] BY <1>1, <2>2 DEF Logged
      <3>2. i \in DOMAIN Append(l, m) /\ Append(l, m)[i] = x BY <1>1, <3>1
      <3> QED BY <3>2 DEF Logged
    <2> QED BY <1>3, <2>1, <2>2
  <1> QED BY <1>2, <1>3

-----------------------------------------------------------------------------
(* The initial state: the process is down and there is no directory.       *)
LEMMA InitInv == Init => Inv
  <1> SUFFICES ASSUME Init PROVE Inv
    OBVIOUS
  <1>1. TypeOK
    <2>1. wal \in Seq(Msg) /\ memlog \in Seq(Msg) /\ read \in 0..Len(wal)
      BY DEF Init
    <2>2. crashes \in 0..MaxCrashes BY NodeAssumption DEF Init
    <2>3. readErr \in BOOLEAN BY DEF Init
    <2> QED BY <2>1, <2>2, <2>3 DEF Init, TypeOK, Pc
  <1> QED
    BY <1>1
    DEF Init, Inv, NoWorkerDown, SavedFirst, HandledWhileRunning, PhaseOfWal,
        EmptyWhileNoWal, BeforeHandled, ReadSoFar, WriteAhead, Handling

(* The steps of startNode before the log is read.                          *)
LEMMA StartInv ==
  ASSUME Inv, Boot \/ Mkdir \/ CreateWal
  PROVE  Inv'
  <1> USE NodeAssumption
      DEF Inv, TypeOK, NoWorkerDown, SavedFirst, HandledWhileRunning, PhaseOfWal,
          EmptyWhileNoWal, BeforeHandled, ReadSoFar, WriteAhead, Logged, disk, replay,
          net, loop, hist, Handling
  <1>1. CASE Boot BY <1>1 DEF Boot
  <1>2. CASE Mkdir BY <1>2 DEF Mkdir, WalExist, Superseded
  <1>3. CASE CreateWal BY <1>3 DEF CreateWal, Superseded
  <1> QED BY <1>1, <1>2, <1>3

(* An entry that ReadAll puts in the place of its index cuts off just what *)
(* has this index or a higher one.                                         *)
LEMMA PutInPlace ==
  ASSUME NEW l \in Seq(Msg), NEW m \in Msg, Index[m] <= Len(l) + 1,
         \A i \in DOMAIN l : Index[l[i]] = i
  PROVE  /\ Put(l, m) \in Seq(Msg)
         /\ \A i \in DOMAIN Put(l, m) : Index[Put(l, m)[i]] = i
         /\ m \in Logged(Put(l, m))
         /\ \A x \in Logged(l) : Index[x] < Index[m] => x \in Logged(Put(l, m))
  <1> DEFINE n == Index[m]
             k == Put(l, m)
  <1>1. n \in Nat /\ n >= 1 BY NodeAssumption
  <1>2. /\ Len(l) \in Nat /\ DOMAIN l = 1..Len(l)
        /\ \A i \in 1..Len(l) : l[i] \in Msg
    OBVIOUS
  <1> DEFINE c == SubSeq(l, 1, n - 1)
  <1>3. /\ c \in Seq(Msg) /\ Len(c) = n - 1
        /\ \A i \in 1..(n - 1) : c[i] = l[i]
    <2>1. n - 1 \in 0..Len(l) BY <1>1, <1>2
    <2>2. \A i \in 1..(n - 1) : i \in 1..Len(l) BY <2>1, <1>2
    <2> QED BY <1>1, <1>2, <2>1, <2>2
  <1>4. k = Append(c, m) BY DEF Put
  <1> HIDE DEF c, k
  <1>5. /\ k \in Seq(Msg) /\ DOMAIN k = 1..n /\ k[n] = m
        /\ \A i \in 1..(n - 1) : k[i] = l[i]
    BY <1>1, <1>3, <1>4
  <1>6. n \in DOMAIN k BY <1>1, <1>5
  <1>7. m \in Logged(k) BY <1>5, <1>6 DEF Logged
  <1>8. ASSUME NEW i \in DOMAIN k PROVE Index[k[i]] = i
    <2>1. CASE i = n BY <2>1, <1>5
    <2>2. CASE i # n
      <3>1. i \in 1..(n - 1) /\ i \in DOMAIN l BY <2>2, <1>1, <1>2, <1>5
      <3> QED BY <3>1, <1>5
    <2> QED BY <2>1, <2>2
  <1>9. ASSUME NEW x \in Logged(l), Index[x] < Index[m] PROVE x \in Logged(k)
    <2>1. PICK i \in DOMAIN l : x = l[i] BY DEF Logged
    <2>2. Index[x] = i BY <2>1
    <2>3. i \in 1..(n - 1) BY <2>2, <1>1, <1>2, <1>9
    <2>4. i \in DOMAIN k /\ k[i] = x BY <2>1, <2>3, <1>1, <1>5
    <2> QED BY <2>4 DEF Logged
  <1> QED BY <1>5, <1>7, <1>8, <1>9 DEF k

(* ReadAll reads one more record.                                          *)
LEMMA ReadInv ==
  ASSUME Inv, ReadRecord
  PROVE  Inv'
  <1> DEFINE m == wal[read + 1]
  <1>1. /\ phase = "open" /\ read \in Nat /\ read < Len(wal) /\ Len(wal) \in Nat
        /\ read' = read + 1 /\ wal \in Seq(Msg)
        /\ Fits(m) /\ memlog' = Put(memlog, m)
        /\ UNCHANGED <<phase, disk, readErr, net, loop, hist>>
    BY DEF Inv, TypeOK, ReadRecord, Reading
  <1>2. m \in Msg /\ \A i \in 1..Len(wal) : wal[i] \in Msg BY <1>1
  <1> HIDE DEF m
  <1>3. /\ memlog' \in Seq(Msg)
        /\ \A i \in DOMAIN memlog' : Index[memlog'[i]] = i
        /\ m \in Logged(memlog')
        /\ \A x \in Logged(memlog) : Index[x] < Index[m] => x \in Logged(memlog')
    <2>1. /\ memlog \in Seq(Msg) /\ \A i \in DOMAIN memlog : Index[memlog[i]] = i
          /\ Index[m] <= Len(memlog) + 1
      BY <1>1 DEF Inv, TypeOK, WriteAhead, Fits
    <2> QED BY <1>1, <1>2, <2>1, PutInPlace
  <1>4. ASSUME NEW i \in 1..(read + 1)
        PROVE  wal[i] \in Logged(memlog') \/ Superseded(i, read + 1)
    <2>1. CASE i = read + 1 BY <2>1, <1>3 DEF m
    <2>2. CASE i \in 1..read
      <3>1. i < read + 1 /\ read + 1 \in 1..(read + 1) /\ i \in 1..Len(wal)
        BY <1>1, <2>2
      <3>2. Index[m] \in Nat /\ Index[wal[i]] \in Nat
        BY <1>2, <3>1, NodeAssumption
      <3>3. CASE Superseded(i, read)
        <4>1. PICK j \in 1..read : i < j /\ Index[wal[j]] <= Index[wal[i]]
          BY <3>3 DEF Superseded
        <4>2. j \in 1..(read + 1) BY <1>1, <4>1
        <4> QED BY <4>1, <4>2 DEF Superseded
      <3>4. CASE wal[i] \in Logged(memlog) /\ Index[m] <= Index[wal[i]]
        BY <3>1, <3>4 DEF Superseded, m
      <3>5. CASE wal[i] \in Logged(memlog) /\ Index[wal[i]] < Index[m]
        BY <3>5, <1>3
      <3> QED BY <3>2, <3>3, <3>4, <3>5, <2>2, <1>1 DEF Inv, ReadSoFar
    <2> QED BY <2>1, <2>2, <1>1
  <1>5. ReadSoFar'
    BY <1>1, <1>4 DEF Inv, ReadSoFar, Superseded, disk
  <1>6. TypeOK'
    BY <1>1, <1>3 DEF Inv, TypeOK, disk, net, loop, hist
  <1>7. WriteAhead'
    BY <1>1, <1>3 DEF Inv, WriteAhead, disk, hist
  <1> QED
    BY <1>1, <1>5, <1>6, <1>7
    DEF Inv, NoWorkerDown, SavedFirst, HandledWhileRunning, PhaseOfWal, EmptyWhileNoWal,
        BeforeHandled, disk, net, loop, hist, Handling

(* ReadAll ends: at the last record, all of the log is there or was        *)
(* overwritten; at a gap there is none.                                    *)
LEMMA ReplayInv ==
  ASSUME Inv, ReplayWAL \/ ReadFails
  PROVE  Inv'
  <1>1. TypeOK' /\ ReadSoFar'
    <2>1. CASE ReplayWAL
      BY <2>1 DEF ReplayWAL, Inv, TypeOK, ReadSoFar, disk, replay, net, loop, hist
    <2>2. CASE ReadFails
      BY <2>2 DEF ReadFails, Inv, TypeOK, ReadSoFar, disk, net, loop, hist
    <2> QED BY <2>1, <2>2
  <1>2. WriteAhead'
    <2>1. CASE ReplayWAL
      <3>1. ASSUME NEW m \in before \ failed
            PROVE  m \in Logged(memlog) \/ Overwritten(m)
        <4>1. m \in Logged(wal) BY DEF Inv, BeforeHandled, WriteAhead
        <4>2. wal \in Seq(Msg) /\ DOMAIN wal = 1..Len(wal) /\ read = Len(wal)
              /\ phase = "open"
          BY <2>1 DEF Inv, TypeOK, ReplayWAL
        <4>3. PICK i \in 1..Len(wal) : m = wal[i] BY <4>1, <4>2 DEF Logged
        <4>4. wal[i] \in Logged(memlog) \/ Superseded(i, Len(wal))
          BY <4>2 DEF Inv, ReadSoFar
        <4> QED BY <4>2, <4>3, <4>4 DEF Superseded, Overwritten
      <3> QED
        BY <3>1, <2>1
        DEF ReplayWAL, Inv, WriteAhead, Overwritten, disk, replay, hist
    <2>2. CASE ReadFails
      BY <2>2 DEF ReadFails, Inv, WriteAhead, disk, hist
    <2> QED BY <2>1, <2>2
  <1>3. phase = "open" /\ phase' = "running" /\ UNCHANGED <<disk, net, loop, hist>>
    BY DEF ReplayWAL, ReadFails, Reading
  <1> QED
    BY <1>1, <1>2, <1>3
    DEF Inv, NoWorkerDown, SavedFirst, HandledWhileRunning, PhaseOfWal, EmptyWhileNoWal,
        BeforeHandled, disk, net, loop, hist

(* The process is killed or panics: the log and what was handled stay.     *)
LEMMA CrashInv ==
  ASSUME Inv, Crash \/ ReadPanics
  PROVE  Inv'
  <1> USE NodeAssumption DEF Inv, disk
  <1>1. Die /\ crashes' \in 0..MaxCrashes BY DEF Crash, ReadPanics, TypeOK
  <1>2. TypeOK'
    <2>1. <<>> \in Seq(Msg) /\ 0 \in 0..Len(wal) BY DEF TypeOK
    <2> QED BY <1>1, <2>1 DEF Die, TypeOK, Pc
  <1>3. \A m \in Msg : pc'[m] \notin Handling BY <1>1 DEF Die, TypeOK, Handling
  <1> QED
    BY <1>1, <1>2, <1>3
    DEF Die, NoWorkerDown, SavedFirst, HandledWhileRunning, PhaseOfWal, EmptyWhileNoWal,
        BeforeHandled, ReadSoFar, WriteAhead, Handling

(* The connections leave the messages alone.                               *)
LEMMA NetInv ==
  ASSUME Inv, NEW p \in Peer,
         Connect(p) \/ Broke(p) \/ PeerStart(p) \/ PeerStop(p) \/ BreakStream(p)
  PROVE  Inv'
  <1> USE NodeAssumption DEF Inv
  <1>1. UNCHANGED <<phase, disk, replay, loop, hist>>
    BY DEF Connect, Broke, PeerStart, PeerStop, BreakStream
  <1>2. TypeOK'
    <2>1. /\ peerUp' \in [Peer -> BOOLEAN] /\ connected' \in [Peer -> BOOLEAN]
          /\ worker' \in [Peer -> {"none", "dial", "recv"}]
          /\ stream' \in [Peer -> {"none", "open", "broken"}]
          /\ \A q \in Peer : connected'[q] <=> worker'[q] = "recv"
      <3>1. CASE Connect(p) BY <3>1 DEF Connect, TypeOK
      <3>2. CASE Broke(p) BY <3>2 DEF Broke, TypeOK
      <3>3. CASE PeerStart(p) BY <3>3 DEF PeerStart, TypeOK
      <3>4. CASE PeerStop(p) \/ BreakStream(p)
        BY <3>4 DEF PeerStop, BreakStream, Lose, TypeOK
      <3> QED BY <3>1, <3>2, <3>3, <3>4
    <2> QED BY <1>1, <2>1 DEF TypeOK, disk, replay, loop, hist
  <1>3. NoWorkerDown'
    BY <1>1 DEF NoWorkerDown, Connect, Broke, PeerStart, PeerStop, BreakStream,
                TypeOK, Up
  <1> QED
    BY <1>1, <1>2, <1>3
    DEF SavedFirst, HandledWhileRunning, PhaseOfWal, EmptyWhileNoWal, BeforeHandled,
        ReadSoFar, Superseded, WriteAhead, Overwritten, disk, replay, loop, hist

(* A message on its way: a proposal goes to Save before it gets to the     *)
(* core, and it is in the log or its Save failed when it does.             *)
LEMMA MessageInv ==
  ASSUME Inv, NEW m \in Msg,
         Recv(m) \/ Handle(m) \/ Submit(m)
  PROVE  Inv'
  <1> USE NodeAssumption DEF Inv
  <1>u. ASSUME UNCHANGED <<phase, disk, replay, net, hist>>, TypeOK',
               \A k \in Msg : pc'[k] \in Handling => phase = "running",
               \A k \in Msg : Kind[k] = "proposal" /\ pc'[k] = "core" => pc[k] = "core"
        PROVE  Inv'
    BY <1>u
    DEF NoWorkerDown, SavedFirst, HandledWhileRunning, PhaseOfWal, EmptyWhileNoWal,
        BeforeHandled, ReadSoFar, Superseded, WriteAhead, Overwritten, disk, replay,
        net, hist
  <1>1. CASE Submit(m)
    <2>1. TypeOK' BY <1>1 DEF Submit, TypeOK, Pc, disk, replay, net, hist
    <2> QED BY <2>1, <1>1, <1>u DEF Submit, TypeOK, HandledWhileRunning, Handling
  <1>2. CASE Recv(m)
    <2>1. TypeOK' BY <1>2 DEF Recv, TypeOK, Pc, disk, replay, net, hist
    <2> QED BY <2>1, <1>2, <1>u DEF Recv, TypeOK, HandledWhileRunning, Handling
  <1>3. CASE Dispatch(m)
    <2>1. FirstStep(Kind[m]) \in Pc /\ (Kind[m] = "proposal" => FirstStep(Kind[m]) = "save")
      BY DEF FirstStep, Pc, Handling, MsgKind
    <2>2. TypeOK' BY <2>1, <1>3 DEF Dispatch, TypeOK, disk, replay, net, hist
    <2> QED BY <2>1, <2>2, <1>3, <1>u DEF Dispatch, TypeOK, HandledWhileRunning
  <1>4. CASE Save(m)
    <2>1. wal' \in Seq(Msg) /\ Logged(wal) \subseteq Logged(wal') /\ failed \subseteq failed'
          /\ m \in Logged(wal') \cup failed'
          /\ DOMAIN wal \subseteq DOMAIN wal' /\ \A i \in DOMAIN wal : wal'[i] = wal[i]
          /\ Len(wal) <= Len(wal')
      <3>1. CASE wal' = Append(wal, m) /\ failed' = failed
        <4>1. wal \in Seq(Msg) BY DEF TypeOK
        <4>2. wal' \in Seq(Msg) BY <3>1, <4>1
        <4>3. Logged(wal') = Logged(wal) \cup {m} BY <3>1, <4>1, AppendLogged
        <4>4. /\ DOMAIN wal \subseteq DOMAIN wal' /\ Len(wal) <= Len(wal')
              /\ \A i \in DOMAIN wal : wal'[i] = wal[i]
          BY <3>1, <4>1
        <4> QED BY <3>1, <4>2, <4>3, <4>4
      <3>2. CASE failed' = failed \cup {m} /\ wal' = wal
        BY <3>2 DEF TypeOK
      <3> QED BY <3>1, <3>2, <1>4 DEF Save
    <2>2. TypeOK'
      <3>1. read \in 0..Len(wal') BY <2>1 DEF TypeOK
      <3> QED BY <2>1, <3>1, <1>4 DEF Save, TypeOK, Pc, Handling, replay, net
    <2>3. \A k \in Msg : pc'[k] # pc[k] => k = m
      BY <1>4 DEF Save, TypeOK
    <2>4. SavedFirst'
      BY <2>1, <2>3, <1>4 DEF Save, SavedFirst, TypeOK
    <2>5. \A k \in Msg : Overwritten(k) => Overwritten(k)'
      BY <2>1 DEF Overwritten
    <2>6. WriteAhead'
      BY <2>1, <2>5, <1>4 DEF Save, WriteAhead, replay, TypeOK
    <2>7. phase = "running" BY <1>4 DEF Save, HandledWhileRunning, Handling
    <2> QED
      BY <2>2, <2>3, <2>4, <2>6, <2>7, <1>4
      DEF Save, NoWorkerDown, HandledWhileRunning, PhaseOfWal, EmptyWhileNoWal,
          BeforeHandled, ReadSoFar, net, Handling
  <1>5. CASE Core(m)
    <2>1. TypeOK' BY <1>5 DEF Core, TypeOK, Pc, Handling, disk, replay, net
    <2>2. phase = "running" /\ waldir = "wal"
      BY <1>5 DEF Core, HandledWhileRunning, Handling, PhaseOfWal
    <2>3. handled' \subseteq Logged(wal) \cup failed /\ handled \subseteq handled'
      BY <1>5 DEF Core, SavedFirst, WriteAhead
    <2> QED
      BY <2>1, <2>2, <2>3, <1>5
      DEF Core, NoWorkerDown, SavedFirst, HandledWhileRunning, PhaseOfWal, WriteAhead,
          Overwritten, EmptyWhileNoWal, BeforeHandled, ReadSoFar, disk, replay, net,
          Handling, TypeOK
  <1>6. CASE TakeEvent(m)
    <2>1. TypeOK' BY <1>6 DEF TakeEvent, TypeOK, Pc, Handling, disk, replay, net, hist
    <2> QED BY <2>1, <1>6, <1>u DEF TakeEvent, TypeOK, HandledWhileRunning, Handling
  <1>7. CASE ExecuteEvent(m)
    <2>1. TypeOK' BY <1>7 DEF ExecuteEvent, TypeOK, disk, replay, net, hist
    <2> QED BY <2>1, <1>7, <1>u DEF ExecuteEvent, HandledWhileRunning
  <1> QED BY <1>1, <1>2, <1>3, <1>4, <1>5, <1>6, <1>7 DEF Handle

(* The inductive step.                                                     *)
LEMMA NextInv == Inv /\ [Next]_vars => Inv'
  <1> SUFFICES ASSUME Inv, [Next]_vars PROVE Inv'
    OBVIOUS
  <1>1. CASE Boot \/ Mkdir \/ CreateWal BY <1>1, StartInv
  <1>2. CASE Crash \/ ReadPanics BY <1>2, CrashInv
  <1>6. CASE ReadRecord BY <1>6, ReadInv
  <1>7. CASE ReplayWAL \/ ReadFails BY <1>7, ReplayInv
  <1>3. CASE \E p \in Peer :
               Connect(p) \/ Broke(p) \/ PeerStart(p) \/ PeerStop(p) \/ BreakStream(p)
    BY <1>3, NetInv
  <1>4. CASE \E m \in Msg : Recv(m) \/ Handle(m) \/ Submit(m)
    BY <1>4, MessageInv
  <1>5. CASE UNCHANGED vars
    BY <1>5
    DEF vars, disk, replay, net, loop, hist, Inv, TypeOK, NoWorkerDown, SavedFirst,
        HandledWhileRunning, PhaseOfWal, EmptyWhileNoWal, BeforeHandled, ReadSoFar,
        Superseded, WriteAhead, Overwritten
  <1> QED BY <1>1, <1>2, <1>3, <1>4, <1>5, <1>6, <1>7 DEF Next

(* The invariant holds in every reachable state.                           *)
LEMMA InvHolds == Spec => []Inv
  BY InitInv, NextInv, PTL DEF Spec

-----------------------------------------------------------------------------
(* The types; qcLock is held only by a handler that sends its event, and   *)
(* Connected is true of exactly the peers whose worker is in its Recv loop.*)
THEOREM TypeCorrect == Spec => []TypeOK
  <1>1. Inv => TypeOK BY DEF Inv
  <1> QED BY InvHolds, <1>1, PTL

(* handleProposal writes ahead: what the core ever got is on disk unless   *)
(* its Save failed, and what it got before the last crash is in its place  *)
(* of the MemoryStorage once the loop runs, unless a later entry of at most*)
(* its height was saved or ReadAll met a gap.                              *)
THEOREM LogWrittenAhead == Spec => []WriteAhead
  <1>1. Inv => WriteAhead BY DEF Inv
  <1> QED BY InvHolds, <1>1, PTL
=============================================================================
