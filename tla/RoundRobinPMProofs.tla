------------------------- MODULE RoundRobinPMProofs -------------------------
(***************************************************************************)
(* Proofs about RoundRobinPM, for every number of replicas, QCs, messages, *)
(* views and commands, and for any number of goroutines.                   *)
(*                                                                         *)
(* Most steps only move one goroutine on and touch neither the new-view    *)
(* messages nor the commands (Idle); one lemma shows that these keep the   *)
(* invariant.  What is left are the steps of OnBeat, of addNewViewMsg and  *)
(* clearViews, the one that lets a message be counted, and the inputs.     *)
(***************************************************************************)
EXTENDS RoundRobinPM, FiniteSetTheorems, TLAPS

-----------------------------------------------------------------------------
(* The goroutines.                                                         *)

(* The lines at which a calling method goes on.                            *)
Cont == {"vote", "nvgo", "nvfin", "clear"}

(* An OnBeat at these lines has a command in hand.                         *)
Holding == {"lead", "propose"}

(* Only the goroutine of an event about a QC may have the view of the      *)
(* genesis block, and no method waits for it.                              *)
Sound(t) ==
    /\ t \in Thread
    /\ t.then \in Seq(Cont)
    /\ t.view = -1 => t.at \in {"high", "qcf"} /\ t.then = <<>>

(* Neither has a command in hand nor is about to count a message.          *)
Quiet(t) == t.at \notin Holding \cup {"add"}

AllSound == \A t \in DOMAIN threads : Sound(t)

(* A new goroutine.                                                        *)
LEMMA NewSound ==
  ASSUME NEW l \in Label, NEW v \in View \cup {-1}, v = -1 => l \in {"high", "qcf"}
  PROVE  /\ Sound([New(l) EXCEPT !.view = v]) /\ [New(l) EXCEPT !.view = v].at = l
         /\ Sound(New(l)) /\ New(l).at = l
  <1>1. Self \in Replica /\ Genesis \in QC /\ 0 \in View
    BY PMAssumption DEF View
  <1>2. New(l) \in Thread /\ New(l).then \in Seq(Cont) /\ New(l).then = <<>>
        /\ New(l).at = l /\ New(l).view = 0
    BY <1>1 DEF New, Thread
  <1> QED BY <1>2 DEF Sound, Thread

(* A goroutine at another line.                                            *)
LEMMA AtSound ==
  ASSUME NEW t, Sound(t), t.view # -1, NEW l \in Label
  PROVE  Sound(At(t, l)) /\ At(t, l).at = l
  BY DEF Sound, At, Thread

(* A goroutine whose method returns.                                       *)
LEMMA ReturnsSound ==
  ASSUME NEW t, Sound(t), NEW s \in Returns(t)
  PROVE  Sound(s) /\ s.at \in Cont /\ Quiet(s)
  <1>1. t.then # <<>> /\ s = [t EXCEPT !.at = Head(t.then), !.then = Tail(t.then)]
    BY DEF Returns
  <1>2. t \in Thread /\ t.then \in Seq(Cont) /\ t.view # -1 BY <1>1 DEF Sound
  <1>3. Head(t.then) \in Cont /\ Tail(t.then) \in Seq(Cont) BY <1>1, <1>2
  <1>4. Cont \subseteq Label BY DEF Cont, Label
  <1>5. Tail(t.then) \in Seq(Label) BY <1>3, <1>4
  <1>6. s \in Thread /\ s.at = Head(t.then) /\ s.then = Tail(t.then) /\ s.view = t.view
    <2> HIDE DEF Thread
    <2>1. Head(t.then) \in Label BY <1>3, <1>4
    <2> DEFINE h == Head(t.then)
               r == Tail(t.then)
    <2>2. h \in Label /\ r \in Seq(Label) BY <1>5, <2>1
    <2> HIDE DEF h, r
    <2>3. s = [t EXCEPT !.at = h, !.then = r] BY <1>1 DEF h, r
    <2>4. s \in Thread /\ s.at = h /\ s.then = r /\ s.view = t.view
      BY <1>2, <2>2, <2>3 DEF Thread
    <2> QED BY <2>4 DEF h, r
  <1> QED BY <1>2, <1>3, <1>6 DEF Sound, Quiet, Holding, Cont

(* A goroutine that calls a method with c as the line to go on at.         *)
LEMMA CallSound ==
  ASSUME NEW t, Sound(t), t.view # -1, NEW l \in Label, NEW c \in Cont
  PROVE  LET s == [t EXCEPT !.at = l, !.then = <<c>> \o @]
         IN  Sound(s) /\ s.at = l
  <1> DEFINE th == <<c>> \o t.then
             s == [t EXCEPT !.at = l, !.then = th]
  <1>1. t \in Thread /\ t.then \in Seq(Cont) BY DEF Sound
  <1>2. th \in Seq(Cont) BY <1>1
  <1>3. Cont \subseteq Label BY DEF Cont, Label
  <1>4. th \in Seq(Label) BY <1>2, <1>3
  <1>5. [t EXCEPT !.at = l, !.then = <<c>> \o @] = s BY <1>1 DEF Thread
  <1> HIDE DEF th
  <1>6. s \in Thread /\ s.at = l /\ s.then = th /\ s.view = t.view
    BY <1>1, <1>4 DEF Thread
  <1> HIDE DEF s
  <1> QED BY <1>2, <1>5, <1>6 DEF Sound

-----------------------------------------------------------------------------
(* The bag.                                                                *)

(* The goroutines after a step of t are the old ones and the ones in S.    *)
LEMMA RunBag ==
  ASSUME NEW t, NEW S, IsABag(threads), Run(t, S)
  PROVE  /\ IsABag(threads')
         /\ DOMAIN threads' \subseteq DOMAIN threads \cup S
         /\ S \subseteq DOMAIN threads'
         /\ \A u \in DOMAIN threads \ ({t} \cup S) :
               u \in DOMAIN threads' /\ threads'[u] = threads[u]
  <1> DEFINE B == threads (-) SetToBag({t})
  <1>1. /\ IsABag(B) /\ DOMAIN B \subseteq DOMAIN threads
        /\ \A u \in DOMAIN threads \ {t} : u \in DOMAIN B /\ B[u] = threads[u]
    BY DEF IsABag, SetToBag, (-)
  <1>2. threads' = B (+) SetToBag(S) BY DEF Run
  <1> HIDE DEF B
  <1>3. /\ IsABag(B (+) SetToBag(S)) /\ DOMAIN (B (+) SetToBag(S)) = DOMAIN B \cup S
        /\ \A u \in DOMAIN B \ S : (B (+) SetToBag(S))[u] = B[u]
    BY <1>1 DEF IsABag, SetToBag, (+)
  <1> QED BY <1>1, <1>2, <1>3

(* A step that starts goroutines adds them and keeps the others.           *)
LEMMA SpawnBag ==
  ASSUME NEW S, IsABag(threads), Spawn(S)
  PROVE  /\ IsABag(threads')
         /\ DOMAIN threads' = DOMAIN threads \cup S
         /\ \A u \in DOMAIN threads \ S : threads'[u] = threads[u]
  BY DEF Spawn, IsABag, SetToBag, (+)

-----------------------------------------------------------------------------
(* The commands in hand.                                                   *)

(* One ticket for each goroutine of B that has a command in hand; InHand is*)
(* the number of tickets.                                                  *)
Tickets(B) ==
    UNION {{t} \X (1..B[t]) : t \in {u \in DOMAIN B : u.at \in Holding}}

(* What is a ticket: a goroutine with a command, and a number up to how    *)
(* many of it there are.                                                   *)
LEMMA TicketOf ==
  ASSUME NEW B, NEW w
  PROVE  w \in Tickets(B) <=>
            \E u \in DOMAIN B : /\ u.at \in Holding
                                /\ \E i \in 1..B[u] : w = <<u, i>>
  <1>1. ASSUME w \in Tickets(B)
        PROVE  \E u \in DOMAIN B : u.at \in Holding /\ \E i \in 1..B[u] : w = <<u, i>>
    <2>1. PICK u \in {u \in DOMAIN B : u.at \in Holding} : w \in {u} \X (1..B[u])
      BY <1>1 DEF Tickets
    <2>2. PICK a \in {u}, i \in 1..B[u] : w = <<a, i>> BY <2>1
    <2> QED BY <2>1, <2>2
  <1>2. ASSUME NEW u \in DOMAIN B, u.at \in Holding, NEW i \in 1..B[u], w = <<u, i>>
        PROVE  w \in Tickets(B)
    <2>1. w \in {u} \X (1..B[u]) BY <1>2
    <2> QED BY <1>2, <2>1 DEF Tickets
  <1> QED BY <1>1, <1>2

(* The commands in hand are counted by the tickets.                        *)
LEMMA InHandTickets == InHand = Cardinality(Tickets(threads))
  BY DEF InHand, Tickets, Holding

(* The tickets stay when the goroutines that have a command do.            *)
LEMMA SameTickets ==
  ASSUME NEW B, NEW C,
         \A u : u.at \in Holding =>
                   /\ u \in DOMAIN B <=> u \in DOMAIN C
                   /\ u \in DOMAIN B => B[u] = C[u]
  PROVE  Tickets(B) = Tickets(C)
  <1>1. ASSUME NEW w \in Tickets(B) PROVE w \in Tickets(C)
    BY TicketOf
  <1>2. ASSUME NEW w \in Tickets(C) PROVE w \in Tickets(B)
    BY TicketOf
  <1> QED BY <1>1, <1>2

(* One more ticket when a goroutine takes a command.                       *)
LEMMA OneMoreTicket ==
  ASSUME NEW B, IsABag(B), IsFiniteSet(Tickets(B)), NEW s, s.at \in Holding
  PROVE  /\ IsFiniteSet(Tickets(B (+) SetToBag({s})))
         /\ Cardinality(Tickets(B (+) SetToBag({s}))) = Cardinality(Tickets(B)) + 1
  <1> DEFINE C == B (+) SetToBag({s})
             n == IF s \in DOMAIN B THEN B[s] ELSE 0
  <1>1. /\ DOMAIN C = DOMAIN B \cup {s} /\ C[s] = n + 1
        /\ n \in Nat
        /\ \A u \in DOMAIN B \ {s} : C[u] = B[u]
    BY DEF IsABag, SetToBag, (+)
  <1>2. s \in DOMAIN B => B[s] = n OBVIOUS
  <1>3. s \notin DOMAIN B => n = 0 OBVIOUS
  <1> HIDE DEF C, n
  <1>4. Tickets(C) = Tickets(B) \cup {<<s, n + 1>>}
    <2>1. ASSUME NEW w \in Tickets(C) PROVE w \in Tickets(B) \cup {<<s, n + 1>>}
      <3>1. PICK u \in DOMAIN C : u.at \in Holding /\ \E i \in 1..C[u] : w = <<u, i>>
        BY TicketOf
      <3>2. PICK i \in 1..C[u] : w = <<u, i>> BY <3>1
      <3>3. CASE u # s BY <1>1, <3>1, <3>2, <3>3, TicketOf
      <3>4. CASE u = s
        <4>1. i \in 1..(n + 1) BY <1>1, <3>4
        <4>2. CASE i = n + 1 BY <3>2, <3>4, <4>2
        <4>3. CASE i # n + 1
          <5>1. i \in 1..n BY <1>1, <4>1, <4>3
          <5>2. s \in DOMAIN B BY <1>3, <5>1
          <5> QED BY <1>2, <3>1, <3>2, <3>4, <5>1, <5>2, TicketOf
        <4> QED BY <4>2, <4>3
      <3> QED BY <3>3, <3>4
    <2>2. ASSUME NEW w \in Tickets(B) PROVE w \in Tickets(C)
      <3>1. PICK u \in DOMAIN B : u.at \in Holding /\ \E i \in 1..B[u] : w = <<u, i>>
        BY TicketOf
      <3>2. PICK i \in 1..B[u] : w = <<u, i>> BY <3>1
      <3>3. CASE u # s BY <1>1, <3>1, <3>2, <3>3, TicketOf
      <3>4. CASE u = s
        <4>1. i \in 1..n BY <1>2, <3>4
        <4>2. i \in 1..C[u] BY <1>1, <3>4, <4>1
        <4> QED BY <1>1, <3>1, <3>2, <4>2, TicketOf
      <3> QED BY <3>3, <3>4
    <2>3. <<s, n + 1>> \in Tickets(C)
      <3>1. n + 1 \in 1..C[s] /\ s \in DOMAIN C BY <1>1
      <3> QED BY <3>1, TicketOf
    <2> QED BY <2>1, <2>2, <2>3
  <1>5. <<s, n + 1>> \notin Tickets(B)
    <2> SUFFICES ASSUME <<s, n + 1>> \in Tickets(B) PROVE FALSE
      OBVIOUS
    <2>1. PICK u \in DOMAIN B : \E i \in 1..B[u] : <<s, n + 1>> = <<u, i>> BY TicketOf
    <2>2. s \in DOMAIN B /\ n + 1 \in 1..B[s] BY <2>1
    <2> QED BY <1>1, <1>2, <2>2
  <1> QED BY <1>4, <1>5, FS_AddElement DEF C

(* One ticket less when a goroutine gives its command away.                *)
LEMMA OneTicketLess ==
  ASSUME NEW B, IsABag(B), IsFiniteSet(Tickets(B)), NEW t \in DOMAIN B, t.at \in Holding
  PROVE  LET C == B (-) SetToBag({t}) IN
         /\ IsFiniteSet(Tickets(C))
         /\ Cardinality(Tickets(C)) = Cardinality(Tickets(B)) - 1
         /\ IsABag(C)
  <1> DEFINE C == B (-) SetToBag({t})
             n == B[t]
  <1>1. n \in Nat /\ n > 0 BY DEF IsABag
  <1>2. /\ IsABag(C) /\ DOMAIN C \subseteq DOMAIN B
        /\ \A u \in DOMAIN B \ {t} : u \in DOMAIN C /\ C[u] = B[u]
        /\ t \in DOMAIN C <=> n > 1
        /\ t \in DOMAIN C => C[t] = n - 1
    BY <1>1 DEF IsABag, SetToBag, (-)
  <1> HIDE DEF C
  <1>3. Tickets(C) = Tickets(B) \ {<<t, n>>}
    <2>1. ASSUME NEW w \in Tickets(C) PROVE w \in Tickets(B) \ {<<t, n>>}
      <3>1. PICK u \in DOMAIN C : u.at \in Holding /\ \E i \in 1..C[u] : w = <<u, i>>
        BY TicketOf
      <3>2. PICK i \in 1..C[u] : w = <<u, i>> BY <3>1
      <3>3. CASE u # t BY <1>2, <3>1, <3>2, <3>3, TicketOf
      <3>4. CASE u = t
        <4>1. i \in 1..(n - 1) BY <1>2, <3>4
        <4>2. i \in 1..B[u] /\ i # n BY <1>1, <3>4, <4>1
        <4> QED BY <3>1, <3>2, <3>4, <4>2, TicketOf
      <3> QED BY <3>3, <3>4
    <2>2. ASSUME NEW w \in Tickets(B), w # <<t, n>> PROVE w \in Tickets(C)
      <3>1. PICK u \in DOMAIN B : u.at \in Holding /\ \E i \in 1..B[u] : w = <<u, i>>
        BY TicketOf
      <3>2. PICK i \in 1..B[u] : w = <<u, i>> BY <3>1
      <3>3. CASE u # t BY <1>2, <3>1, <3>2, <3>3, TicketOf
      <3>4. CASE u = t
        <4>1. i \in 1..(n - 1) BY <1>1, <2>2, <3>2, <3>4
        <4>2. n > 1 BY <1>1, <4>1
        <4>3. t \in DOMAIN C /\ i \in 1..C[t] BY <1>2, <4>1, <4>2
        <4> QED BY <3>1, <3>2, <3>4, <4>3, TicketOf
      <3> QED BY <3>3, <3>4
    <2> QED BY <2>1, <2>2
  <1>4. <<t, n>> \in Tickets(B)
    <2>1. n \in 1..B[t] BY <1>1
    <2> QED BY <2>1, TicketOf
  <1> QED BY <1>2, <1>3, <1>4, FS_RemoveElement DEF C

-----------------------------------------------------------------------------
(* The invariant.                                                          *)

Inputs ==
    input \in [proposals : SUBSET Proposals, newViews : SUBSET NewViews,
               qcs : SUBSET Finished]

(* The QC of a message about to be counted is not newer than all the QCs   *)
(* held so far.                                                            *)
CountedNext ==
    \A t \in DOMAIN threads :
        t.at = "add" => \E q \in held : QcView[t.qc] <= QcView[q]

Inv ==
    /\ TypeOK
    /\ AllSound
    /\ Inputs
    /\ IsFiniteSet(views)
    /\ CountedBelowHigh /\ CountedNext
    /\ QuorumOnce
    /\ IsFiniteSet(Tickets(threads))
    /\ CommandsConserved

(* What a step does to the highest QC.                                     *)
Rises ==
    /\ high' \in QC /\ QcHeight[high] <= QcHeight[high']
    /\ held' = held \cup {high'}

(* What a step does that only moves goroutines on.                         *)
QuietStep ==
    \E S : /\ \A s \in S : Sound(s) /\ Quiet(s)
           /\ IsABag(threads')
           /\ DOMAIN threads' \subseteq DOMAIN threads \cup S
           /\ \A u \in DOMAIN threads : u.at \in Holding =>
                 u \in DOMAIN threads' /\ threads'[u] = threads[u]

Idle ==
    /\ QuietStep
    /\ curView' \in View
    /\ timer' \in BOOLEAN /\ tick' \in BOOLEAN /\ mut' \in BOOLEAN
    /\ Rises
    /\ answered' \subseteq View
    /\ Inputs'
    /\ UNCHANGED <<views, queue, submitted, forwarded, proposed, quorums>>

(* The highest QC is one of the QCs held.                                  *)
LEMMA HighHeld ==
  ASSUME Inv
  PROVE  /\ high \in QC /\ high \in held /\ held \subseteq QC
         /\ QcHeight[high] \in Nat
  <1>1. high \in QC /\ high \in held /\ held \subseteq QC BY DEF Inv, TypeOK
  <1> QED BY <1>1, PMAssumption

(* A step that leaves the core alone raises nothing.                       *)
LEMMA SameRises ==
  ASSUME Inv, UNCHANGED core
  PROVE  Rises /\ high' = high /\ held' = held
  <1>1. high' = high /\ held' = held BY DEF core
  <1> QED BY <1>1, HighHeld DEF Rises

(* The highest QC only gets higher, so that it stays the highest of those  *)
(* held, and what was counted stays below them.                            *)
LEMMA RaisedAbove ==
  ASSUME Inv, Rises, views' = views
  PROVE  CountedBelowHigh'
  <1>1. QcHeight \in [QC -> Nat] BY PMAssumption
  <1>2. high' \in QC /\ QcHeight[high] <= QcHeight[high'] /\ held' = held \cup {high'}
    BY DEF Rises
  <1>3. ASSUME NEW m \in views PROVE \E q \in held' : QcView[m.qc] <= QcView[q]
    BY <1>2 DEF Inv, CountedBelowHigh
  <1>4. ASSUME NEW q \in held' PROVE QcHeight[q] <= QcHeight[high']
    <2>1. CASE q \in held
      <3>1. QcHeight[q] <= QcHeight[high] BY <2>1 DEF Inv, CountedBelowHigh
      <3>2. QcHeight[q] \in Nat /\ QcHeight[high] \in Nat /\ QcHeight[high'] \in Nat
        BY <1>1, <1>2, <2>1, HighHeld
      <3> QED BY <1>2, <3>1, <3>2
    <2>2. CASE q = high'
      <3>1. QcHeight[high'] \in Nat BY <1>1, <1>2
      <3> QED BY <2>2, <3>1
    <2> QED BY <1>2, <2>1, <2>2
  <1> QED BY <1>3, <1>4 DEF CountedBelowHigh

(* A step that only moves goroutines on keeps the invariant.               *)
LEMMA IdleKeeps ==
  ASSUME Inv, Idle
  PROVE  Inv'
  <1>1. PICK S : /\ \A s \in S : Sound(s) /\ Quiet(s)
                 /\ IsABag(threads')
                 /\ DOMAIN threads' \subseteq DOMAIN threads \cup S
                 /\ \A u \in DOMAIN threads : u.at \in Holding =>
                       u \in DOMAIN threads' /\ threads'[u] = threads[u]
    BY DEF Idle, QuietStep
  <1>2. AllSound' BY <1>1 DEF Inv, AllSound
  <1>3. TypeOK'
    <2>1. \A t \in DOMAIN threads' : t \in Thread BY <1>2 DEF AllSound, Sound
    <2>2. IsABag(threads') /\ BagToSet(threads') \subseteq Thread BY <1>1, <2>1 DEF BagToSet
    <2>3. views \subseteq Message /\ queue \in Nat /\ submitted \in 0..MaxCmds
          /\ forwarded \in Nat /\ proposed \in Nat /\ quorums \in [View -> Nat]
      BY DEF Inv, TypeOK
    <2>4. held' \subseteq QC /\ high' \in held' BY HighHeld DEF Idle, Rises
    <2> QED BY <2>2, <2>3, <2>4 DEF Idle, TypeOK
  <1>4. CountedBelowHigh' BY RaisedAbove DEF Idle
  <1>5. CountedNext'
    <2> SUFFICES ASSUME NEW t \in DOMAIN threads', t.at = "add"
                 PROVE  \E q \in held' : QcView[t.qc] <= QcView[q]
      BY DEF CountedNext
    <2>1. t \in DOMAIN threads BY <1>1 DEF Quiet
    <2>2. \E q \in held : QcView[t.qc] <= QcView[q] BY <2>1 DEF Inv, CountedNext
    <2> QED BY <2>2 DEF Idle, Rises
  <1>6. QuorumOnce' /\ IsFiniteSet(views')
    BY DEF Inv, Idle, QuorumOnce, Kept
  <1>7. Tickets(threads') = Tickets(threads)
    <2>1. ASSUME NEW u, u.at \in Holding
          PROVE  /\ u \in DOMAIN threads' <=> u \in DOMAIN threads
                 /\ u \in DOMAIN threads' => threads'[u] = threads[u]
      BY <1>1, <2>1 DEF Quiet
    <2> QED BY <2>1, SameTickets
  <1>8. CommandsConserved' /\ IsFiniteSet(Tickets(threads))'
    <2>1. InHand' = InHand BY <1>7, InHandTickets DEF InHand, Tickets, Holding
    <2> QED BY <1>7, <2>1 DEF Inv, Idle, CommandsConserved
  <1> QED BY <1>2, <1>3, <1>4, <1>5, <1>6, <1>8 DEF Inv, Idle

(* A goroutine without a command makes a quiet step.                       *)
LEMMA QuietRun ==
  ASSUME IsABag(threads), NEW t, t.at \notin Holding, NEW S, Run(t, S),
         \A s \in S : Sound(s) /\ Quiet(s)
  PROVE  QuietStep
  <1>1. \A u : u.at \in Holding => u # t /\ u \notin S BY DEF Quiet
  <1> QED BY <1>1, RunBag DEF QuietStep

(* Starting goroutines that have no command is a quiet step.               *)
LEMMA QuietSpawn ==
  ASSUME IsABag(threads), NEW S, Spawn(S), \A s \in S : Sound(s) /\ Quiet(s)
  PROVE  QuietStep
  <1>1. \A u : u.at \in Holding => u \notin S BY DEF Quiet
  <1> QED BY <1>1, SpawnBag DEF QuietStep

(* GetLeader and GetCurLeader return the id of a replica.                  *)
LEMMA LeaderIsReplica ==
  ASSUME NEW v \in View
  PROVE  GetLeader(v) \in Replica
  <1>1. v + 1 \in Int /\ N \in Nat /\ N > 0 BY PMAssumption DEF View
  <1> QED BY <1>1 DEF GetLeader, Replica

-----------------------------------------------------------------------------
(* The steps that only move goroutines on.                                 *)

Ok(s) == Sound(s) /\ Quiet(s)

(* The goroutines that steps leave, by the shape of the set.               *)
LEMMA RunShapes ==
  ASSUME Inv, NEW t \in DOMAIN threads, t.at \notin Holding
  PROVE  /\ Run(t, {}) => QuietStep
         /\ Run(t, Returns(t)) => QuietStep
         /\ \A s : Ok(s) /\ Run(t, {s}) => QuietStep
         /\ \A S : (\A s \in S : Ok(s)) /\ Run(t, S) => QuietStep
         /\ \A S : (\A s \in S : Ok(s)) /\ Run(t, S \cup Returns(t)) => QuietStep
  <1>1. IsABag(threads) /\ Sound(t) BY DEF Inv, TypeOK, AllSound
  <1>2. \A s \in Returns(t) : Ok(s) BY <1>1, ReturnsSound DEF Ok
  <1>3. ASSUME NEW S, \A s \in S : Ok(s), Run(t, S) PROVE QuietStep
    BY <1>1, <1>3, QuietRun DEF Ok
  <1>4. ASSUME NEW S, \A s \in S : Ok(s), Run(t, S \cup Returns(t)) PROVE QuietStep
    <2>1. \A s \in S \cup Returns(t) : Ok(s) BY <1>2, <1>4
    <2> QED BY <1>3, <1>4, <2>1
  <1>5. Run(t, {}) => QuietStep BY <1>3
  <1>6. Run(t, Returns(t)) => QuietStep BY <1>2, <1>3
  <1>7. ASSUME NEW s, Ok(s), Run(t, {s}) PROVE QuietStep
    <2>1. \A x \in {s} : Ok(x) BY <1>7
    <2> QED BY <1>3, <1>7, <2>1
  <1> QED BY <1>3, <1>4, <1>5, <1>6, <1>7

(* The goroutine itself at another line, and new ones.                     *)
LEMMA OkAt ==
  ASSUME NEW t, Sound(t), t.view # -1, NEW l \in Label \ (Holding \cup {"add"})
  PROVE  Ok(At(t, l))
  BY AtSound DEF Ok, Quiet

(* A goroutine started at a quiet line is sound and quiet.                 *)
LEMMA OkNew ==
  ASSUME NEW l \in Label \ (Holding \cup {"add"})
  PROVE  Ok(New(l))
  <1>1. 0 \in View BY PMAssumption DEF View
  <1>2. 0 # -1 OBVIOUS
  <1> QED BY <1>1, <1>2, NewSound DEF Ok, Quiet

(* The same for one that is started with a view.                           *)
LEMMA OkNewView ==
  ASSUME NEW l \in Label \ (Holding \cup {"add"}), NEW v \in View \cup {-1},
         v = -1 => l \in {"high", "qcf"}
  PROVE  Ok([New(l) EXCEPT !.view = v])
  BY NewSound DEF Ok, Quiet

(* A method called by a goroutine is sound and quiet when its first line is*)
(* quiet and the caller goes on at one of the continuation lines.          *)
LEMMA OkCall ==
  ASSUME NEW t, Sound(t), t.view # -1, NEW l \in Label \ (Holding \cup {"add"}),
         NEW c \in Cont
  PROVE  Ok([t EXCEPT !.at = l, !.then = <<c>> \o @])
  BY CallSound DEF Ok, Quiet

(* UpdateHighestQC raises the highest QC, and its event starts UpdateQcHigh*)
LEMMA RaiseOk ==
  ASSUME Inv, NEW q \in QC, Raise(q)
  PROVE  /\ Rises
         /\ \A s \in HqcUpdate(q) : Ok(s)
  <1>1. high \in QC BY HighHeld
  <1>2. QcHeight[high] \in Nat /\ QcHeight[q] \in Nat BY <1>1, PMAssumption
  <1>3. Rises BY <1>1, <1>2 DEF Raise, Higher, Rises
  <1>4. QcView[q] \in View \cup {-1} BY PMAssumption
  <1>5. "high" \in Label \ (Holding \cup {"add"}) BY DEF Label, Holding
  <1>6. Ok([New("high") EXCEPT !.view = QcView[q]])
    <2> DEFINE v == QcView[q]
    <2>1. v \in View \cup {-1} BY <1>4
    <2> HIDE DEF v
    <2>2. Ok([New("high") EXCEPT !.view = v]) BY <1>5, <2>1, OkNewView
    <2> QED BY <2>2 DEF v
  <1> QED BY <1>3, <1>6 DEF HqcUpdate

(* What is known of a goroutine that makes a step.                         *)
LEMMA Stepping ==
  ASSUME Inv, NEW t \in DOMAIN threads
  PROVE  /\ Sound(t) /\ t \in Thread /\ t.qc \in QC /\ t.vote \in View
         /\ t.view \in View \cup {-1} /\ t.view \in Int
         /\ t.at \notin {"high", "qcf"} => t.view \in View /\ t.view # -1
         /\ curView \in View /\ curView \in Nat /\ high \in QC
  <1>1. Sound(t) /\ curView \in View /\ high \in QC BY HighHeld DEF Inv, AllSound, TypeOK
  <1>2. MaxView \in Nat BY PMAssumption
  <1> QED BY <1>1, <1>2 DEF Sound, Thread, View

(* The lines that are neither of OnBeat with a command nor of addNewViewMsg. *)
LEMMA QuietLabels ==
  /\ {"link", "skip", "recvset", "recvlead", "recvlink", "recvskip",
       "recvnew", "vote", "set", "nvsync", "nvmsg", "wait",
       "mut", "apply", "relay", "newview", "enter", "qcfset",
       "qcfnext", "qcfgo", "high", "recv", "nv", "event",
       "sync", "own", "clear", "beat", "qcflead"} \subseteq Label \ (Holding \cup {"add"})
  /\ Cont \subseteq Label \ (Holding \cup {"add"})
  BY DEF Label, Holding, Cont

(* The methods that neither count messages nor handle commands, one after  *)
(* the other.                                                              *)
LEMMA IdleSteps ==
  ASSUME Inv, NEW t \in DOMAIN threads,
         \/ Event(t) \/ Link(t) \/ Skip(t) \/ Recv(t) \/ RecvSet(t) \/ RecvLead(t)
         \/ RecvLink(t) \/ RecvSkip(t) \/ SendVote(t) \/ NewView(t) \/ Wait(t) \/ SyncView(t)
         \/ SyncMsg(t) \/ Enter(t) \/ Relay(t) \/ SendNewView(t) \/ QcFinishSet(t) \/ QcFinishLead(t)
         \/ QcFinishNext(t) \/ QcFinishGo(t)
  PROVE  Idle
  <1>0. /\ Sound(t) /\ t \in Thread /\ t.qc \in QC /\ t.vote \in View
        /\ t.view \in View \cup {-1} /\ t.view \in Int
        /\ t.at \notin {"high", "qcf"} => t.view \in View /\ t.view # -1
        /\ curView \in View /\ curView \in Nat /\ high \in QC
    BY Stepping
  <1>1. ASSUME QuietStep, Inputs', curView' \in View,
               timer' \in BOOLEAN, tick' \in BOOLEAN, mut' \in BOOLEAN,
               UNCHANGED core, answered' \subseteq View,
               UNCHANGED <<views, queue, submitted, forwarded, proposed, quorums>>
        PROVE  Idle
    <2>1. Rises BY <1>1, SameRises
    <2> QED BY <1>1, <2>1 DEF Idle
  <1>2. /\ timer \in BOOLEAN /\ tick \in BOOLEAN /\ mut \in BOOLEAN
        /\ answered \subseteq View /\ Inputs
    BY DEF Inv, TypeOK
  <1>3. UNCHANGED input => Inputs' BY <1>2 DEF Inputs
  <1>4. AddView => curView' \in View BY <1>0, PMAssumption DEF AddView, View
  <1>5. ASSUME Event(t) PROVE Idle
    <2>1. t.at = "event" /\ t.at \notin Holding /\ t.view # -1 /\ t.view \in View
      BY <1>0, <1>5 DEF Event, Holding
    <2>2. Ok(At(t, "link"))
      BY <1>0, <2>1, OkAt, QuietLabels
    <2>3. QuietStep
      BY <1>5, <2>1, <2>2, RunShapes DEF Event
    <2> QED BY <1>0, <1>1, <1>2, <1>3, <1>4, <1>5, <2>1, <2>3 DEF Event, history
  <1>6. ASSUME Link(t) PROVE Idle
    <2>1. t.at = "link" /\ t.at \notin Holding /\ t.view # -1 /\ t.view \in View
      BY <1>0, <1>6 DEF Link, Holding
    <2>2. Ok(At(t, "skip"))
      BY <1>0, <2>1, OkAt, QuietLabels
    <2>3. QuietStep
      BY <1>6, <2>1, <2>2, RunShapes DEF Link
    <2> QED BY <1>0, <1>1, <1>2, <1>3, <1>4, <1>6, <2>1, <2>3 DEF Link, history
  <1>7. ASSUME Skip(t) PROVE Idle
    <2>1. t.at = "skip" /\ t.at \notin Holding /\ t.view # -1 /\ t.view \in View
      BY <1>0, <1>7 DEF Skip, Holding
    <2>2. QuietStep
      BY <1>7, <2>1, RunShapes DEF Skip
    <2> QED BY <1>0, <1>1, <1>2, <1>3, <1>4, <1>7, <2>1, <2>2 DEF Skip, history
  <1>8. ASSUME Recv(t) PROVE Idle
    <2>1. t.at = "recv" /\ t.at \notin Holding /\ t.view # -1 /\ t.view \in View
      BY <1>0, <1>8 DEF Recv, Holding
    <2>2. Ok(At(t, "recvset")) /\ Ok(At(t, "recvlead"))
      BY <1>0, <2>1, OkAt, QuietLabels
    <2>3. QuietStep
      BY <1>8, <2>1, <2>2, RunShapes DEF Recv
    <2> QED BY <1>0, <1>1, <1>2, <1>3, <1>4, <1>8, <2>1, <2>3 DEF Recv, history
  <1>9. ASSUME RecvSet(t) PROVE Idle
    <2>1. t.at = "recvset" /\ t.at \notin Holding /\ t.view # -1 /\ t.view \in View
      BY <1>0, <1>9 DEF RecvSet, Holding
    <2>2. Ok(At(t, "recvlead"))
      BY <1>0, <2>1, OkAt, QuietLabels
    <2>3. QuietStep
      BY <1>9, <2>1, <2>2, RunShapes DEF RecvSet
    <2> QED BY <1>0, <1>1, <1>2, <1>3, <1>4, <1>9, <2>1, <2>3 DEF RecvSet, history
  <1>10. ASSUME RecvLead(t) PROVE Idle
    <2>1. t.at = "recvlead" /\ t.at \notin Holding /\ t.view # -1 /\ t.view \in View
      BY <1>0, <1>10 DEF RecvLead, Holding
    <2>2. Ok(At(t, "recvlink")) /\ Ok(At(t, "vote"))
      BY <1>0, <2>1, OkAt, QuietLabels
    <2>3. QuietStep
      BY <1>10, <2>1, <2>2, RunShapes DEF RecvLead
    <2> QED BY <1>0, <1>1, <1>2, <1>3, <1>4, <1>10, <2>1, <2>3 DEF RecvLead, history
  <1>11. ASSUME RecvLink(t) PROVE Idle
    <2>1. t.at = "recvlink" /\ t.at \notin Holding /\ t.view # -1 /\ t.view \in View
      BY <1>0, <1>11 DEF RecvLink, Holding
    <2>2. Ok(At(t, "vote")) /\ Ok(At(t, "recvskip"))
      BY <1>0, <2>1, OkAt, QuietLabels
    <2>3. QuietStep
      BY <1>11, <2>1, <2>2, RunShapes DEF RecvLink
    <2> QED BY <1>0, <1>1, <1>2, <1>3, <1>4, <1>11, <2>1, <2>3 DEF RecvLink, history
  <1>12. ASSUME RecvSkip(t) PROVE Idle
    <2>1. t.at = "recvskip" /\ t.at \notin Holding /\ t.view # -1 /\ t.view \in View
      BY <1>0, <1>12 DEF RecvSkip, Holding
    <2>2. Ok(At(t, "recvnew"))
      BY <1>0, <2>1, OkAt, QuietLabels
    <2>3. QuietStep
      BY <1>12, <2>1, <2>2, RunShapes DEF RecvSkip
    <2> QED BY <1>0, <1>1, <1>2, <1>3, <1>4, <1>12, <2>1, <2>3 DEF RecvSkip, history
  <1>13. ASSUME SendVote(t) PROVE Idle
    <2>1. t.at = "vote" /\ t.at \notin Holding /\ t.view # -1 /\ t.view \in View
      BY <1>0, <1>13 DEF SendVote, Holding
    <2>2. QuietStep
      BY <1>13, <2>1, RunShapes DEF SendVote
    <2> QED BY <1>0, <1>1, <1>2, <1>3, <1>4, <1>13, <2>1, <2>2 DEF SendVote, history
  <1>14. ASSUME NewView(t) PROVE Idle
    <2>1. t.at = "nv" /\ t.at \notin Holding /\ t.view # -1 /\ t.view \in View
      BY <1>0, <1>14 DEF NewView, Holding
    <2>2. Ok(At(t, "mut")) /\ Ok(At(t, "wait"))
      BY <1>0, <2>1, OkAt, QuietLabels
    <2>3. QuietStep
      BY <1>14, <2>1, <2>2, RunShapes DEF NewView
    <2> QED BY <1>0, <1>1, <1>2, <1>3, <1>4, <1>14, <2>1, <2>3 DEF NewView, history
  <1>15. ASSUME Wait(t) PROVE Idle
    <2>1. t.at = "wait" /\ t.at \notin Holding /\ t.view # -1 /\ t.view \in View
      BY <1>0, <1>15 DEF Wait, Holding
    <2>2. Ok(At(t, "mut"))
      BY <1>0, <2>1, OkAt, QuietLabels
    <2>3. QuietStep
      BY <1>15, <2>1, <2>2, RunShapes DEF Wait
    <2> QED BY <1>0, <1>1, <1>2, <1>3, <1>4, <1>15, <2>1, <2>3 DEF Wait, history
  <1>16. ASSUME SyncView(t) PROVE Idle
    <2>1. t.at = "nvsync" /\ t.at \notin Holding /\ t.view # -1 /\ t.view \in View
      BY <1>0, <1>16 DEF SyncView, Holding
    <2>2. Ok(At(t, "nvmsg"))
      BY <1>0, <2>1, OkAt, QuietLabels
    <2>3. QuietStep
      BY <1>16, <2>1, <2>2, RunShapes DEF SyncView
    <2> QED BY <1>0, <1>1, <1>2, <1>3, <1>4, <1>16, <2>1, <2>3 DEF SyncView, history
  <1>17. ASSUME SyncMsg(t) PROVE Idle
    <2>1. t.at = "nvmsg" /\ t.at \notin Holding /\ t.view # -1 /\ t.view \in View
      BY <1>0, <1>17 DEF SyncMsg, Holding
    <2>2. QuietStep
      BY <1>17, <2>1, RunShapes DEF SyncMsg
    <2> QED BY <1>0, <1>1, <1>2, <1>3, <1>4, <1>17, <2>1, <2>2 DEF SyncMsg, history
  <1>18. ASSUME Enter(t) PROVE Idle
    <2>1. t.at = "enter" /\ t.at \notin Holding /\ t.view # -1 /\ t.view \in View
      BY <1>0, <1>18 DEF Enter, Holding
    <2>2. Ok(At(t, "relay"))
      BY <1>0, <2>1, OkAt, QuietLabels
    <2>3. QuietStep
      BY <1>18, <2>1, <2>2, RunShapes DEF Enter
    <2> QED BY <1>0, <1>1, <1>2, <1>3, <1>4, <1>18, <2>1, <2>3 DEF Enter, history
  <1>19. ASSUME Relay(t) PROVE Idle
    <2>1. t.at = "relay" /\ t.at \notin Holding /\ t.view # -1 /\ t.view \in View
      BY <1>0, <1>19 DEF Relay, Holding
    <2>2. Ok(At(t, "newview"))
      BY <1>0, <2>1, OkAt, QuietLabels
    <2>3. Ok(New("sync")) /\ Ok(New("own")) /\ Ok(New("clear"))
      BY OkNew, QuietLabels
    <2>4. QuietStep
      BY <1>19, <2>1, <2>2, <2>3, RunShapes DEF Relay
    <2> QED BY <1>0, <1>1, <1>2, <1>3, <1>4, <1>19, <2>1, <2>4 DEF Relay, history
  <1>20. ASSUME SendNewView(t) PROVE Idle
    <2>1. t.at = "newview" /\ t.at \notin Holding /\ t.view # -1 /\ t.view \in View
      BY <1>0, <1>20 DEF SendNewView, Holding
    <2>2. Ok(New("clear"))
      BY OkNew, QuietLabels
    <2>3. QuietStep
      BY <1>20, <2>1, <2>2, RunShapes DEF SendNewView
    <2> QED BY <1>0, <1>1, <1>2, <1>3, <1>4, <1>20, <2>1, <2>3 DEF SendNewView, history
  <1>21. ASSUME QcFinishSet(t) PROVE Idle
    <2>1. t.at = "qcfset" /\ t.at \notin Holding /\ t.view # -1 /\ t.view \in View
      BY <1>0, <1>21 DEF QcFinishSet, Holding
    <2>2. Ok(New("qcflead"))
      BY OkNew, QuietLabels
    <2>3. QuietStep
      BY <1>21, <2>1, <2>2, RunShapes DEF QcFinishSet
    <2> QED BY <1>0, <1>1, <1>2, <1>3, <1>4, <1>21, <2>1, <2>3 DEF QcFinishSet, history
  <1>22. ASSUME QcFinishLead(t) PROVE Idle
    <2>1. t.at = "qcflead" /\ t.at \notin Holding /\ t.view # -1 /\ t.view \in View
      BY <1>0, <1>22 DEF QcFinishLead, Holding
    <2>2. Ok(At(t, "qcfnext"))
      BY <1>0, <2>1, OkAt, QuietLabels
    <2>3. Ok(New("sync"))
      BY OkNew, QuietLabels
    <2>4. QuietStep
      BY <1>22, <2>1, <2>2, <2>3, RunShapes DEF QcFinishLead
    <2> QED BY <1>0, <1>1, <1>2, <1>3, <1>4, <1>22, <2>1, <2>4 DEF QcFinishLead, history
  <1>23. ASSUME QcFinishNext(t) PROVE Idle
    <2>1. t.at = "qcfnext" /\ t.at \notin Holding /\ t.view # -1 /\ t.view \in View
      BY <1>0, <1>23 DEF QcFinishNext, Holding
    <2>2. Ok(At(t, "qcfgo"))
      BY <1>0, <2>1, OkAt, QuietLabels
    <2>3. QuietStep
      BY <1>23, <2>1, <2>2, RunShapes DEF QcFinishNext
    <2> QED BY <1>0, <1>1, <1>2, <1>3, <1>4, <1>23, <2>1, <2>3 DEF QcFinishNext, history
  <1>24. ASSUME QcFinishGo(t) PROVE Idle
    <2>1. t.at = "qcfgo" /\ t.at \notin Holding /\ t.view # -1 /\ t.view \in View
      BY <1>0, <1>24 DEF QcFinishGo, Holding
    <2>2. Ok(New("beat")) /\ Ok(New("sync"))
      BY OkNew, QuietLabels
    <2>3. QuietStep
      BY <1>24, <2>1, <2>2, RunShapes DEF QcFinishGo, BeatOrSync
    <2> QED BY <1>0, <1>1, <1>2, <1>3, <1>4, <1>24, <2>1, <2>3 DEF QcFinishGo, history
  <1> QED
    BY <1>5, <1>6, <1>7, <1>8, <1>9, <1>10, <1>11, <1>12, <1>13, <1>14,
       <1>15, <1>16, <1>17, <1>18, <1>19, <1>20, <1>21, <1>22, <1>23,
       <1>24

(* A step is idle when it moves goroutines on and leaves the rest, but for *)
(* the view, the timer, mut and the highest QC.                            *)
LEMMA IdleIf ==
  ASSUME Inv, QuietStep, UNCHANGED input, curView' \in View,
         timer' \in BOOLEAN, mut' \in BOOLEAN,
         Rises,
         UNCHANGED <<views, queue, tick, history>>
  PROVE  Idle
  BY DEF Idle, Inv, TypeOK, Inputs, history

(* The same where the highest QC stays.                                    *)
LEMMA IdleIfSameHigh ==
  ASSUME Inv, QuietStep, UNCHANGED input, curView' \in View,
         timer' \in BOOLEAN, mut' \in BOOLEAN,
         UNCHANGED <<core, views, queue, tick, history>>
  PROVE  Idle
  <1>1. Rises BY SameRises
  <1> QED BY <1>1, IdleIf

(* The steps that call a method, return from one, or start one of several. *)
LEMMA CallSteps ==
  ASSUME Inv, NEW t \in DOMAIN threads,
         \/ RecvNew(t) \/ High(t) \/ Set(t) \/ Go(t) \/ Apply(t) \/ Finish(t)
         \/ Sync(t) \/ OwnNewView(t) \/ QcFinish(t)
  PROVE  Idle
  <1>0. /\ Sound(t) /\ t \in Thread /\ t.qc \in QC /\ t.vote \in View
        /\ t.view \in View \cup {-1} /\ t.view \in Int
        /\ t.at \notin {"high", "qcf"} => t.view \in View /\ t.view # -1
        /\ curView \in View /\ curView \in Nat /\ high \in QC
    BY Stepping
  <1>1. timer \in BOOLEAN /\ tick \in BOOLEAN /\ mut \in BOOLEAN /\ queue \in Nat
    BY DEF Inv, TypeOK
  <1>2. t.view > curView => t.view \in View /\ t.view # -1
    BY <1>0
  <1>3. Ok(New("beat")) /\ Ok(New("sync")) /\ Ok(New("qcflead")) BY OkNew, QuietLabels
  <1>4. ASSUME RecvNew(t) PROVE Idle
    <2> DEFINE s == [t EXCEPT !.at = "recv", !.view = curView, !.then = <<"vote">> \o @]
               u == [t EXCEPT !.view = curView]
    <2>1. t.at = "recvnew" /\ t.at \notin Holding /\ t.view # -1
      BY <1>0, <1>4 DEF RecvNew, Holding
    <2>2. Sound(u) /\ u.view # -1 /\ u.then = t.then BY <1>0, <2>1 DEF Sound, Thread
    <2>3. "vote" \in Cont BY DEF Cont
    <2>4. Ok([u EXCEPT !.at = "recv", !.then = <<"vote">> \o @])
      <3> HIDE DEF u
      <3> QED BY <2>2, <2>3, OkCall, QuietLabels
    <2>5. s = [u EXCEPT !.at = "recv", !.then = <<"vote">> \o @] BY <1>0 DEF Thread
    <2>6. Run(t, {s}) BY <1>4 DEF RecvNew
    <2> HIDE DEF s, u
    <2>7. QuietStep BY <2>1, <2>4, <2>5, <2>6, RunShapes
    <2> QED BY <1>0, <1>1, <1>4, <2>7, IdleIfSameHigh DEF RecvNew
  <1>5. ASSUME High(t) PROVE Idle
    <2>1. t.at = "high" /\ t.at \notin Holding BY <1>5 DEF High, Holding
    <2>2. CASE t.view > curView
      <3>1. Ok(At(t, "set")) BY <1>0, <1>2, <2>2, OkAt, QuietLabels
      <3>2. Run(t, {At(t, "set")}) BY <1>5, <2>2 DEF High
      <3>3. QuietStep BY <2>1, <3>1, <3>2, RunShapes
      <3> QED BY <1>0, <1>1, <1>5, <3>3, IdleIfSameHigh DEF High
    <2>3. CASE ~(t.view > curView)
      <3>1. QuietStep BY <1>5, <2>1, <2>3, RunShapes DEF High
      <3> QED BY <1>0, <1>1, <1>5, <3>1, IdleIfSameHigh DEF High
    <2> QED BY <2>2, <2>3
  <1>6. ASSUME Set(t) PROVE Idle
    <2>1. t.at = "set" /\ t.at \notin Holding /\ t.view \in View
      BY <1>0, <1>6 DEF Set, Holding
    <2>2. QuietStep BY <1>6, <2>1, RunShapes DEF Set
    <2> QED BY <1>0, <1>1, <1>6, <2>1, <2>2, IdleIfSameHigh DEF Set
  <1>7. ASSUME Go(t) PROVE Idle
    <2>1. t.at = "nvgo" /\ t.at \notin Holding BY <1>7 DEF Go, Holding
    <2>2. \A s \in BeatOrSync : Ok(s) BY <1>3 DEF BeatOrSync
    <2>3. QuietStep BY <1>7, <2>1, <2>2, RunShapes DEF Go
    <2> QED BY <1>0, <1>1, <1>7, <2>3, IdleIfSameHigh DEF Go
  <1>8. ASSUME Apply(t) PROVE Idle
    <2>1. t.at = "apply" /\ t.at \notin Holding /\ t.view # -1
      BY <1>0, <1>8 DEF Apply, Holding
    <2> DEFINE s == [t EXCEPT !.at = "high", !.then = <<"nvfin">> \o @]
    <2>2. "nvfin" \in Cont BY DEF Cont
    <2>3. Ok(s) BY <1>0, <2>1, <2>2, OkCall, QuietLabels
    <2>4. Raise(t.qc) /\ Run(t, {s} \cup HqcUpdate(t.qc)) BY <1>8 DEF Apply
    <2> HIDE DEF s
    <2>5. /\ Rises
          /\ \A x \in HqcUpdate(t.qc) : Ok(x)
      BY <1>0, <2>4, RaiseOk
    <2>6. \A x \in {s} \cup HqcUpdate(t.qc) : Ok(x) BY <2>3, <2>5
    <2>7. QuietStep BY <2>1, <2>4, <2>6, RunShapes
    <2> QED BY <1>0, <1>1, <1>8, <2>5, <2>7, IdleIf DEF Apply
  <1>9. ASSUME Finish(t) PROVE Idle
    <2>1. t.at = "nvfin" /\ t.at \notin Holding BY <1>9 DEF Finish, Holding
    <2> DEFINE S == IF queue > 0 THEN {New("beat")} ELSE {}
    <2>2. \A s \in S : Ok(s) BY <1>3
    <2>3. Run(t, S \cup Returns(t)) BY <1>9 DEF Finish
    <2> HIDE DEF S
    <2>4. QuietStep BY <2>1, <2>2, <2>3, RunShapes
    <2> QED BY <1>0, <1>1, <1>9, <2>4, IdleIfSameHigh DEF Finish
  <1>10. ASSUME Sync(t) PROVE Idle
    <2>1. t.at = "sync" /\ t.at \notin Holding /\ t.view # -1
      BY <1>0, <1>10 DEF Sync, Holding
    <2> DEFINE w == GetLeader(curView)
               s == [t EXCEPT !.at = "enter", !.who = w]
    <2>2. w \in Replica BY <1>0, LeaderIsReplica
    <2> HIDE DEF w
    <2>3. "enter" \in Label \ (Holding \cup {"add"}) BY QuietLabels
    <2>4. Ok(s) BY <1>0, <2>1, <2>2, <2>3 DEF Ok, Sound, Quiet, Thread
    <2>5. Run(t, {s}) BY <1>10 DEF Sync, w
    <2> HIDE DEF s
    <2>6. QuietStep BY <2>1, <2>4, <2>5, RunShapes
    <2> QED BY <1>0, <1>1, <1>10, <2>6, IdleIfSameHigh DEF Sync
  <1>11. ASSUME OwnNewView(t) PROVE Idle
    <2>1. t.at = "own" /\ t.at \notin Holding /\ t.view # -1
      BY <1>0, <1>11 DEF OwnNewView, Holding
    <2> DEFINE th == <<"clear">>
               s == [t EXCEPT !.at = "nv", !.view = curView, !.qc = high, !.then = th]
    <2>2. th \in Seq(Cont) /\ th \in Seq(Label) BY DEF Cont, Label
    <2>3. "nv" \in Label \ (Holding \cup {"add"}) /\ curView # -1 BY <1>0, QuietLabels
    <2>4. Run(t, {s}) BY <1>11 DEF OwnNewView
    <2> HIDE DEF th
    <2>5. Ok(s) BY <1>0, <2>1, <2>2, <2>3 DEF Ok, Sound, Quiet, Thread
    <2> HIDE DEF s
    <2>6. QuietStep BY <2>1, <2>4, <2>5, RunShapes
    <2> QED BY <1>0, <1>1, <1>11, <2>6, IdleIfSameHigh DEF OwnNewView
  <1>12. ASSUME QcFinish(t) PROVE Idle
    <2>1. t.at = "qcf" /\ t.at \notin Holding BY <1>12 DEF QcFinish, Holding
    <2>2. CASE t.view > curView
      <3>1. Ok(At(t, "qcfset")) BY <1>0, <1>2, <2>2, OkAt, QuietLabels
      <3>2. Run(t, {At(t, "qcfset")}) BY <1>12, <2>2 DEF QcFinish
      <3>3. QuietStep BY <2>1, <3>1, <3>2, RunShapes
      <3> QED BY <1>0, <1>1, <1>12, <3>3, IdleIfSameHigh DEF QcFinish
    <2>3. CASE ~(t.view > curView)
      <3>1. QuietStep BY <1>3, <1>12, <2>1, <2>3, RunShapes DEF QcFinish
      <3> QED BY <1>0, <1>1, <1>12, <3>1, IdleIfSameHigh DEF QcFinish
    <2> QED BY <2>2, <2>3
  <1> QED BY <1>4, <1>5, <1>6, <1>7, <1>8, <1>9, <1>10, <1>11, <1>12

(* Under mut a newer QC is taken over, or a higher view entered.           *)
LEMMA LockSteps ==
  ASSUME Inv, NEW t \in DOMAIN threads, Lock(t), NewerQC(t) \/ t.view > curView
  PROVE  Idle
  <1>0. /\ Sound(t) /\ t.qc \in QC /\ curView \in View
        /\ t.at \notin {"high", "qcf"} => t.view \in View /\ t.view # -1
    BY Stepping
  <1>1. timer \in BOOLEAN /\ mut \in BOOLEAN BY DEF Inv, TypeOK
  <1>2. t.at = "mut" /\ t.at \notin Holding /\ t.view # -1 BY <1>0 DEF Lock, Holding
  <1>3. CASE NewerQC(t)
    <2> DEFINE s == [t EXCEPT !.at = "high", !.then = <<"nvgo">> \o @]
    <2>1. "nvgo" \in Cont BY DEF Cont
    <2>2. Ok(s) BY <1>0, <1>2, <2>1, OkCall, QuietLabels
    <2>3. /\ Raise(t.qc) /\ Run(t, {s} \cup HqcUpdate(t.qc))
          /\ mut' = TRUE /\ UNCHANGED timer
      BY <1>3 DEF Lock
    <2> HIDE DEF s
    <2>4. /\ Rises
          /\ \A x \in HqcUpdate(t.qc) : Ok(x)
      BY <1>0, <2>3, RaiseOk
    <2>5. \A x \in {s} \cup HqcUpdate(t.qc) : Ok(x) BY <2>2, <2>4
    <2>6. QuietStep BY <1>2, <2>3, <2>5, RunShapes
    <2>7. UNCHANGED <<curView, views, queue, tick, input, history>> BY DEF Lock
    <2> QED BY <1>0, <1>1, <2>3, <2>4, <2>6, <2>7, IdleIf
  <1>4. CASE ~NewerQC(t)
    <2>1. Ok(At(t, "nvsync")) BY <1>0, <1>2, OkAt, QuietLabels
    <2>2. t.view \in Int /\ curView \in Int /\ t.view > curView BY <1>4, Stepping
    <2>3. /\ Run(t, {At(t, "nvsync")}) /\ mut' = TRUE /\ timer' = FALSE /\ UNCHANGED core
      BY <1>4, <2>2 DEF Lock
    <2>4. QuietStep BY <1>2, <2>1, <2>3, RunShapes
    <2>5. UNCHANGED <<curView, views, queue, tick, input, history>> BY DEF Lock
    <2> QED BY <1>0, <1>1, <2>3, <2>4, <2>5, IdleIfSameHigh
  <1> QED BY <1>3, <1>4

-----------------------------------------------------------------------------
(* The inputs and the timer.                                               *)

(* The timer and its channel only start OnNextSyncView.                    *)
LEMMA TimerSteps ==
  ASSUME Inv, Expire \/ Tick
  PROVE  Idle
  <1>0. IsABag(threads) /\ curView \in View BY DEF Inv, TypeOK
  <1>1. /\ Inputs
        /\ timer \in BOOLEAN /\ tick \in BOOLEAN /\ mut \in BOOLEAN /\ answered \subseteq View
    BY <1>0 DEF Inv, TypeOK
  <1>2. CASE Expire
    <2>1. QuietStep
      <3>1. threads' = threads BY <1>2 DEF Expire
      <3> DEFINE S == {}
      <3>2. \A s \in S : Sound(s) /\ Quiet(s) OBVIOUS
      <3>3. DOMAIN threads' \subseteq DOMAIN threads \cup S BY <3>1
      <3>4. \A u \in DOMAIN threads : u.at \in Holding =>
               u \in DOMAIN threads' /\ threads'[u] = threads[u]
        BY <3>1
      <3>5. IsABag(threads') BY <1>0, <3>1
      <3> HIDE DEF S
      <3> QED BY <3>2, <3>3, <3>4, <3>5 DEF QuietStep
    <2>2. /\ timer' = FALSE /\ tick' = TRUE
          /\ UNCHANGED <<curView, views, queue, mut, core, input, history>>
      BY <1>2 DEF Expire
    <2>3. Rises BY <2>2, SameRises
    <2> QED BY <1>0, <1>1, <2>1, <2>2, <2>3 DEF Idle, history, Inputs
  <1>3. CASE Tick
    <2>1. Ok(New("sync")) BY OkNew, QuietLabels
    <2>2. \A s \in {New("sync")} : Sound(s) /\ Quiet(s) BY <2>1 DEF Ok
    <2>3. QuietStep BY <1>0, <1>3, <2>2, QuietSpawn DEF Tick
    <2>4. tick' = FALSE /\ UNCHANGED <<curView, views, queue, timer, mut, core, input, history>>
      BY <1>3 DEF Tick
    <2>5. Rises BY <2>4, SameRises
    <2> QED BY <1>0, <1>1, <2>3, <2>4, <2>5 DEF Idle, history, Inputs
  <1> QED BY <1>2, <1>3

(* A proposal, a new-view message or a quorum of votes starts the          *)
(* goroutines of its events and may raise the highest QC.                  *)
LEMMA InputSteps ==
  ASSUME Inv,
         \/ \E p \in input.proposals : ReceiveProposal(p)
         \/ \E m \in input.newViews : ReceiveNewView(m)
         \/ \E q \in input.qcs : CollectQC(q)
  PROVE  Idle
  <1>0. IsABag(threads) /\ curView \in View BY DEF Inv, TypeOK
  <1>1. /\ Inputs
        /\ timer \in BOOLEAN /\ tick \in BOOLEAN /\ mut \in BOOLEAN /\ answered \subseteq View
    BY DEF Inv, TypeOK
  <1>2. MaxView \in Nat /\ -1 \notin View BY PMAssumption DEF View
  <1>3. ASSUME NEW p \in input.proposals, ReceiveProposal(p) PROVE Idle
    <2>1. p.view \in View /\ p.qc \in QC BY <1>1, PMAssumption DEF Inputs
    <2>2. Inputs' BY <1>1, <1>3 DEF Inputs, ReceiveProposal
    <2> DEFINE v == p.view
               q == p.qc
               u == [New("recv") EXCEPT !.view = v]
               s == [New("recv") EXCEPT !.view = v, !.vote = v]
    <2>3. v \in View /\ q \in QC BY <2>1
    <2>4. Raise(q) /\ Spawn({s} \cup HqcUpdate(q)) BY <1>3 DEF ReceiveProposal
    <2> HIDE DEF v, q
    <2>5. Ok(u)
      <3>1. v = -1 => "recv" \in {"high", "qcf"} BY <1>2, <2>3
      <3>2. "recv" \in Label \ (Holding \cup {"add"}) BY QuietLabels
      <3> QED BY <2>3, <3>1, <3>2, OkNewView
    <2>6. s = [u EXCEPT !.vote = v] BY DEF New
    <2> HIDE DEF u, s
    <2>7. Ok(s) BY <2>3, <2>5, <2>6 DEF Ok, Sound, Quiet, Thread
    <2>8. /\ Rises
          /\ \A x \in HqcUpdate(q) : Ok(x)
      BY <2>3, <2>4, RaiseOk
    <2>9. \A x \in {s} \cup HqcUpdate(q) : Sound(x) /\ Quiet(x) BY <2>7, <2>8 DEF Ok
    <2>10. QuietStep BY <1>0, <2>4, <2>9, QuietSpawn
    <2>11. UNCHANGED <<curView, views, queue, timer, tick, mut, history>>
      BY <1>3 DEF ReceiveProposal
    <2> QED BY <1>0, <1>1, <2>2, <2>8, <2>10, <2>11 DEF Idle, history
  <1>4. ASSUME NEW m \in input.newViews, ReceiveNewView(m) PROVE Idle
    <2>1. m.from \in Replica /\ m.view \in View /\ m.qc \in QC BY <1>1, PMAssumption DEF Inputs
    <2>2. Inputs' BY <1>1, <1>4 DEF Inputs, ReceiveNewView
    <2> DEFINE f == m.from
               v == m.view
               q == m.qc
               u == [New("nv") EXCEPT !.view = v]
               s == [New("nv") EXCEPT !.who = f, !.view = v, !.qc = q]
    <2>3. f \in Replica /\ v \in View /\ q \in QC BY <2>1
    <2>4. Spawn({s}) BY <1>4 DEF ReceiveNewView
    <2> HIDE DEF f, v, q
    <2>5. Ok(u)
      <3>1. v = -1 => "nv" \in {"high", "qcf"} BY <1>2, <2>3
      <3>2. "nv" \in Label \ (Holding \cup {"add"}) BY QuietLabels
      <3> QED BY <2>3, <3>1, <3>2, OkNewView
    <2>6. s = [u EXCEPT !.who = f, !.qc = q] BY DEF New
    <2> HIDE DEF u, s
    <2>7. Ok(s) BY <2>3, <2>5, <2>6 DEF Ok, Sound, Quiet, Thread
    <2>8. \A x \in {s} : Sound(x) /\ Quiet(x) BY <2>7 DEF Ok
    <2>9. QuietStep BY <1>0, <2>4, <2>8, QuietSpawn
    <2>10. UNCHANGED <<curView, views, queue, timer, tick, mut, core, history>>
      BY <1>4 DEF ReceiveNewView
    <2>11. Rises BY <2>10, SameRises
    <2> QED BY <1>0, <1>1, <2>2, <2>9, <2>10, <2>11 DEF Idle, history
  <1>5. ASSUME NEW q \in input.qcs, CollectQC(q) PROVE Idle
    <2>1. q \in QC BY <1>1, PMAssumption DEF Inputs
    <2>2. Inputs' BY <1>1, <1>5 DEF Inputs, CollectQC
    <2> DEFINE v == QcView[q]
               s == [New("qcf") EXCEPT !.view = v]
    <2>3. v \in View \cup {-1} BY <2>1, PMAssumption
    <2>4. Raise(q) /\ Spawn({s} \cup HqcUpdate(q)) BY <1>5 DEF CollectQC
    <2> HIDE DEF v
    <2>5. Ok(s)
      <3>1. "qcf" \in Label \ (Holding \cup {"add"}) BY DEF Label, Holding
      <3> QED BY <2>3, <3>1, OkNewView
    <2> HIDE DEF s
    <2>6. /\ Rises
          /\ \A x \in HqcUpdate(q) : Ok(x)
      BY <2>1, <2>4, RaiseOk
    <2>7. \A x \in {s} \cup HqcUpdate(q) : Sound(x) /\ Quiet(x) BY <2>5, <2>6 DEF Ok
    <2>8. QuietStep BY <1>0, <2>4, <2>7, QuietSpawn
    <2>9. UNCHANGED <<curView, views, queue, timer, tick, mut, history>>
      BY <1>5 DEF CollectQC
    <2> QED BY <1>0, <1>1, <2>2, <2>6, <2>8, <2>9 DEF Idle, history
  <1> QED BY <1>3, <1>4, <1>5

-----------------------------------------------------------------------------
(* OnBeat: the commands.                                                   *)

(* The bag after a step of t is that without t and with the ones in S.     *)
LEMMA BagWithout ==
  ASSUME NEW B, IsABag(B), NEW t
  PROVE  LET C == B (-) SetToBag({t}) IN
         /\ IsABag(C) /\ DOMAIN C \subseteq DOMAIN B
         /\ \A u \in DOMAIN B \ {t} : u \in DOMAIN C /\ C[u] = B[u]
  BY DEF IsABag, SetToBag, (-)

(* A bag with more goroutines is a bag.                                    *)
LEMMA BagWith ==
  ASSUME NEW B, IsABag(B), NEW S
  PROVE  LET C == B (+) SetToBag(S) IN
         /\ IsABag(C) /\ DOMAIN C = DOMAIN B \cup S
         /\ \A u \in DOMAIN B \ S : C[u] = B[u]
  BY DEF IsABag, SetToBag, (+)

(* Steps of OnBeat leave the new-view messages and the QC; what they do to *)
(* the goroutines is in S, and the rest of the invariant stays.            *)
LEMMA BeatKeeps ==
  ASSUME Inv, NEW t \in DOMAIN threads, NEW S, Run(t, S),
         \A s \in S : Sound(s) /\ s.at # "add",
         timer' \in BOOLEAN,
         queue' \in Nat, forwarded' \in Nat, proposed' \in Nat,
         UNCHANGED <<curView, views, tick, mut, core, input, submitted, answered, quorums>>,
         IsFiniteSet(Tickets(threads')), CommandsConserved'
  PROVE  Inv'
  <1>1. IsABag(threads) BY DEF Inv, TypeOK
  <1>2. IsABag(threads') /\ DOMAIN threads' \subseteq DOMAIN threads \cup S
    BY <1>1, RunBag
  <1>3. AllSound' BY <1>2 DEF Inv, AllSound
  <1>4. TypeOK'
    <2>1. \A u \in DOMAIN threads' : u \in Thread BY <1>3 DEF AllSound, Sound
    <2>2. IsABag(threads') /\ BagToSet(threads') \subseteq Thread BY <1>2, <2>1 DEF BagToSet
    <2>3. high' = high /\ held' = held BY SameRises
    <2> QED BY <2>2, <2>3 DEF Inv, TypeOK
  <1>5. Rises /\ high' = high /\ held' = held BY SameRises
  <1>6. CountedBelowHigh' BY <1>5, RaisedAbove
  <1>7. CountedNext' BY <1>2, <1>5 DEF Inv, CountedNext
  <1>8. QuorumOnce' /\ IsFiniteSet(views') /\ Inputs'
    BY DEF Inv, QuorumOnce, Kept, Inputs
  <1> QED BY <1>3, <1>4, <1>6, <1>7, <1>8 DEF Inv

(* The tickets when goroutines without a command come, or one goes.        *)
LEMMA TicketsWithQuiet ==
  ASSUME NEW B, IsABag(B), NEW S, \A s \in S : s.at \notin Holding
  PROVE  Tickets(B (+) SetToBag(S)) = Tickets(B)
  <1> DEFINE C == B (+) SetToBag(S)
  <1>1. DOMAIN C = DOMAIN B \cup S /\ \A u \in DOMAIN B \ S : C[u] = B[u] BY BagWith
  <1> HIDE DEF C
  <1>2. \A u : u.at \in Holding =>
            /\ u \in DOMAIN C <=> u \in DOMAIN B
            /\ u \in DOMAIN C => C[u] = B[u]
    BY <1>1
  <1> QED BY <1>2, SameTickets DEF C

(* A goroutine that ends without a command in hand changes no ticket.      *)
LEMMA TicketsWithoutQuiet ==
  ASSUME NEW B, IsABag(B), NEW t, t.at \notin Holding
  PROVE  Tickets(B (-) SetToBag({t})) = Tickets(B)
  <1> DEFINE C == B (-) SetToBag({t})
  <1>1. /\ DOMAIN C \subseteq DOMAIN B
        /\ \A u \in DOMAIN B \ {t} : u \in DOMAIN C /\ C[u] = B[u]
    BY BagWithout
  <1> HIDE DEF C
  <1>2. \A u : u.at \in Holding =>
            /\ u \in DOMAIN C <=> u \in DOMAIN B
            /\ u \in DOMAIN C => C[u] = B[u]
    BY <1>1
  <1> QED BY <1>2, SameTickets DEF C

(* The number of commands in hand, before and after.                       *)
LEMMA Counting ==
  ASSUME Inv
  PROVE  /\ Cardinality(Tickets(threads)) \in Nat
         /\ queue \in Nat /\ forwarded \in Nat /\ proposed \in Nat /\ submitted \in Nat
         /\ submitted = queue + Cardinality(Tickets(threads)) + forwarded + proposed
         /\ CommandsConserved' <=>
               submitted' = queue' + Cardinality(Tickets(threads')) + forwarded' + proposed'
  <1>1. IsFiniteSet(Tickets(threads)) BY DEF Inv
  <1>2. Cardinality(Tickets(threads)) \in Nat BY <1>1, FS_CardinalityType
  <1>3. InHand = Cardinality(Tickets(threads)) BY InHandTickets
  <1>4. InHand' = Cardinality(Tickets(threads')) BY DEF InHand, Tickets, Holding
  <1>5. queue \in Nat /\ forwarded \in Nat /\ proposed \in Nat /\ submitted \in Nat
    BY PMAssumption DEF Inv, TypeOK
  <1> QED BY <1>2, <1>3, <1>4, <1>5 DEF Inv, CommandsConserved

(* OnBeat takes a command from submitC.                                    *)
LEMMA TakeKeeps ==
  ASSUME Inv, NEW t \in DOMAIN threads, Take(t)
  PROVE  Inv'
  <1> DEFINE s == At(t, "lead")
             C == threads (-) SetToBag({t})
  <1>0. IsABag(threads) /\ IsFiniteSet(Tickets(threads)) BY DEF Inv, TypeOK
  <1>1. t.at = "beat" /\ t.at \notin Holding BY DEF Take, Holding
  <1>2. Sound(s) /\ s.at = "lead"
    <2>1. Sound(t) /\ t.view # -1 BY <1>1, Stepping
    <2>2. "lead" \in Label BY DEF Label
    <2> QED BY <2>1, <2>2, AtSound
  <1>3. Run(t, {s}) /\ threads' = C (+) SetToBag({s}) BY DEF Take, Run
  <1> HIDE DEF s
  <1>4. Tickets(C) = Tickets(threads) /\ IsABag(C)
    BY <1>0, <1>1, TicketsWithoutQuiet, BagWithout
  <1> HIDE DEF C
  <1>5. s.at \in Holding BY <1>2 DEF Holding
  <1>6. /\ IsFiniteSet(Tickets(threads'))
        /\ Cardinality(Tickets(threads')) = Cardinality(Tickets(threads)) + 1
    BY <1>0, <1>3, <1>4, <1>5, OneMoreTicket
  <1>7. /\ queue > 0 /\ queue' = queue - 1
        /\ UNCHANGED <<curView, views, timer, tick, mut, core, input, submitted,
                       forwarded, proposed, answered, quorums>>
    BY DEF Take, history
  <1>8. CommandsConserved' BY <1>6, <1>7, Counting
  <1>9. queue' \in Nat /\ forwarded' \in Nat /\ proposed' \in Nat /\ timer' \in BOOLEAN
    BY <1>7 DEF Inv, TypeOK
  <1>10. \A x \in {s} : Sound(x) /\ x.at # "add" BY <1>2
  <1> QED BY <1>3, <1>6, <1>7, <1>8, <1>9, <1>10, BeatKeeps

(* OnBeat forwards its command, or goes on to propose it.                  *)
LEMMA LeadKeeps ==
  ASSUME Inv, NEW t \in DOMAIN threads, Lead(t)
  PROVE  Inv'
  <1> DEFINE s == At(t, "propose")
             C == threads (-) SetToBag({t})
  <1>0. IsABag(threads) /\ IsFiniteSet(Tickets(threads)) BY DEF Inv, TypeOK
  <1>1. t.at = "lead" /\ t.at \in Holding BY DEF Lead, Holding
  <1>2. Sound(s) /\ s.at = "propose"
    <2>1. Sound(t) /\ t.view # -1 BY <1>1, Stepping
    <2>2. "propose" \in Label BY DEF Label
    <2> QED BY <2>1, <2>2, AtSound
  <1>3. /\ IsABag(C) /\ IsFiniteSet(Tickets(C))
        /\ Cardinality(Tickets(C)) = Cardinality(Tickets(threads)) - 1
    BY <1>0, <1>1, OneTicketLess
  <1>4. UNCHANGED <<curView, views, queue, tick, mut, core, input, submitted,
                    proposed, answered, quorums>>
    BY DEF Lead
  <1>5. queue' \in Nat /\ proposed' \in Nat /\ timer \in BOOLEAN /\ forwarded \in Nat
    BY <1>4 DEF Inv, TypeOK
  <1>6. CASE Run(t, {}) /\ forwarded' = forwarded + 1 /\ timer' = TRUE
    <2> DEFINE S == {}
    <2>1. Run(t, S) /\ threads' = C (+) SetToBag(S) BY <1>6 DEF Run
    <2>2. \A x \in S : x.at \notin Holding /\ Sound(x) /\ x.at # "add" OBVIOUS
    <2> HIDE DEF C, S
    <2>3. Tickets(threads') = Tickets(C) BY <1>3, <2>1, <2>2, TicketsWithQuiet
    <2>4. CommandsConserved' BY <1>3, <1>4, <1>6, <2>3, Counting
    <2> QED BY <1>3, <1>4, <1>5, <1>6, <2>1, <2>2, <2>3, <2>4, BeatKeeps
  <1>7. CASE Run(t, {s}) /\ UNCHANGED <<forwarded, timer>>
    <2>1. threads' = C (+) SetToBag({s}) BY <1>7 DEF Run
    <2>2. s.at \in Holding BY <1>2 DEF Holding
    <2> HIDE DEF C, s
    <2>3. /\ IsFiniteSet(Tickets(threads'))
          /\ Cardinality(Tickets(threads')) = Cardinality(Tickets(C)) + 1
      BY <1>3, <2>1, <2>2, OneMoreTicket
    <2>4. Cardinality(Tickets(threads')) = Cardinality(Tickets(threads))
      BY <1>3, <2>3, Counting
    <2>5. CommandsConserved' BY <1>4, <1>7, <2>4, Counting
    <2>6. \A x \in {s} : Sound(x) /\ x.at # "add" BY <1>2
    <2> QED BY <1>4, <1>5, <1>7, <2>3, <2>5, <2>6, BeatKeeps
  <1> QED BY <1>6, <1>7 DEF Lead

(* OnBeat gives its command to OnPropose, which may fail.                  *)
LEMMA ProposeKeeps ==
  ASSUME Inv, NEW t \in DOMAIN threads, Propose(t)
  PROVE  Inv'
  <1> DEFINE C == threads (-) SetToBag({t})
             s == [New("event") EXCEPT !.view = curView]
  <1>0. IsABag(threads) /\ IsFiniteSet(Tickets(threads)) BY DEF Inv, TypeOK
  <1>1. t.at = "propose" /\ t.at \in Holding BY DEF Propose, Holding
  <1>2. Ok(s)
    <2>1. curView \in View /\ curView # -1 BY Stepping
    <2>2. "event" \in Label \ (Holding \cup {"add"}) BY QuietLabels
    <2> QED BY <2>1, <2>2, OkNewView
  <1>3. /\ IsABag(C) /\ IsFiniteSet(Tickets(C))
        /\ Cardinality(Tickets(C)) = Cardinality(Tickets(threads)) - 1
    BY <1>0, <1>1, OneTicketLess
  <1>4. PICK S \in {{}, {s}} : Run(t, S) BY DEF Propose
  <1>5. /\ proposed' = proposed + 1
        /\ UNCHANGED <<curView, views, queue, timer, tick, mut, core, input, submitted,
                       forwarded, answered, quorums>>
    BY DEF Propose
  <1> HIDE DEF s
  <1>6. \A x \in S : x.at \notin Holding /\ Sound(x) /\ x.at # "add"
    BY <1>2, <1>4 DEF Ok, Quiet
  <1>7. threads' = C (+) SetToBag(S) BY <1>4 DEF Run
  <1> HIDE DEF C
  <1>8. Tickets(threads') = Tickets(C) BY <1>3, <1>6, <1>7, TicketsWithQuiet
  <1>9. CommandsConserved' BY <1>3, <1>5, <1>8, Counting
  <1>10. queue' \in Nat /\ forwarded' \in Nat /\ proposed' \in Nat /\ timer' \in BOOLEAN
    BY <1>5 DEF Inv, TypeOK
  <1> QED BY <1>3, <1>4, <1>5, <1>6, <1>8, <1>9, <1>10, BeatKeeps

(* Submit puts one command into submitC and counts it.                     *)
LEMMA SubmitKeeps ==
  ASSUME Inv, Submit
  PROVE  Inv'
  <1>1. /\ submitted' = submitted + 1 /\ queue' = queue + 1 /\ submitted < MaxCmds
        /\ UNCHANGED <<curView, views, timer, tick, mut, threads, core, input,
                       forwarded, proposed, answered, quorums>>
    BY DEF Submit
  <1>2. CommandsConserved' BY <1>1, Counting
  <1>3. TypeOK' BY <1>1, PMAssumption DEF Inv, TypeOK, core
  <1>4. AllSound' /\ Inputs' /\ IsFiniteSet(views') /\ QuorumOnce'
        /\ CountedBelowHigh' /\ CountedNext' /\ IsFiniteSet(Tickets(threads))'
    BY <1>1 DEF Inv, AllSound, Inputs, QuorumOnce, Kept, CountedBelowHigh, CountedNext,
      Tickets, core
  <1> QED BY <1>2, <1>3, <1>4 DEF Inv

-----------------------------------------------------------------------------
(* The new-view messages.                                                  *)

(* A goroutine without a command moves on, and the commands stay.          *)
LEMMA MoveKeeps ==
  ASSUME Inv, NEW t \in DOMAIN threads, t.at \notin Holding, NEW S, Run(t, S),
         \A s \in S : Sound(s) /\ s.at \notin Holding,
         UNCHANGED <<queue, submitted, forwarded, proposed>>
  PROVE  /\ AllSound' /\ IsABag(threads') /\ BagToSet(threads') \subseteq Thread
         /\ DOMAIN threads' \subseteq DOMAIN threads \cup S
         /\ IsFiniteSet(Tickets(threads))' /\ CommandsConserved'
  <1> DEFINE C == threads (-) SetToBag({t})
  <1>0. IsABag(threads) /\ IsFiniteSet(Tickets(threads)) BY DEF Inv, TypeOK
  <1>1. IsABag(threads') /\ DOMAIN threads' \subseteq DOMAIN threads \cup S
    BY <1>0, RunBag
  <1>2. AllSound' BY <1>1 DEF Inv, AllSound
  <1>3. BagToSet(threads') \subseteq Thread BY <1>2 DEF BagToSet, AllSound, Sound
  <1>4. Tickets(C) = Tickets(threads) /\ IsABag(C)
    BY <1>0, TicketsWithoutQuiet, BagWithout
  <1>5. threads' = C (+) SetToBag(S) BY DEF Run
  <1> HIDE DEF C
  <1>6. Tickets(threads') = Tickets(threads) BY <1>4, <1>5, TicketsWithQuiet
  <1>7. CommandsConserved' BY <1>6, Counting
  <1>8. IsFiniteSet(Tickets(threads))' BY <1>0, <1>6
  <1> QED BY <1>1, <1>2, <1>3, <1>7, <1>8

(* A message whose QC is not newer than the highest is let through to be   *)
(* counted.                                                                *)
LEMMA LetThroughKeeps ==
  ASSUME Inv, NEW t \in DOMAIN threads, Lock(t), ~NewerQC(t), ~(t.view > curView)
  PROVE  Inv'
  <1> DEFINE s == At(t, "add")
  <1>0. /\ Sound(t) /\ t \in Thread /\ t.qc \in QC /\ high \in QC /\ high \in held
        /\ t.at \notin {"high", "qcf"} => t.view # -1
    BY Stepping, HighHeld
  <1>1. t.at = "mut" /\ t.at \notin Holding BY DEF Lock, Holding
  <1>2. Run(t, {s}) /\ UNCHANGED <<curView, views, queue, timer, tick, mut, core, input, history>>
    BY DEF Lock
  <1>3. Sound(s) /\ s.at = "add" /\ s.qc = t.qc
    <2>1. "add" \in Label BY DEF Label
    <2>2. Sound(s) /\ s.at = "add" BY <1>0, <1>1, <2>1, AtSound
    <2> QED BY <1>0, <2>2 DEF At, Thread
  <1>4. \A x \in {s} : Sound(x) /\ x.at \notin Holding BY <1>3 DEF Holding
  <1> HIDE DEF s
  <1>5. UNCHANGED <<queue, submitted, forwarded, proposed>> BY <1>2 DEF history
  <1>6. /\ AllSound' /\ IsABag(threads') /\ BagToSet(threads') \subseteq Thread
        /\ DOMAIN threads' \subseteq DOMAIN threads \cup {s}
        /\ IsFiniteSet(Tickets(threads))' /\ CommandsConserved'
    BY <1>1, <1>2, <1>4, <1>5, MoveKeeps
  <1>7. TypeOK' BY <1>2, <1>6 DEF Inv, TypeOK, history, core
  <1>8. CountedNext'
    <2> SUFFICES ASSUME NEW u \in DOMAIN threads', u.at = "add"
                 PROVE  \E q \in held : QcView[u.qc] <= QcView[q]
      BY <1>2 DEF CountedNext, core
    <2>1. CASE u \in DOMAIN threads BY <2>1 DEF Inv, CountedNext
    <2>2. CASE u = s
      <3>1. QcView[t.qc] \in Int /\ QcView[high] \in Int
        BY <1>0, PMAssumption DEF View
      <3>2. QcView[t.qc] <= QcView[high] BY <3>1 DEF NewerQC
      <3> QED BY <1>0, <1>3, <2>2, <3>2
    <2> QED BY <1>6, <2>1, <2>2
  <1>9. CountedBelowHigh' /\ QuorumOnce' /\ IsFiniteSet(views') /\ Inputs'
    BY <1>2 DEF Inv, CountedBelowHigh, QuorumOnce, Kept, Inputs, history, core
  <1> QED BY <1>6, <1>7, <1>8, <1>9 DEF Inv

(* The messages of a view are finitely many, and the quorum is not empty.  *)
LEMMA KeptFinite ==
  ASSUME Inv, NEW v \in View
  PROVE  /\ IsFiniteSet(Kept(v)) /\ Cardinality(Kept(v)) \in Nat
         /\ QuorumSize \in Nat /\ QuorumSize > 0
  <1>1. IsFiniteSet(views) /\ Kept(v) \in SUBSET views BY DEF Inv, Kept
  <1>2. IsFiniteSet(Kept(v)) BY <1>1, FS_Subset
  <1>3. Cardinality(Kept(v)) \in Nat BY <1>2, FS_CardinalityType
  <1>4. QuorumSize \in Nat /\ QuorumSize > 0 BY PMAssumption DEF QuorumSize
  <1> QED BY <1>2, <1>3, <1>4

(* addNewViewMsg: of the messages of the view, one more, or one instead of *)
(* others of its sender, or none.                                          *)
LEMMA AddKeepsQuorum ==
  ASSUME Inv, NEW t \in DOMAIN threads, AddNewViewMsg(t)
  PROVE  /\ QuorumOnce' /\ IsFiniteSet(views')
         /\ views' \subseteq views \cup {MessageOf(t)}
         /\ quorums' \in [View -> Nat]
  <1> DEFINE w == t.view
             m == MessageOf(t)
             K == Kept(w)
  <1>0. t.at = "add" /\ w \in View
    <2>1. t.at = "add" BY DEF AddNewViewMsg
    <2> QED BY <2>1, Stepping
  <1>1. /\ IsFiniteSet(K) /\ Cardinality(K) \in Nat
        /\ QuorumSize \in Nat /\ QuorumSize > 0 /\ IsFiniteSet(views)
    BY <1>0, KeptFinite DEF Inv
  <1>2. m.view = w /\ m.from = t.who BY DEF MessageOf
  <1>3. quorums \in [View -> Nat] /\ \A v \in View :
           quorums[v] = IF Cardinality(Kept(v)) < QuorumSize THEN 0 ELSE 1
    BY DEF Inv, TypeOK, QuorumOnce
  <1>4. CASE UNCHANGED <<views, quorums>>
    BY <1>1, <1>3, <1>4 DEF QuorumOnce, Kept
  <1>5. CASE /\ Cardinality(K) < QuorumSize /\ Replaced(t) # {}
             /\ views' = (views \ Replaced(t)) \cup {m} /\ quorums' = quorums
    <2> DEFINE R == Replaced(t)
    <2>1. R \subseteq K BY DEF Replaced
    <2>2. PICK r \in R : r \in K BY <1>5, <2>1
    <2>3. IsFiniteSet(K \ {r}) /\ Cardinality(K \ {r}) = Cardinality(K) - 1
      BY <1>1, <2>2, FS_RemoveElement
    <2>4. K \ R \in SUBSET (K \ {r}) BY <2>2
    <2>5. IsFiniteSet(K \ R) /\ Cardinality(K \ R) <= Cardinality(K \ {r})
      BY <2>3, <2>4, FS_Subset
    <2>6. Cardinality(K \ R) \in Nat BY <2>5, FS_CardinalityType
    <2>7. Cardinality((K \ R) \cup {m}) = IF m \in K \ R THEN Cardinality(K \ R)
                                                     ELSE Cardinality(K \ R) + 1
      BY <2>5, FS_AddElement
    <2>8. Cardinality((K \ R) \cup {m}) < QuorumSize
      BY <1>1, <1>5, <2>3, <2>5, <2>6, <2>7
    <2>9. ASSUME NEW v \in View PROVE quorums'[v] = IF Cardinality(Kept(v)') < QuorumSize
                                                    THEN 0 ELSE 1
      <3>1. CASE v = w
        <4>1. Kept(v)' = (K \ R) \cup {m} BY <1>2, <1>5, <3>1 DEF Kept
        <4> QED BY <1>3, <1>5, <2>8, <3>1, <4>1
      <3>2. CASE v # w
        <4>1. \A x \in R : x.view = w BY <2>1 DEF Kept
        <4>2. Kept(v)' = Kept(v) BY <1>2, <1>5, <3>2, <4>1 DEF Kept
        <4> QED BY <1>3, <1>5, <4>2
      <3> QED BY <3>1, <3>2
    <2>10. IsFiniteSet(views')
      <3>1. views \ R \in SUBSET views OBVIOUS
      <3>2. IsFiniteSet(views \ R) BY <1>1, <3>1, FS_Subset
      <3> QED BY <1>5, <3>2, FS_AddElement
    <2> QED BY <1>3, <1>5, <2>9, <2>10 DEF QuorumOnce
  <1>6. CASE /\ Cardinality(K) < QuorumSize /\ ~Known(t)
             /\ views' = views \cup {m}
             /\ quorums' = IF Cardinality(K) + 1 = QuorumSize
                           THEN [quorums EXCEPT ![w] = @ + 1] ELSE quorums
    <2>1. m \notin K BY <1>2, <1>6 DEF Known
    <2>2. Cardinality(K \cup {m}) = Cardinality(K) + 1 BY <1>1, <2>1, FS_AddElement
    <2>3. quorums[w] = 0 BY <1>0, <1>3, <1>6
    <2>4. ASSUME NEW v \in View PROVE quorums'[v] = IF Cardinality(Kept(v)') < QuorumSize
                                                    THEN 0 ELSE 1
      <3>1. CASE v = w
        <4>1. Kept(v)' = K \cup {m} BY <1>2, <1>6, <3>1 DEF Kept
        <4>2. CASE Cardinality(K) + 1 = QuorumSize
          <5>1. quorums'[w] = 1 BY <1>0, <1>3, <1>6, <2>3, <4>2
          <5> QED BY <1>1, <2>2, <3>1, <4>1, <4>2, <5>1
        <4>3. CASE Cardinality(K) + 1 # QuorumSize
          <5>1. quorums'[w] = 0 BY <1>6, <2>3, <4>3
          <5>2. Cardinality(K) + 1 < QuorumSize BY <1>1, <1>6, <4>3
          <5> QED BY <2>2, <3>1, <4>1, <5>1, <5>2
        <4> QED BY <4>2, <4>3
      <3>2. CASE v # w
        <4>1. Kept(v)' = Kept(v) BY <1>2, <1>6, <3>2 DEF Kept
        <4>2. quorums'[v] = quorums[v] BY <1>3, <1>6, <3>2
        <4> QED BY <1>3, <4>1, <4>2
      <3> QED BY <3>1, <3>2
    <2>5. IsFiniteSet(views') BY <1>1, <1>6, FS_AddElement
    <2>6. quorums' \in [View -> Nat] BY <1>3, <1>6, <1>0
    <2> QED BY <1>6, <2>4, <2>5, <2>6 DEF QuorumOnce
  <1> HIDE DEF K, m, w
  <1>7. \/ UNCHANGED <<views, quorums>>
        \/ /\ Cardinality(K) < QuorumSize /\ Replaced(t) # {}
           /\ views' = (views \ Replaced(t)) \cup {m} /\ quorums' = quorums
        \/ /\ Cardinality(K) < QuorumSize /\ ~Known(t)
           /\ views' = views \cup {m}
           /\ quorums' = IF Cardinality(K) + 1 = QuorumSize
                         THEN [quorums EXCEPT ![w] = @ + 1] ELSE quorums
    BY DEF AddNewViewMsg, K, m, w
  <1> QED BY <1>4, <1>5, <1>6, <1>7

(* addNewViewMsg keeps the invariant: what it counts is not above the      *)
(* highest QC, and a full set is acted upon once.                          *)
LEMMA AddKeeps ==
  ASSUME Inv, NEW t \in DOMAIN threads, AddNewViewMsg(t)
  PROVE  Inv'
  <1>0. /\ Sound(t) /\ t \in Thread /\ t.qc \in QC /\ t.who \in Replica
        /\ t.at \notin {"high", "qcf"} => t.view # -1 /\ t.view \in View
    BY Stepping DEF Thread
  <1>1. t.at = "add" /\ t.at \notin Holding BY DEF AddNewViewMsg, Holding
  <1>2. UNCHANGED <<curView, queue, timer, tick, mut, core, input, submitted,
                    forwarded, proposed, answered>>
    BY DEF AddNewViewMsg
  <1>3. PICK S : Run(t, S) /\ \A s \in S : Ok(s)
    <2>1. Ok(At(t, "apply")) BY <1>0, <1>1, OkAt, QuietLabels
    <2>2. \A s \in Returns(t) : Ok(s) BY <1>0, ReturnsSound DEF Ok
    <2>3. \A s \in {At(t, "apply")} : Ok(s) BY <2>1
    <2>4. Run(t, Returns(t)) \/ Run(t, {At(t, "apply")}) BY DEF AddNewViewMsg
    <2> QED BY <2>2, <2>3, <2>4
  <1>4. \A s \in S : Sound(s) /\ s.at \notin Holding /\ s.at # "add" BY <1>3 DEF Ok, Quiet
  <1>5. /\ AllSound' /\ IsABag(threads') /\ BagToSet(threads') \subseteq Thread
        /\ DOMAIN threads' \subseteq DOMAIN threads \cup S
        /\ IsFiniteSet(Tickets(threads))' /\ CommandsConserved'
    BY <1>1, <1>2, <1>3, <1>4, MoveKeeps
  <1>6. /\ QuorumOnce' /\ IsFiniteSet(views')
        /\ views' \subseteq views \cup {MessageOf(t)}
        /\ quorums' \in [View -> Nat]
    BY AddKeepsQuorum
  <1>7. MessageOf(t) \in Message /\ MessageOf(t).qc = t.qc
    BY <1>0, <1>1 DEF MessageOf, Message
  <1>8. TypeOK'
    <2>1. views' \subseteq Message BY <1>6, <1>7 DEF Inv, TypeOK
    <2> QED BY <1>2, <1>5, <1>6, <2>1 DEF Inv, TypeOK, core
  <1>9. CountedBelowHigh'
    <2>1. ASSUME NEW x \in views' PROVE \E q \in held : QcView[x.qc] <= QcView[q]
      <3>1. CASE x \in views BY <3>1 DEF Inv, CountedBelowHigh
      <3>2. CASE x = MessageOf(t) BY <1>1, <1>7, <3>2 DEF Inv, CountedNext
      <3> QED BY <1>6, <3>1, <3>2
    <2> QED BY <1>2, <2>1 DEF Inv, CountedBelowHigh, core
  <1>10. CountedNext' BY <1>2, <1>4, <1>5 DEF Inv, CountedNext, core
  <1>11. Inputs' BY <1>2 DEF Inv, Inputs
  <1> QED BY <1>5, <1>6, <1>8, <1>9, <1>10, <1>11 DEF Inv

(* clearViews: the messages of earlier views are deleted, all of them.     *)
LEMMA ClearKeeps ==
  ASSUME Inv, NEW t \in DOMAIN threads, ClearViews(t)
  PROVE  Inv'
  <1>0. Sound(t) /\ curView \in View BY Stepping
  <1>1. t.at = "clear" /\ t.at \notin Holding BY DEF ClearViews, Holding
  <1>2. /\ views' = {m \in views : m.view >= curView}
        /\ quorums' = [v \in View |-> IF v < curView THEN 0 ELSE quorums[v]]
        /\ Run(t, Returns(t))
        /\ UNCHANGED <<curView, queue, timer, tick, mut, core, input, submitted,
                       forwarded, proposed, answered>>
    BY DEF ClearViews
  <1>3. \A s \in Returns(t) : Sound(s) /\ s.at \notin Holding /\ s.at # "add"
    BY <1>0, ReturnsSound DEF Quiet
  <1>4. /\ AllSound' /\ IsABag(threads') /\ BagToSet(threads') \subseteq Thread
        /\ DOMAIN threads' \subseteq DOMAIN threads \cup Returns(t)
        /\ IsFiniteSet(Tickets(threads))' /\ CommandsConserved'
    BY <1>1, <1>2, <1>3, MoveKeeps
  <1>5. views' \in SUBSET views BY <1>2
  <1>6. IsFiniteSet(views') BY <1>5, FS_Subset DEF Inv
  <1>7. quorums \in [View -> Nat] BY DEF Inv, TypeOK
  <1>8. TypeOK' BY <1>2, <1>4, <1>5, <1>7 DEF Inv, TypeOK, core
  <1>9. QuorumOnce'
    <2>1. ASSUME NEW v \in View PROVE quorums'[v] = IF Cardinality(Kept(v)') < QuorumSize
                                                    THEN 0 ELSE 1
      <3>1. v \in Int /\ curView \in Int BY <1>0 DEF View
      <3>2. CASE v < curView
        <4>1. Kept(v)' = {} BY <1>2, <3>1, <3>2 DEF Kept
        <4>2. Cardinality(Kept(v)') = 0 BY <4>1, FS_EmptySet
        <4>3. QuorumSize > 0 BY KeptFinite
        <4>4. quorums'[v] = 0 BY <1>2, <3>2
        <4> QED BY <4>2, <4>3, <4>4
      <3>3. CASE ~(v < curView)
        <4>1. Kept(v)' = Kept(v)
          <5>1. v >= curView BY <3>1, <3>3
          <5> QED BY <1>2, <5>1 DEF Kept
        <4>2. quorums'[v] = quorums[v] BY <1>2, <3>3
        <4> QED BY <4>1, <4>2 DEF Inv, QuorumOnce
      <3> QED BY <3>2, <3>3
    <2> QED BY <2>1 DEF QuorumOnce
  <1>10. CountedBelowHigh'
    BY <1>2, <1>5 DEF Inv, CountedBelowHigh, core
  <1>11. CountedNext'
    BY <1>2, <1>3, <1>4 DEF Inv, CountedNext, core
  <1>12. Inputs' BY <1>2 DEF Inv, Inputs
  <1> QED BY <1>4, <1>6, <1>8, <1>9, <1>10, <1>11, <1>12 DEF Inv

-----------------------------------------------------------------------------
(* The invariant holds.                                                    *)

(* Run starts one OnBeat and nothing else.                                 *)
LEMMA InvInit == Init => Inv
  <1> SUFFICES ASSUME Init PROVE Inv OBVIOUS
  <1> DEFINE b == New("beat")
  <1>0. /\ curView = 0 /\ views = {} /\ queue = 0
        /\ timer = FALSE /\ tick = FALSE /\ mut = FALSE
        /\ threads = SetToBag({b}) /\ high = Genesis /\ held = {Genesis}
        /\ input = [proposals |-> Proposals, newViews |-> NewViews, qcs |-> Finished]
        /\ submitted = 0 /\ forwarded = 0 /\ proposed = 0 /\ answered = {}
        /\ quorums = [v \in View |-> 0]
    BY DEF Init
  <1>1. Sound(b) /\ b.at = "beat"
    <2>1. "beat" \in Label /\ 0 \in View /\ 0 # -1 BY PMAssumption DEF Label, View
    <2> QED BY <2>1, NewSound
  <1> HIDE DEF b
  <1>2. IsABag(threads) /\ DOMAIN threads = {b}
    BY <1>0 DEF IsABag, SetToBag
  <1>3. AllSound BY <1>1, <1>2 DEF AllSound
  <1>4. TypeOK
    <2>1. b \in Thread BY <1>1 DEF Sound
    <2>2. BagToSet(threads) \subseteq Thread BY <1>2, <2>1 DEF BagToSet
    <2>3. 0 \in View /\ MaxCmds \in Nat /\ Genesis \in QC BY PMAssumption DEF View
    <2>4. quorums \in [View -> Nat] BY <1>0
    <2>5. submitted \in 0..MaxCmds BY <1>0, <2>3
    <2>6. views \subseteq Message /\ answered \subseteq View BY <1>0
    <2>7. /\ curView \in View /\ queue \in Nat /\ held \subseteq QC /\ high \in held
          /\ timer \in BOOLEAN /\ tick \in BOOLEAN /\ mut \in BOOLEAN
          /\ forwarded \in Nat /\ proposed \in Nat
      BY <1>0, <2>3
    <2> QED BY <1>2, <2>2, <2>4, <2>5, <2>6, <2>7 DEF TypeOK
  <1>5. Inputs BY <1>0 DEF Inputs
  <1>6. IsFiniteSet(views) BY <1>0, FS_EmptySet
  <1>7. CountedBelowHigh /\ CountedNext
    <2>1. QcHeight[Genesis] \in Nat BY PMAssumption
    <2> QED BY <1>0, <1>1, <1>2, <2>1 DEF CountedBelowHigh, CountedNext
  <1>8. QuorumOnce
    <2>1. QuorumSize > 0 /\ QuorumSize \in Nat BY PMAssumption DEF QuorumSize
    <2>2. ASSUME NEW v \in View PROVE quorums[v] = 0 /\ Cardinality(Kept(v)) = 0
      <3>1. Kept(v) = {} BY <1>0 DEF Kept
      <3> QED BY <1>0, <3>1, FS_EmptySet
    <2> QED BY <2>1, <2>2 DEF QuorumOnce
  <1>9. Tickets(threads) = {}
    <2>1. b.at \notin Holding BY <1>1 DEF Holding
    <2>2. \A w : w \notin Tickets(threads) BY <1>2, <2>1, TicketOf
    <2> QED BY <2>2
  <1>10. IsFiniteSet(Tickets(threads)) /\ Cardinality(Tickets(threads)) = 0
    BY <1>9, FS_EmptySet
  <1>11. CommandsConserved
    BY <1>0, <1>10, InHandTickets DEF CommandsConserved
  <1> QED BY <1>3, <1>4, <1>5, <1>6, <1>7, <1>8, <1>10, <1>11 DEF Inv

(* Every step of a goroutine keeps the invariant.                          *)
LEMMA ThreadKeeps ==
  ASSUME Inv, NEW t \in DOMAIN threads, ThreadStep(t)
  PROVE  Inv'
  <1>1. CASE Take(t) \/ Lead(t) \/ Propose(t)
    BY <1>1, TakeKeeps, LeadKeeps, ProposeKeeps
  <1>2. CASE \/ Event(t) \/ Link(t) \/ Skip(t) \/ Recv(t) \/ RecvSet(t) \/ RecvLead(t)
             \/ RecvLink(t) \/ RecvSkip(t) \/ SendVote(t) \/ NewView(t) \/ SyncView(t)
             \/ SyncMsg(t) \/ Enter(t) \/ Relay(t) \/ SendNewView(t) \/ QcFinishSet(t)
             \/ QcFinishLead(t) \/ QcFinishNext(t) \/ QcFinishGo(t)
    BY <1>2, IdleSteps, IdleKeeps
  <1>3. CASE \/ RecvNew(t) \/ High(t) \/ Set(t) \/ Go(t) \/ Apply(t) \/ Finish(t)
             \/ Sync(t) \/ OwnNewView(t) \/ QcFinish(t)
    BY <1>3, CallSteps, IdleKeeps
  <1>4. CASE Lock(t)
    <2>1. CASE NewerQC(t) \/ t.view > curView BY <1>4, <2>1, LockSteps, IdleKeeps
    <2>2. CASE ~NewerQC(t) /\ ~(t.view > curView) BY <1>4, <2>2, LetThroughKeeps
    <2> QED BY <2>1, <2>2
  <1>5. CASE AddNewViewMsg(t) \/ ClearViews(t) BY <1>5, AddKeeps, ClearKeeps
  <1> QED BY <1>1, <1>2, <1>3, <1>4, <1>5 DEF ThreadStep

(* Every step of the replica and its environment keeps the invariant.      *)
LEMMA InvNext == Inv /\ [Next]_vars => Inv'
  <1> SUFFICES ASSUME Inv, [Next]_vars PROVE Inv' OBVIOUS
  <1>1. CASE SomeThread BY <1>1, ThreadKeeps DEF SomeThread, BagToSet
  <1>2. CASE Expire \/ Tick BY <1>2, TimerSteps, IdleKeeps
  <1>3. CASE Environment
    <2>1. CASE Submit BY <2>1, SubmitKeeps
    <2>2. CASE \E t \in BagToSet(threads) : Wait(t)
      BY <2>2, IdleSteps, IdleKeeps DEF BagToSet
    <2>3. CASE \/ \E p \in input.proposals : ReceiveProposal(p)
               \/ \E m \in input.newViews : ReceiveNewView(m)
               \/ \E q \in input.qcs : CollectQC(q)
      BY <2>3, InputSteps, IdleKeeps
    <2> QED BY <1>3, <2>1, <2>2, <2>3 DEF Environment
  <1>4. CASE UNCHANGED vars
    BY <1>4 DEF vars, history, Inv, TypeOK, AllSound, Inputs, CountedBelowHigh, CountedNext,
      core, QuorumOnce, Kept, Tickets, CommandsConserved, InHand
  <1> QED BY <1>1, <1>2, <1>3, <1>4 DEF Next

(* So every reachable state of the pacemaker satisfies it.                 *)
LEMMA Invariance == Spec => []Inv
  BY InvInit, InvNext, PTL DEF Spec

(* Every variable of the pacemaker keeps its type, the locals and the      *)
(* return lines of every goroutine included.                               *)
THEOREM TypeCorrect == Spec => []TypeOK
  <1>1. Inv => TypeOK BY DEF Inv
  <1> QED BY <1>1, Invariance, PTL

(* OnReceiveNewView: no counted message has a QC of a later view than all  *)
(* the QCs the core has held, and the one it holds is the highest of them, *)
(* for every interleaving of the goroutines, though the lock is released   *)
(* between the comparison and addNewViewMsg, and for any views and heights *)
(* of the QCs, those of two branches included.                             *)
THEOREM CountedNotAbove == Spec => []CountedBelowHigh
  <1>1. Inv => CountedBelowHigh BY DEF Inv
  <1> QED BY <1>1, Invariance, PTL

(* addNewViewMsg and clearViews: a quorum of new-view messages is acted    *)
(* upon exactly once, for every number of replicas and order of messages.  *)
THEOREM QuorumActedOnce == Spec => []QuorumOnce
  <1>1. Inv => QuorumOnce BY DEF Inv
  <1> QED BY <1>1, Invariance, PTL

(* OnBeat and Submit: no command is lost or used twice between submitC and *)
(* the core, however many OnBeat goroutines compete for it.                *)
THEOREM NoCommandLost == Spec => []CommandsConserved
  <1>1. Inv => CommandsConserved BY DEF Inv
  <1> QED BY <1>1, Invariance, PTL
=============================================================================
