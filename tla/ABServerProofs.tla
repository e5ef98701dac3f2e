-------------------------- MODULE ABServerProofs --------------------------
(***************************************************************************)
(* Proofs about ABServer: no goroutine of the transport sends on, or       *)
(* closes, a closed channel, however many peers, streams and senders there *)
(* are.                                                                    *)
(*                                                                         *)
(* NoSendOnClosed is not inductive.  What makes it hold is sendLock: while *)
(* a sender holds it for reading no handler changes the map, so that the   *)
(* channels it has still to send to are all in the map (ReadersProtect);   *)
(* and that a channel enters the map once, under the peer of its stream    *)
(* (OwnChannel), so that closing the channel of a peer closes no channel   *)
(* that another peer, or the handler's own stream, uses (FreshUnused).     *)
(***************************************************************************)
EXTENDS ABServer, TLAPS

(* A channel stands in the map under the peer that opened its stream.      *)
OwnChannel == \A p \in Registered : PeerOf[sendChan[p]] = p

(* A sender under way holds the lock, and has still to send only to        *)
(* channels of the map.                                                    *)
ReadersProtect ==
    \A g \in Sender : spc[g] = "sending" =>
        /\ g \in readers
        /\ \A c \in todo[g] : \E p \in Registered : sendChan[p] = c

(* The channel of a handler that has not registered is neither in the map  *)
(* nor closed.                                                             *)
Fresh(c) == hpc[c] \in {"none", "register"}

FreshUnused ==
    /\ \A c \in closed : ~Fresh(c)
    /\ \A p \in Registered : ~Fresh(sendChan[p])

OpenChannels == \A p \in Registered : sendChan[p] \notin closed

NoPanic == \A g \in Sender : spc[g] # "panic"

Inv ==
    /\ TypeOK
    /\ OwnChannel
    /\ ReadersProtect
    /\ FreshUnused
    /\ OpenChannels
    /\ NoPanic

-----------------------------------------------------------------------------
(* The initial state: the map is empty, no handler and no sender has begun.*)
LEMMA InitInv == Init => Inv
  BY StreamAssumption
  DEF Init, Inv, TypeOK, OwnChannel, ReadersProtect, FreshUnused, Fresh,
      OpenChannels, NoPanic, Registered, HandlerPC, SenderPC, Sender

(* Every step keeps the types.                                             *)
LEMMA NextTypeOK == TypeOK /\ [Next]_vars => TypeOK'
  <1> SUFFICES ASSUME TypeOK, [Next]_vars PROVE TypeOK'
    OBVIOUS
  <1> USE StreamAssumption DEF TypeOK, HandlerPC, SenderPC
  <1>1. ASSUME NEW c \in Stream, HandlerStep(c) PROVE TypeOK'
    <2>1. CASE Register(c) BY <2>1 DEF Register
    <2>2. CASE Send(c) BY <2>2 DEF Send
    <2>3. CASE Unregister(c) BY <2>3 DEF Unregister
    <2>4. CASE HandlerEnd(c) BY <2>4 DEF HandlerEnd
    <2> QED BY <1>1, <2>1, <2>2, <2>3, <2>4 DEF HandlerStep
  <1>2. ASSUME NEW c \in Stream, Connect(c) PROVE TypeOK'
    BY <1>2 DEF Connect
  <1>3. ASSUME NEW c \in Stream, Break(c) PROVE TypeOK'
    BY <1>3 DEF Break
  <1>4. ASSUME NEW g \in Sender, SenderStep(g) PROVE TypeOK'
    <2>1. CASE Begin(g) BY <2>1 DEF Begin, Registered
    <2>2. ASSUME NEW c \in Stream, Transfer(g, c) PROVE TypeOK'
      BY <2>2 DEF Transfer
    <2>3. CASE End(g) BY <2>3 DEF End
    <2> QED BY <1>4, <2>1, <2>2, <2>3 DEF SenderStep
  <1>5. CASE UNCHANGED vars BY <1>5 DEF vars
  <1> QED BY <1>1, <1>2, <1>3, <1>4, <1>5 DEF Next

-----------------------------------------------------------------------------
(* Handshake registers a channel: it closes the one it replaces, which no  *)
(* other peer has, and no sender is under way.                             *)
LEMMA RegisterInv ==
  ASSUME NEW c \in Stream, Inv, TypeOK', Register(c)
  PROVE  Inv'
  <1> USE StreamAssumption DEF Inv, TypeOK, Registered, Fresh
  <1> DEFINE p0 == PeerOf[c]
  <1>1. p0 \in Peer /\ hpc[c] = "register" /\ readers = {}
    BY DEF Register, CanLock
  <1>2. /\ sendChan' = [sendChan EXCEPT ![p0] = c]
        /\ hpc' = [hpc EXCEPT ![c] = "recv"]
        /\ closed' = closed \cup ({sendChan[p0]} \ {NoStream})
        /\ spc' = spc /\ readers' = readers
    BY DEF Register
  <1>3. OwnChannel'
    BY <1>1, <1>2 DEF OwnChannel
  <1>4. ReadersProtect'
    BY <1>1, <1>2 DEF ReadersProtect
  <1>5. FreshUnused'
    BY <1>1, <1>2 DEF FreshUnused
  <1>6. OpenChannels'
    <2> SUFFICES ASSUME NEW p \in Registered' PROVE sendChan'[p] \notin closed'
      BY DEF OpenChannels
    <2>1. CASE p = p0
      BY <2>1, <1>1, <1>2 DEF FreshUnused
    <2>2. CASE p # p0
      <3>1. p \in Registered /\ sendChan'[p] = sendChan[p]
        BY <2>2, <1>2
      <3>2. sendChan[p] \notin closed
        BY <3>1 DEF OpenChannels
      <3>3. sendChan[p0] # NoStream => sendChan[p0] # sendChan[p]
        BY <2>2, <3>1, <1>1 DEF OwnChannel
      <3> QED BY <3>1, <3>2, <3>3, <1>2
    <2> QED BY <2>1, <2>2
  <1>7. NoPanic'
    BY <1>2 DEF NoPanic
  <1> QED BY <1>3, <1>4, <1>5, <1>6, <1>7

(* The handler that lost its stream takes the entry of its peer out of the *)
(* map, again while no sender is under way.                                *)
LEMMA UnregisterInv ==
  ASSUME NEW c \in Stream, Inv, TypeOK', Unregister(c)
  PROVE  Inv'
  <1> USE StreamAssumption DEF Inv, TypeOK, Registered, Fresh
  <1> DEFINE p0 == PeerOf[c]
  <1>1. /\ p0 \in Peer /\ readers = {} /\ hpc[c] = "unregister"
        /\ sendChan' = [sendChan EXCEPT ![p0] = NoStream]
        /\ hpc' = [hpc EXCEPT ![c] = "recv"]
        /\ closed' = closed /\ spc' = spc /\ readers' = readers
    BY DEF Unregister, CanLock
  <1>2. OwnChannel'     BY <1>1 DEF OwnChannel
  <1>3. ReadersProtect' BY <1>1 DEF ReadersProtect
  <1>4. FreshUnused'    BY <1>1 DEF FreshUnused
  <1>5. OpenChannels'   BY <1>1 DEF OpenChannels
  <1>6. NoPanic'        BY <1>1 DEF NoPanic
  <1> QED BY <1>2, <1>3, <1>4, <1>5, <1>6

(* A step that changes neither the map nor the set of closed channels, and *)
(* makes no handler fresh, only has to account for what senders do.        *)
LEMMA MapKept ==
  ASSUME Inv, TypeOK',
         UNCHANGED <<sendChan, closed>>,
         \A c \in Stream : Fresh(c)' => Fresh(c)
  PROVE  OwnChannel' /\ FreshUnused' /\ OpenChannels'
  BY StreamAssumption
  DEF Inv, TypeOK, OwnChannel, FreshUnused, OpenChannels, Registered, Fresh

(* The inductive step.                                                     *)
LEMMA NextInv == Inv /\ [Next]_vars => Inv'
  <1> SUFFICES ASSUME Inv, [Next]_vars PROVE Inv'
    OBVIOUS
  <1>t. TypeOK'
    BY NextTypeOK DEF Inv
  <1>k. ASSUME UNCHANGED <<sendChan, closed>>,
               \A c \in Stream : Fresh(c)' => Fresh(c),
               ReadersProtect', NoPanic'
        PROVE  Inv'
    BY <1>k, <1>t, MapKept DEF Inv
  <1>s. ASSUME UNCHANGED <<sendChan, closed, spc, todo, readers>>,
               \A c \in Stream : Fresh(c)' => Fresh(c)
        PROVE  Inv'
    <2>1. ReadersProtect' BY <1>s DEF Inv, ReadersProtect, Registered
    <2>2. NoPanic'        BY <1>s DEF Inv, NoPanic
    <2> QED BY <1>s, <1>k, <2>1, <2>2
  <1>1. ASSUME NEW c \in Stream, HandlerStep(c) PROVE Inv'
    <2>1. CASE Register(c)   BY <2>1, <1>t, RegisterInv
    <2>2. CASE Unregister(c) BY <2>2, <1>t, UnregisterInv
    <2>3. CASE Send(c)
      BY <2>3, <1>s DEF Send, Fresh, Inv, TypeOK
    <2>4. CASE HandlerEnd(c)
      BY <2>4, <1>s DEF HandlerEnd, Fresh, Inv, TypeOK
    <2> QED BY <1>1, <2>1, <2>2, <2>3, <2>4 DEF HandlerStep
  <1>2. ASSUME NEW c \in Stream, Connect(c) PROVE Inv'
    BY <1>2, <1>s DEF Connect, Fresh, Inv, TypeOK
  <1>3. ASSUME NEW c \in Stream, Break(c) PROVE Inv'
    BY <1>3, <1>s DEF Break, Fresh
  <1>4. ASSUME NEW g \in Sender, SenderStep(g) PROVE Inv'
    <2>1. CASE Begin(g)
      <3>1. ReadersProtect'
        BY <2>1 DEF Begin, Inv, TypeOK, ReadersProtect, Registered
      <3>2. NoPanic'
        BY <2>1 DEF Begin, Inv, TypeOK, NoPanic
      <3> QED BY <2>1, <3>1, <3>2, <1>k DEF Begin, Fresh
    <2>2. ASSUME NEW c \in Stream, Transfer(g, c) PROVE Inv'
      <3>1. c \notin closed
        BY <2>2 DEF Transfer, Inv, ReadersProtect, OpenChannels
      <3>2. /\ UNCHANGED <<sendChan, closed, readers, spc>>
            /\ hpc[c] = "recv"
            /\ hpc' = [hpc EXCEPT ![c] = "send"]
            /\ todo' = [todo EXCEPT ![g] = @ \ {c}]
        BY <2>2, <3>1 DEF Transfer
      <3>3. ReadersProtect'
        BY <3>2 DEF Inv, TypeOK, ReadersProtect, Registered
      <3>4. NoPanic'
        BY <3>2 DEF Inv, NoPanic
      <3> QED BY <3>2, <3>3, <3>4, <1>k DEF Fresh, Inv, TypeOK
    <2>3. CASE End(g)
      <3>1. ReadersProtect'
        BY <2>3 DEF End, Inv, TypeOK, ReadersProtect, Registered
      <3>2. NoPanic'
        BY <2>3 DEF End, Inv, TypeOK, NoPanic
      <3> QED BY <2>3, <3>1, <3>2, <1>k DEF End, Fresh
    <2> QED BY <1>4, <2>1, <2>2, <2>3 DEF SenderStep
  <1>5. CASE UNCHANGED vars
    BY <1>5, <1>s DEF vars, Fresh
  <1> QED BY <1>1, <1>2, <1>3, <1>4, <1>5 DEF Next

(* The invariant holds in every reachable state.                           *)
LEMMA InvHolds == Spec => []Inv
  BY InitInv, NextInv, PTL DEF Spec

-----------------------------------------------------------------------------
(* The variables of the transport keep their types: in particular a sender *)
(* has only real channels to send to, never the absent one; and sendLock is*)
(* held for reading by the senders under way and by no other goroutine, so *)
(* that every way out of Broadcast and Unicast gives it back.              *)
THEOREM TypeCorrect == Spec => []TypeOK
  <1>1. Inv => TypeOK BY DEF Inv
  <1> QED BY InvHolds, <1>1, PTL

(* No Broadcast, no Unicast and no Handshake ever panics on a closed       *)
(* channel, for any number of peers that reconnect any number of times.    *)
THEOREM NeverSendsOnClosed == Spec => []NoSendOnClosed
  <1>1. Inv => NoSendOnClosed
    BY DEF Inv, NoSendOnClosed, ReadersProtect, OpenChannels, NoPanic
  <1> QED BY InvHolds, <1>1, PTL
=============================================================================
