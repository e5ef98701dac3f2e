------------------------------ MODULE ABServer ------------------------------
(***************************************************************************)
(* The sending side of a replica's transport, transport/abserver.go: one   *)
(* goroutine per stream that a peer opened (Handshake) takes messages from *)
(* an unbuffered channel and writes them to the stream; Broadcast and      *)
(* Unicast put a message into the channels.  sendLock, a sync.RWMutex,     *)
(* protects the map from peers to channels, and is held while sending.     *)
(*                                                                         *)
(* A channel is named after the stream it was made for.  The streams, and  *)
(* when they break, are external: gRPC tells the handler only when it      *)
(* sends, and a message sent on a broken stream may still be accepted.     *)
(***************************************************************************)
EXTENDS Integers, FiniteSets

CONSTANTS
    Stream,      \* the streams that peers open
    Peer,        \* the peers
    PeerOf,      \* [Stream -> Peer]
    Caster,      \* the goroutines that call Broadcast
    Unicaster,   \* the goroutines that call Unicast
    Dest,        \* [Unicaster -> Peer]
    NoStream

Sender == Caster \cup Unicaster

ASSUME StreamAssumption ==
    /\ PeerOf \in [Stream -> Peer]
    /\ Dest \in [Unicaster -> Peer]
    /\ NoStream \notin Stream
    /\ Caster \cap Unicaster = {}

VARIABLES
    sendChan,    \* sendChan[p]: the channel of p in the map, or NoStream
    closed,      \* the channels that were closed
    up,          \* the streams that work
    hpc,         \* hpc[c]: where the handler of stream c stands
    spc,         \* spc[g]: where the sending goroutine g stands
    todo,        \* todo[g]: the channels that g has still to send to
    readers,     \* the senders that hold sendLock for reading
    pending      \* the handlers that called sendLock.Lock and wait

vars == <<sendChan, closed, up, hpc, spc, todo, readers, pending>>

HandlerPC == {"none", "register", "recv", "send", "unregister", "done"}
SenderPC  == {"none", "sending", "done", "panic"}

(* The types of the variables, and who has to do with sendLock: the senders*)
(* that hold it are those between RLock and RUnlock, and the handlers that *)
(* ask for it those before close, delete and the assignment to the map.    *)
TypeOK ==
    /\ sendChan \in [Peer -> Stream \cup {NoStream}]
    /\ closed \in SUBSET Stream
    /\ up \in SUBSET Stream
    /\ hpc \in [Stream -> HandlerPC]
    /\ spc \in [Sender -> SenderPC]
    /\ todo \in [Sender -> SUBSET Stream]
    /\ readers = {g \in Sender : spc[g] \in {"sending", "panic"}}
    /\ pending = {c \in Stream : hpc[c] \in {"register", "unregister"}}

Registered == {p \in Peer : sendChan[p] # NoStream}

Init ==
    /\ sendChan = [p \in Peer |-> NoStream]
    /\ closed = {}
    /\ up = {}
    /\ hpc = [c \in Stream |-> "none"]
    /\ spc = [g \in Sender |-> "none"]
    /\ todo = [g \in Sender |-> {}]
    /\ readers = {}
    /\ pending = {}

-----------------------------------------------------------------------------
(* sync.RWMutex: a writer that waits keeps new readers out.  A writer does *)
(* its few assignments and Unlock in the step that acquires the lock.      *)
CanRLock == pending = {}
CanLock  == readers = {}

(* ConnectWorkers of the peer opens a stream once its earlier ones are     *)
(* broken; the server calls Handshake, which calls Lock.                   *)
Connect(c) ==
    /\ hpc[c] = "none"
    /\ \A d \in Stream \ {c} : PeerOf[d] = PeerOf[c] => d \notin up
    /\ up' = up \cup {c}
    /\ hpc' = [hpc EXCEPT ![c] = "register"]
    /\ pending' = pending \cup {c}
    /\ UNCHANGED <<sendChan, closed, spc, todo, readers>>

Break(c) ==
    /\ c \in up
    /\ up' = up \ {c}
    /\ UNCHANGED <<sendChan, closed, hpc, spc, todo, readers, pending>>

(* Handshake: close the channel of an earlier stream and take its place.   *)
RegisterEarly(c) ==
    /\ hpc[c] = "register"
    /\ closed' = closed \cup ({sendChan[PeerOf[c]]} \ {NoStream})
    /\ sendChan' = [sendChan EXCEPT ![PeerOf[c]] = c]
    /\ pending' = pending \ {c}
    /\ hpc' = [hpc EXCEPT ![c] = "recv"]
    /\ UNCHANGED <<up, spc, todo, readers>>

Register(c) ==
    /\ hpc[c] = "register"
    /\ CanLock
    /\ closed' = closed \cup ({sendChan[PeerOf[c]]} \ {NoStream})
    /\ sendChan' = [sendChan EXCEPT ![PeerOf[c]] = c]
    /\ pending' = pending \ {c}
    /\ hpc' = [hpc EXCEPT ![c] = "recv"]
    /\ UNCHANGED <<up, spc, todo, readers>>

(* srv.Send succeeds, or fails on a broken stream; then the handler calls  *)
(* Lock, to remove the entry of its peer.                                  *)
SendOnce(c) ==
    /\ hpc[c] = "send"
    /\ hpc' = [hpc EXCEPT ![c] = "done"]
    /\ UNCHANGED <<sendChan, closed, up, spc, todo, readers, pending>>

Send(c) ==
    /\ hpc[c] = "send"
    /\ \/ /\ hpc' = [hpc EXCEPT ![c] = "recv"]
          /\ UNCHANGED pending
       \/ /\ c \notin up
          /\ hpc' = [hpc EXCEPT ![c] = "unregister"]
          /\ pending' = pending \cup {c}
    /\ UNCHANGED <<sendChan, closed, up, spc, todo, readers>>

Unregister(c) ==
    /\ hpc[c] = "unregister"
    /\ CanLock
    /\ sendChan' = [sendChan EXCEPT ![PeerOf[c]] = NoStream]
    /\ pending' = pending \ {c}
    /\ hpc' = [hpc EXCEPT ![c] = "recv"]
    /\ UNCHANGED <<closed, up, spc, todo, readers>>

(* The range over the channel ends when it is closed, and with the handler *)
(* its stream.                                                             *)
HandlerEnd(c) ==
    /\ hpc[c] = "recv"
    /\ c \in closed
    /\ hpc' = [hpc EXCEPT ![c] = "done"]
    /\ up' = up \ {c}
    /\ UNCHANGED <<sendChan, closed, spc, todo, readers, pending>>

-----------------------------------------------------------------------------
(* Broadcast and Unicast: RLock; Unicast returns an error when the peer has*)
(* no channel.  The map does not change while the lock is held.            *)
Target(g) == IF g \in Caster THEN Peer ELSE {Dest[g]}

NoChannel(g) == g \in Unicaster /\ Dest[g] \notin Registered

BeginLeaks(g) ==
    /\ spc[g] = "none"
    /\ CanRLock
    /\ readers' = readers \cup {g}
    /\ \/ /\ NoChannel(g)
          /\ spc' = [spc EXCEPT ![g] = "done"]
          /\ UNCHANGED todo
       \/ /\ ~NoChannel(g)
          /\ spc' = [spc EXCEPT ![g] = "sending"]
          /\ todo' = [todo EXCEPT ![g] =
                         {sendChan[p] : p \in Registered \cap Target(g)}]
    /\ UNCHANGED <<sendChan, closed, up, hpc, pending>>

Begin(g) ==
    /\ spc[g] = "none"
    /\ CanRLock
    /\ \/ /\ NoChannel(g)
          /\ spc' = [spc EXCEPT ![g] = "done"]
          /\ UNCHANGED <<todo, readers>>
       \/ /\ ~NoChannel(g)
          /\ spc' = [spc EXCEPT ![g] = "sending"]
          /\ todo' = [todo EXCEPT ![g] =
                         {sendChan[p] : p \in Registered \cap Target(g)}]
          /\ readers' = readers \cup {g}
    /\ UNCHANGED <<sendChan, closed, up, hpc, pending>>

(* ch <- msg: the handler at the other end takes the message; a send on a  *)
(* closed channel panics.                                                  *)
Transfer(g, c) ==
    /\ spc[g] = "sending"
    /\ c \in todo[g]
    /\ IF c \in closed
       THEN /\ spc' = [spc EXCEPT ![g] = "panic"]
            /\ UNCHANGED <<hpc, todo>>
       ELSE /\ hpc[c] = "recv"
            /\ hpc' = [hpc EXCEPT ![c] = "send"]
            /\ todo' = [todo EXCEPT ![g] = @ \ {c}]
            /\ UNCHANGED spc
    /\ UNCHANGED <<sendChan, closed, up, readers, pending>>

(* RUnlock.                                                                *)
End(g) ==
    /\ spc[g] = "sending"
    /\ todo[g] = {}
    /\ spc' = [spc EXCEPT ![g] = "done"]
    /\ readers' = readers \ {g}
    /\ UNCHANGED <<sendChan, closed, up, hpc, todo, pending>>

-----------------------------------------------------------------------------
HandlerStep(c) ==
    \/ Register(c)
    \/ Send(c)
    \/ Unregister(c)
    \/ HandlerEnd(c)

SenderStep(g) ==
    \/ Begin(g)
    \/ \E c \in Stream : Transfer(g, c)
    \/ End(g)

Next ==
    \/ \E c \in Stream : HandlerStep(c) \/ Connect(c) \/ Break(c)
    \/ \E g \in Sender : SenderStep(g)

Spec == Init /\ [][Next]_vars

(* The goroutines are run; peers need not connect, and streams need not    *)
(* break.                                                                  *)
FairSpec ==
    /\ Spec
    /\ \A c \in Stream : WF_vars(HandlerStep(c))
    /\ \A g \in Sender : WF_vars(SenderStep(g))

-----------------------------------------------------------------------------
(* No goroutine sends, or closes, a channel that was closed, which would   *)
(* panic: Handshake closes the channel of an earlier stream only while no  *)
(* Broadcast and no Unicast is under way, and takes it out of the map.     *)
NoSendOnClosed ==
    /\ \A g \in Sender : spc[g] = "sending" => todo[g] \cap closed = {}
    /\ \A p \in Registered : sendChan[p] \notin closed
    /\ \A g \in Sender : spc[g] # "panic"

(* While no stream has broken, every Broadcast and Unicast returns: the    *)
(* handlers drain the channels and a handler that registers gets the lock. *)
Broken == {c \in Stream : hpc[c] # "none" /\ c \notin up}

HealthySendReturns ==
    \A g \in Sender : (spc[g] = "sending") ~> (spc[g] = "done" \/ Broken # {})

-----------------------------------------------------------------------------
(* What the code does not keep.                                            *)

(* A faulty peer does not stop the replica: Broadcast and Unicast return.  *)
SendReturns ==
    \A g \in Sender : (spc[g] = "sending") ~> (spc[g] = "done")

(* connection.go:78, "reconnect attempts": a peer whose stream works, and  *)
(* whose handler waits for messages, is sent messages.                     *)
ReconnectedReachable ==
    \A c \in up \ closed : hpc[c] = "recv" => sendChan[PeerOf[c]] = c
=============================================================================
