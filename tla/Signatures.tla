----------------------------- MODULE Signatures -----------------------------
(***************************************************************************)
(* Signatures (common/crypto/ecdsa.go) and the verification of what they   *)
(* sign (consensus/entity.go): the low-S form, and VerifyQuorumCert with a *)
(* goroutine for each signature.                                           *)
(*                                                                         *)
(* The curve is external.  A group with Order elements stands for it: the  *)
(* multiple p of the base point is the number p, and p and Order - p have  *)
(* the same x coordinate, as on a curve.  This is what makes a second      *)
(* signature <<r, Order - s>> out of each signature <<r, s>>.              *)
(***************************************************************************)
EXTENDS Integers, FiniteSets

CONSTANTS
    Order,      \* of the base point, an odd prime
    N, F,       \* ConfigMetadata
    PrivKey,    \* [0..(N - 1) -> 1..(Order - 1)], the keys of ReplicaConf
    Cert,       \* the <<digest, signs>> of QCs, signs a function from ids to
                \* <<r, s>>; an id may be unknown to ReplicaConf
    None

Replica == 0..(N - 1)
Scalar  == 1..(Order - 1)

ASSUME OrderAssumption ==
    /\ Order \in Nat
    /\ Order > 2
    /\ \A i \in 2..(Order - 1) : Order % i # 0

ASSUME KeyAssumption ==
    /\ N \in Nat /\ F \in Nat /\ 3 * F < N
    /\ PrivKey \in [Replica -> Scalar]

(* Signs is a map: it has finitely many entries.  The numbers of a         *)
(* signature are what a peer sent.                                         *)
ASSUME CertAssumption ==
    /\ None \notin BOOLEAN
    /\ \A c \in Cert : /\ c[1] \in Nat
                      /\ IsFiniteSet(DOMAIN c[2])
                      /\ \A id \in DOMAIN c[2] : c[2][id] \in Int \X Int

-----------------------------------------------------------------------------
(* ecdsa.Sign and ecdsa.Verify of the Go library.                          *)

Inv(a) == CHOOSE b \in Scalar : (a * b) % Order = 1
XCoord(p) == IF 2 * p < Order THEN p ELSE Order - p

(* The signatures of digest e with key d, one for each nonce that yields   *)
(* two numbers other than 0.                                               *)
EcdsaSign(d, e) ==
    {sig \in {<<XCoord(k), (Inv(k) * (e + XCoord(k) * d)) % Order>> : k \in Scalar} :
        sig[2] # 0}

EcdsaVerify(d, e, r, s) ==
    /\ r \in Scalar /\ s \in Scalar
    /\ LET p == (Inv(s) * (e + r * d)) % Order
       IN  p # 0 /\ XCoord(p) = r

-----------------------------------------------------------------------------
(* ecdsa.go                                                                *)

curveHalfOrder == Order \div 2
isLowS(s) == s <= curveHalfOrder
toLowS(s) == IF isLowS(s) THEN s ELSE Order - s

Sign(d, e) == {<<sig[1], toLowS(sig[2])>> : sig \in EcdsaSign(d, e)}

(* UnmarshalECDSASignature: both numbers must be larger than zero.  A      *)
(* signature is here the pair its bytes decode to.  asn1.Unmarshal returns *)
(* what follows the pair and the code ignores it, so that several strings  *)
(* of bytes are one signature; no code compares the bytes of signatures.   *)
Unmarshals(sig) == sig[1] > 0 /\ sig[2] > 0

VerifyAnyS(d, sig, e) ==
    Unmarshals(sig) /\ EcdsaVerify(d, e, sig[1], sig[2])

Verify(d, sig, e) ==
    Unmarshals(sig) /\ isLowS(sig[2]) /\ EcdsaVerify(d, e, sig[1], sig[2])

-----------------------------------------------------------------------------
(* entity.go                                                               *)

VerifyIdentity(id, sig, e) == id \in Replica /\ Verify(PrivKey[id], sig, e)

GetQuorumSize == N - F

VARIABLES
    qc,            \* the QC to verify
    todo,          \* the entries of qc.Signs the loop has not come to
    running,       \* goroutines before their Verify
    verified,      \* goroutines before their wg.Done
    wg,            \* the counter of the WaitGroup
    numVerified,
    result         \* what VerifyQuorumCert returned

vars == <<qc, todo, running, verified, wg, numVerified, result>>

Digest == qc[1]
Signs  == qc[2]

TypeOK ==
    /\ qc \in Cert
    /\ todo \subseteq DOMAIN Signs
    /\ running \subseteq Replica /\ verified \subseteq Replica
    /\ wg = Cardinality(running \cup verified)
    /\ numVerified \in 0..N
    /\ result \in BOOLEAN \cup {None}

Init ==
    /\ qc \in Cert
    /\ todo = DOMAIN Signs
    /\ running = {} /\ verified = {}
    /\ wg = 0
    /\ numVerified = 0
    /\ result = None

TooFew == Cardinality(DOMAIN Signs) < GetQuorumSize

ReturnTooFew ==
    /\ result = None /\ TooFew
    /\ result' = FALSE
    /\ UNCHANGED <<qc, todo, running, verified, wg, numVerified>>

(* One turn of the loop, in the order of the map, which is any: skip an id *)
(* that is not known, start a goroutine for another.                       *)
SpawnUnadded(id) ==
    /\ result = None /\ ~TooFew
    /\ id \in todo
    /\ todo' = todo \ {id}
    /\ running' = running \cup ({id} \cap Replica)
    /\ UNCHANGED <<qc, verified, wg, numVerified, result>>

Spawn(id) ==
    /\ result = None /\ ~TooFew
    /\ id \in todo
    /\ todo' = todo \ {id}
    /\ running' = running \cup ({id} \cap Replica)
    /\ wg' = IF id \in Replica THEN wg + 1 ELSE wg
    /\ UNCHANGED <<qc, verified, numVerified, result>>

(* A goroutine verifies its signature, and calls Done whatever came of it. *)
Check(id) ==
    /\ id \in running
    /\ running' = running \ {id}
    /\ verified' = verified \cup {id}
    /\ numVerified' =
          IF VerifyIdentity(id, Signs[id], Digest) THEN numVerified + 1 ELSE numVerified
    /\ UNCHANGED <<qc, todo, wg, result>>

DoneIfVerified(id) ==
    /\ id \in verified
    /\ VerifyIdentity(id, Signs[id], Digest)
    /\ verified' = verified \ {id}
    /\ wg' = wg - 1
    /\ UNCHANGED <<qc, todo, running, numVerified, result>>

Done(id) ==
    /\ id \in verified
    /\ verified' = verified \ {id}
    /\ wg' = wg - 1
    /\ UNCHANGED <<qc, todo, running, numVerified, result>>

(* wg.Wait, and the answer.                                                *)
ReturnUnwaited ==
    /\ result = None /\ ~TooFew
    /\ todo = {}
    /\ result' = (numVerified >= GetQuorumSize)
    /\ UNCHANGED <<qc, todo, running, verified, wg, numVerified>>

Return ==
    /\ result = None /\ ~TooFew
    /\ todo = {} /\ wg = 0
    /\ result' = (numVerified >= GetQuorumSize)
    /\ UNCHANGED <<qc, todo, running, verified, wg, numVerified>>

Next ==
    \/ ReturnTooFew
    \/ \E id \in DOMAIN Signs : Spawn(id)
    \/ \E id \in Replica : Check(id) \/ Done(id)
    \/ Return

(* Goroutines that can run do.                                             *)
Spec == Init /\ [][Next]_vars /\ WF_vars(Next)

-----------------------------------------------------------------------------
(* Properties.                                                             *)

(* Verify accepts what Sign can return for this key and digest, in its one *)
(* form, and nothing else: not the twin with Order - s, not the signature  *)
(* of another digest, no number at or below zero or above the order.       *)
VerifiesExactlySigned ==
    \A id \in DOMAIN Signs \cap Replica :
        Verify(PrivKey[id], Signs[id], Digest)
            <=> Signs[id] \in Sign(PrivKey[id], Digest)

(* VerifyQuorumCert answers yes just when N - F known replicas signed,     *)
(* in whatever order the goroutines end.                                   *)
QuorumAnswered ==
    result # None =>
        result = (Cardinality({id \in DOMAIN Signs \cap Replica :
                      Signs[id] \in Sign(PrivKey[id], Digest)}) >= N - F)

(* It always answers: unknown replicas and bad signatures do not leave     *)
(* wg.Wait waiting.                                                        *)
Answers == <>(result # None)
=============================================================================
