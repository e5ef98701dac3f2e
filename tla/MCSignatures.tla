---------------------------- MODULE MCSignatures ----------------------------
(***************************************************************************)
(* An instance of Signatures for TLC: a group of seven elements and four   *)
(* replicas; 4 is the id of an unknown one.                                *)
(***************************************************************************)
EXTENDS Signatures

MCPrivKey == [id \in 0..3 |-> <<2, 3, 5, 3>>[id + 1]]

(* Every pair of small numbers as the signature of replica 0.              *)
OneSign ==
    {<<e, [id \in {0} |-> <<r, s>>]>> : e \in 0..6, r \in -1..8, s \in -1..8}

(* Three or more signers, of whom some sign another digest, or are unknown,*)
(* or present the twin of their signature.                                 *)
SomeSign(d, e) == CHOOSE sig \in Sign(d, e) : TRUE
Twin(sig)      == <<sig[1], Order - sig[2]>>

Choices(id) ==
    LET d == MCPrivKey[id % 4] IN
    {SomeSign(d, 1), SomeSign(d, 4), Twin(SomeSign(d, 1))}

ManySigns ==
    {<<1, f>> : f \in UNION {{g \in [S -> UNION {Choices(id) : id \in S}] :
                                \A id \in S : g[id] \in Choices(id)} :
                             S \in {T \in SUBSET (0..4) : Cardinality(T) >= 3}}}

MCCert == OneSign \cup ManySigns
=============================================================================
