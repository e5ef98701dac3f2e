------------------------------- MODULE MCNode -------------------------------
(***************************************************************************)
(* An instance of Node for TLC: a replica with TLS sends the proposals of  *)
(* a fork at height 1 and one of height 2, which may be saved in any order *)
(* and not all, and forwards a command.                                    *)
(***************************************************************************)
EXTENDS Node

Plain == [UseTLS |-> FALSE, keyPair |-> "absent", ServerRootCAs |-> "absent",
          ClientRootCAs |-> "absent", RequireClientCert |-> FALSE]
Tls   == [UseTLS |-> TRUE, keyPair |-> "good", ServerRootCAs |-> "good",
          ClientRootCAs |-> "good", RequireClientCert |-> TRUE]

MCTlsOpts == [p \in 0..1 |-> IF p = 1 THEN Tls ELSE Plain]
MCMsg     == 1..4
MCFrom    == [m \in MCMsg |-> 1]
MCKind    == <<"proposal", "proposal", "proposal", "forward">>
MCIndex   == <<1, 2, 1, 1>>
=============================================================================
