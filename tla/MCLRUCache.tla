----------------------------- MODULE MCLRUCache -----------------------------
(***************************************************************************)
(* LRUCache for TLC: more keys than fit, and two values to tell a pair that*)
(* was overwritten.                                                        *)
(***************************************************************************)
EXTENDS LRUCache

CONSTANTS k1, k2, k3, k4, v1, v2

MCKey   == {k1, k2, k3, k4}
MCValue == {v1, v2}
=============================================================================
