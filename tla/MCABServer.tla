----------------------------- MODULE MCABServer -----------------------------
(***************************************************************************)
(* ABServer for TLC: a peer that connects twice and one that connects once,*)
(* two broadcasts and a unicast.                                           *)
(***************************************************************************)
EXTENDS ABServer

CONSTANTS p1, p2, c1, c2, c3, g1, g2, g3

MCStream    == {c1, c2, c3}
MCPeer      == {p1, p2}
MCPeerOf    == [c \in MCStream |-> IF c = c3 THEN p2 ELSE p1]
MCCaster    == {g1, g2}
MCUnicaster == {g3}
MCDest      == [g \in MCUnicaster |-> p1]
=============================================================================
