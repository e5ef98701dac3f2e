----------------------------- MODULE MCLevelDB -----------------------------
(***************************************************************************)
(* An instance of LevelDB for TLC: two names of which one is a prefix of   *)
(* the other, and two keys, one of them with the separator inside.         *)
(***************************************************************************)
EXTENDS LevelDB

MCName == {<<1>>, <<1, 1>>}
MCKey  == {<<>>, <<1, 0, 1>>}
=============================================================================
