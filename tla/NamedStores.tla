---------------------------- MODULE NamedStores ----------------------------
(***************************************************************************)
(* What the handles of one provider promise (common/db/leveldb): a store of*)
(* its own for each name, atomic batches, and writes that survive a crash  *)
(* once a synchronous one followed or was among them.                      *)
(***************************************************************************)
CONSTANTS Name, Key, Value, None

VARIABLES
    store,    \* store[n][k]: the value of key k in the store of name n, or None
    unsure,   \* the earlier contents that a crash may bring back
    open      \* the provider's database is open

vars == <<store, unsure, open>>

Store == [Name -> [Key -> Value \cup {None}]]

Init ==
    /\ store = [n \in Name |-> [k \in Key |-> None]]
    /\ unsure = {}
    /\ open = FALSE

(* A batch on the store of n: the other stores stay as they are.           *)
Write(n, sync) ==
    /\ open
    /\ store'[n] \in [Key -> Value \cup {None}]
    /\ store' = [store EXCEPT ![n] = store'[n]]
    /\ unsure' = IF sync THEN {} ELSE unsure \cup {store}
    /\ UNCHANGED open

(* Closing one handle closes the database for all names.                   *)
Toggle ==
    /\ open' = ~open
    /\ UNCHANGED <<store, unsure>>

Crash ==
    /\ store' \in unsure \cup {store}
    /\ unsure' = {}
    /\ open' = FALSE

Next ==
    \/ \E n \in Name, sync \in BOOLEAN : Write(n, sync)
    \/ Toggle
    \/ Crash

Spec == Init /\ [][Next]_vars
=============================================================================
