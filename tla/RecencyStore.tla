---------------------------- MODULE RecencyStore ----------------------------
(***************************************************************************)
(* What a least-recently-used cache promises its callers, without a list:  *)
(* the pairs it holds, the order in which their keys were last used, and   *)
(* the answer of the last call.  A key leaves only when it is deleted, or  *)
(* when a new key does not fit and no other key has been unused for longer.*)
(***************************************************************************)
EXTENDS Integers, FiniteSets

CONSTANTS Key, Value, InitCapacity, MaxCapacity, NotFound, Done, Failed

VARIABLES
    data,      \* the pairs held, a function from some of the keys to values
    newer,     \* <<j, k>> \in newer: both are held and j was used after k
    capacity,
    ret        \* the answer of the last call

rsVars == <<data, newer, capacity, ret>>

Held == DOMAIN data

(* k becomes the key used last.                                            *)
Touch(k, order) ==
    {e \in order : k \notin {e[1], e[2]}}
        \cup {<<k, j>> : j \in Held \ {k}}

(* The order without k.                                                    *)
Forget(k, order) == {e \in order : k \notin {e[1], e[2]}}

Oldest(K, order) == {k \in K : \A j \in K \ {k} : <<j, k>> \in order}

Init ==
    /\ data = [k \in {} |-> NotFound]
    /\ newer = {}
    /\ capacity = InitCapacity
    /\ ret = Done

Get(k) ==
    /\ \/ /\ k \in Held
          /\ newer' = Touch(k, newer)
          /\ ret' = data[k]
       \/ /\ k \notin Held
          /\ ret' = NotFound
          /\ UNCHANGED newer
    /\ UNCHANGED <<data, capacity>>

(* The new pair is held, with all the others or all but the oldest.        *)
Put(k, v) ==
    LET all   == [j \in Held \cup {k} |-> IF j = k THEN v ELSE data[j]]
        order == Touch(k, newer)
    IN  /\ \/ /\ Cardinality(DOMAIN all) <= capacity
              /\ data' = all
              /\ newer' = order
           \/ /\ Cardinality(DOMAIN all) > capacity
              /\ \E o \in Oldest(DOMAIN all, order) :
                    /\ data' = [j \in DOMAIN all \ {o} |-> all[j]]
                    /\ newer' = Forget(o, order)
        /\ ret' = Done
        /\ UNCHANGED capacity

Delete(k) ==
    /\ \/ /\ k \in Held
          /\ data' = [j \in Held \ {k} |-> data[j]]
          /\ newer' = Forget(k, newer)
          /\ ret' = Done
       \/ /\ k \notin Held
          /\ ret' = Failed
          /\ UNCHANGED <<data, newer>>
    /\ UNCHANGED capacity

(* The capacity never shrinks.                                             *)
EnlargeCapacity(n) ==
    /\ \/ n >= capacity /\ capacity' = n /\ ret' = Done
       \/ n < capacity /\ ret' = Failed /\ UNCHANGED capacity
    /\ UNCHANGED <<data, newer>>

Next ==
    \/ \E k \in Key : Get(k) \/ Delete(k) \/ \E v \in Value : Put(k, v)
    \/ \E n \in 0..MaxCapacity : EnlargeCapacity(n)

Spec == Init /\ [][Next]_rsVars
=============================================================================
