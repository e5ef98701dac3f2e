------------------------------ MODULE LRUCache ------------------------------
(***************************************************************************)
(* The in-memory block cache, common/db/memorydb/lru_cache.go: a list of   *)
(* pairs, the last used in front, and a map from keys to list elements.    *)
(* Every method holds the mutex from its first to its last line, so that a *)
(* method is one step.  HotStuffCore keeps its blocks in one of these, with*)
(* a capacity of 30 (StoreBlock, LoadBlock).                               *)
(***************************************************************************)
EXTENDS Integers, SequencesExt

CONSTANTS
    Key, Value,
    InitCapacity,              \* the argument of NewLRUCache
    MaxCapacity,               \* bound: the largest argument of EnlargeCapacity
    NotFound, Done, Failed     \* the answers that are not a value

ASSUME CapacityAssumption ==
    /\ InitCapacity \in Nat
    /\ MaxCapacity \in Nat
    /\ {NotFound, Done, Failed} \cap Value = {}

VARIABLES
    capacity,
    lru,       \* the list, front first; an element is a Pair
    cache,     \* the map; the element of a key is the pair that lru holds
    ret        \* what the last call returned

vars == <<capacity, lru, cache, ret>>

Pair == [key : Key, value : Value]

TypeOK ==
    /\ capacity \in Nat
    /\ lru \in Seq(Pair)
    /\ \E K \in SUBSET Key : cache \in [K -> Pair]
    /\ ret \in Value \cup {NotFound, Done, Failed}

-----------------------------------------------------------------------------
(* container/list.                                                         *)
MoveToFront(l, e) == <<e>> \o RemoveFirst(l, e)
PushFront(l, e)   == <<e>> \o l

(* NewLRUCache.                                                            *)
Init ==
    /\ capacity = InitCapacity
    /\ lru = <<>>
    /\ cache = [k \in {} |-> NotFound]
    /\ ret = Done

Drop(f, k) == [j \in DOMAIN f \ {k} |-> f[j]]

GetPair(k) ==
    /\ ret' = IF k \in DOMAIN cache THEN cache[k] ELSE NotFound
    /\ UNCHANGED <<lru, capacity, cache>>

GetNoTouch(k) ==
    /\ ret' = IF k \in DOMAIN cache THEN cache[k].value ELSE NotFound
    /\ UNCHANGED <<lru, capacity, cache>>

Get(k) ==
    /\ \/ /\ k \in DOMAIN cache
          /\ lru' = MoveToFront(lru, cache[k])
          /\ ret' = cache[k].value
       \/ /\ k \notin DOMAIN cache
          /\ ret' = NotFound
          /\ UNCHANGED lru
    /\ UNCHANGED <<capacity, cache>>

(* evict, of the list l and the map m.                                     *)
EvictListOnly(l, m) ==
    /\ lru' = Front(l)
    /\ cache' = m

Evict(l, m) ==
    /\ lru' = Front(l)
    /\ cache' = Drop(m, Last(l).key)

(* An element of the list whose value is assigned keeps its place, the     *)
(* front.                                                                  *)
Put(k, v) ==
    LET pair == [key |-> k, value |-> v]
        map  == [j \in DOMAIN cache \cup {k} |-> IF j = k THEN pair ELSE cache[j]]
    IN  /\ \/ /\ k \in DOMAIN cache
              /\ lru' = [MoveToFront(lru, cache[k]) EXCEPT ![1] = pair]
              /\ cache' = map
           \/ /\ k \notin DOMAIN cache
              /\ Len(PushFront(lru, pair)) <= capacity
              /\ lru' = PushFront(lru, pair)
              /\ cache' = map
           \/ /\ k \notin DOMAIN cache
              /\ Len(PushFront(lru, pair)) > capacity
              /\ Evict(PushFront(lru, pair), map)
        /\ ret' = Done
        /\ UNCHANGED capacity

Delete(k) ==
    /\ \/ /\ k \in DOMAIN cache
          /\ lru' = RemoveFirst(lru, cache[k])
          /\ cache' = Drop(cache, k)
          /\ ret' = Done
       \/ /\ k \notin DOMAIN cache
          /\ ret' = Failed
          /\ UNCHANGED <<lru, cache>>
    /\ UNCHANGED capacity

EnlargeCapacity(n) ==
    /\ \/ n < capacity /\ ret' = Failed /\ UNCHANGED capacity
       \/ n >= capacity /\ capacity' = n /\ ret' = Done
    /\ UNCHANGED <<lru, cache>>

Next ==
    \/ \E k \in Key : Get(k) \/ Delete(k) \/ \E v \in Value : Put(k, v)
    \/ \E n \in 0..MaxCapacity : EnlargeCapacity(n)

Spec == Init /\ [][Next]_vars

-----------------------------------------------------------------------------
(* The list and the map hold the same pairs, each key once, and no more of *)
(* them than fit: an element left in one and not in the other would be a   *)
(* block that is never evicted or a look-up of an element off the list.    *)
Coherent ==
    /\ Len(lru) <= capacity
    /\ \A i \in DOMAIN lru :
          /\ lru[i].key \in DOMAIN cache
          /\ cache[lru[i].key] = lru[i]
    /\ \A k \in DOMAIN cache : \E i \in DOMAIN lru : lru[i].key = k
    /\ \A i, j \in DOMAIN lru : lru[i].key = lru[j].key => i = j

(* The cache implements RecencyStore: what it holds is the map, and a key  *)
(* was used after the keys behind it in the list.                          *)
Abstract == INSTANCE RecencyStore WITH
    data  <- [k \in DOMAIN cache |-> cache[k].value],
    newer <- {e \in Key \X Key : \E i, j \in DOMAIN lru :
                 i < j /\ e = <<lru[i].key, lru[j].key>>}

(* Callers get the answers of a store that evicts the key that was used    *)
(* least recently and no other: Get and Put move the pair to the front,    *)
(* evict takes the back.                                                   *)
ImplementsRecencyStore == Abstract!Spec
=============================================================================
