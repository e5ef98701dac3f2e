--------------------------- MODULE LRUCacheProofs ---------------------------
(***************************************************************************)
(* Proofs about LRUCache, for all keys, values and capacities.             *)
(*                                                                         *)
(* Every method is made of two changes of the list: a pair is taken out    *)
(* (TakenOut), or put in front (PutInFront).  What each does to the keys of*)
(* the list and to the order of use is proved once; the methods, the map   *)
(* that goes along with the list, and the step of RecencyStore follow.     *)
(***************************************************************************)
EXTENDS LRUCache, FiniteSetTheorems, SequenceTheorems, TLAPS

-----------------------------------------------------------------------------
(* Lists.                                                                  *)

Keys(l) == {l[i].key : i \in DOMAIN l}

(* The order of use that a list stands for.                                *)
Newer(l) == {e \in Key \X Key : \E i, j \in DOMAIN l :
                i < j /\ e = <<l[i].key, l[j].key>>}

(* The order without k.                                                    *)
Without(k, order) == {e \in order : k \notin {e[1], e[2]}}

(* k was used after all of S.                                              *)
Above(k, S) == {<<k, j>> : j \in S}

(* A list with each key once.                                              *)
List(l) ==
    /\ l \in Seq(Pair)
    /\ \A i, j \in DOMAIN l : l[i].key = l[j].key => i = j

(* The places of a list without its place p.                               *)
LEMMA PlacesWithout ==
  ASSUME NEW l \in Seq(Pair), NEW p \in 1..Len(l)
  PROVE  LET n == RemoveAt(l, p) IN
         /\ n \in Seq(Pair) /\ Len(n) = Len(l) - 1
         /\ DOMAIN n = 1..(Len(l) - 1)
         /\ \A i \in 1..(p - 1) : n[i] = l[i]
         /\ \A i \in p..(Len(l) - 1) : n[i] = l[i + 1]
  <1> DEFINE a == SubSeq(l, 1, p - 1)
             b == SubSeq(l, p + 1, Len(l))
             n == a \o b
  <1>0. p \in Nat /\ p >= 1 /\ p <= Len(l) /\ Len(l) \in Nat OBVIOUS
  <1>1. a \in Seq(Pair) /\ Len(a) = p - 1 /\ \A i \in 1..(p - 1) : a[i] = l[i]
    <2>1. 1 \in 1..(Len(l) + 1) /\ p - 1 \in 0..Len(l) BY <1>0
    <2>2. a \in Seq(Pair) BY <2>1, SubSeqProperties
    <2>3. Len(a) = p - 1 BY <1>0, <2>1, SubSeqProperties
    <2>4. \A i \in 1..(p - 1) : a[i] = l[i] BY <1>0, <2>1, <2>3, SubSeqProperties
    <2> QED BY <2>2, <2>3, <2>4
  <1>2. b \in Seq(Pair) /\ Len(b) = Len(l) - p /\ \A i \in 1..(Len(l) - p) : b[i] = l[p + i]
    <2>1. p + 1 \in 1..(Len(l) + 1) /\ Len(l) \in p..Len(l) BY <1>0
    <2>2. b \in Seq(Pair) BY <2>1, SubSeqProperties
    <2>3. Len(b) = Len(l) - p BY <1>0, <2>1, SubSeqProperties
    <2>4. \A i \in 1..(Len(l) - p) : b[i] = l[p + i] BY <1>0, <2>1, <2>3, SubSeqProperties
    <2> QED BY <2>2, <2>3, <2>4
  <1> HIDE DEF a, b
  <1>3. n \in Seq(Pair) /\ Len(n) = Len(a) + Len(b)
    BY <1>1, <1>2, ConcatProperties
  <1>4. \A i \in 1..Len(a) : n[i] = a[i] BY <1>1, <1>2, <1>3
  <1>5. \A i \in 1..Len(b) : n[Len(a) + i] = b[i] BY <1>1, <1>2, <1>3
  <1>6. n = RemoveAt(l, p) BY DEF RemoveAt, a, b
  <1> HIDE DEF n
  <1>7. Len(n) = Len(l) - 1 BY <1>0, <1>1, <1>2, <1>3
  <1>8. \A i \in 1..(p - 1) : n[i] = l[i] BY <1>1, <1>4
  <1>9. ASSUME NEW i \in p..(Len(l) - 1) PROVE n[i] = l[i + 1]
    <2> DEFINE d == i - p + 1
    <2>1. d \in 1..(Len(l) - p) /\ p + d = i + 1 /\ (p - 1) + d = i
      BY <1>0
    <2> HIDE DEF d
    <2>2. n[Len(a) + d] = b[d] BY <1>2, <1>5, <2>1
    <2>3. b[d] = l[p + d] BY <1>2, <2>1
    <2>4. Len(a) + d = i BY <1>1, <2>1
    <2> QED BY <2>1, <2>2, <2>3, <2>4
  <1>10. DOMAIN n = 1..Len(n) BY <1>3
  <1> QED BY <1>3, <1>6, <1>7, <1>8, <1>9, <1>10

(* The places of a list with one more pair in front.                       *)
LEMMA PlacesInFront ==
  ASSUME NEW l \in Seq(Pair), NEW x \in Pair
  PROVE  LET n == <<x>> \o l IN
         /\ n \in Seq(Pair) /\ Len(n) = Len(l) + 1
         /\ DOMAIN n = 1..(Len(l) + 1)
         /\ n[1] = x
         /\ \A i \in 1..Len(l) : n[i + 1] = l[i]
  <1> DEFINE n == <<x>> \o l
  <1>1. <<x>> \in Seq(Pair) /\ Len(<<x>>) = 1 OBVIOUS
  <1>2. n \in Seq(Pair) /\ Len(n) = 1 + Len(l) BY <1>1, ConcatProperties
  <1>3. n[1] = x /\ \A i \in 1..Len(l) : n[1 + i] = l[i] BY <1>1, <1>2
  <1>4. DOMAIN n = 1..Len(n) BY <1>2
  <1> HIDE DEF n
  <1>5. Len(l) \in Nat OBVIOUS
  <1>6. \A i \in 1..Len(l) : n[i + 1] = l[i] BY <1>3, <1>5
  <1>7. Len(n) = Len(l) + 1 BY <1>2, <1>5
  <1> QED BY <1>2, <1>3, <1>4, <1>6, <1>7 DEF n

(* A pair taken out of the list: its key leaves, and the order of use of   *)
(* the others stays.                                                       *)
LEMMA TakenOut ==
  ASSUME NEW l, List(l), NEW p \in DOMAIN l
  PROVE  LET n == RemoveAt(l, p)
             k == l[p].key
         IN  /\ List(n) /\ Len(n) = Len(l) - 1
             /\ Keys(n) = Keys(l) \ {k}
             /\ Newer(n) = Without(k, Newer(l))
             /\ \A i \in DOMAIN n : \E j \in DOMAIN l : n[i] = l[j]
  <1> DEFINE n == RemoveAt(l, p)
             k == l[p].key
             old(i) == IF i < p THEN i ELSE i + 1
             new(j) == IF j < p THEN j ELSE j - 1
  <1>1. l \in Seq(Pair) /\ Len(l) \in Nat /\ p \in 1..Len(l) /\ DOMAIN l = 1..Len(l)
    BY DEF List
  <1>2. /\ n \in Seq(Pair) /\ Len(n) = Len(l) - 1
        /\ DOMAIN n = 1..(Len(l) - 1)
        /\ \A i \in 1..(p - 1) : n[i] = l[i]
        /\ \A i \in p..(Len(l) - 1) : n[i] = l[i + 1]
    BY <1>1, PlacesWithout
  <1> HIDE DEF n
  <1>3. ASSUME NEW i \in DOMAIN n
        PROVE  old(i) \in DOMAIN l /\ old(i) # p /\ n[i] = l[old(i)]
    <2>0. i \in 1..(Len(l) - 1) BY <1>2
    <2>1. CASE i < p
      <3>1. i \in 1..(p - 1) /\ i \in 1..Len(l) BY <1>1, <2>0, <2>1
      <3> QED BY <1>1, <1>2, <2>1, <3>1
    <2>2. CASE ~(i < p)
      <3>1. i \in p..(Len(l) - 1) /\ i + 1 \in 1..Len(l) /\ i + 1 # p BY <1>1, <2>0, <2>2
      <3> QED BY <1>1, <1>2, <2>2, <3>1
    <2> QED BY <2>1, <2>2
  <1>4. ASSUME NEW j \in DOMAIN l, j # p
        PROVE  new(j) \in DOMAIN n /\ old(new(j)) = j /\ n[new(j)] = l[j]
    <2>0. j \in 1..Len(l) BY <1>1
    <2>1. new(j) \in 1..(Len(l) - 1) /\ old(new(j)) = j BY <1>1, <1>4, <2>0
    <2> HIDE DEF old, new
    <2> QED BY <1>2, <1>3, <2>1
  <1>5. ASSUME NEW i \in DOMAIN n, NEW j \in DOMAIN n
        PROVE  /\ i < j => old(i) < old(j)
               /\ old(i) = old(j) => i = j
    BY <1>1, <1>2
  <1>6. ASSUME NEW i \in DOMAIN l, NEW j \in DOMAIN l, i # p, j # p, i < j
        PROVE  new(i) < new(j)
    BY <1>1, <1>6
  <1> HIDE DEF old, new
  <1>7. ASSUME NEW i \in DOMAIN n PROVE n[i].key # k
    BY <1>3 DEF List
  <1>8. List(n)
    <2>1. ASSUME NEW i \in DOMAIN n, NEW j \in DOMAIN n, n[i].key = n[j].key PROVE i = j
      <3>1. old(i) \in DOMAIN l /\ old(j) \in DOMAIN l /\ l[old(i)].key = l[old(j)].key
        BY <1>3, <2>1
      <3> QED BY <1>5, <3>1 DEF List
    <2> QED BY <1>2, <2>1 DEF List
  <1>9. Keys(n) = Keys(l) \ {k}
    <2>1. ASSUME NEW c \in Keys(n) PROVE c \in Keys(l) \ {k}
      BY <1>3, <1>7 DEF Keys
    <2>2. ASSUME NEW c \in Keys(l) \ {k} PROVE c \in Keys(n)
      <3>1. PICK j \in DOMAIN l : c = l[j].key BY DEF Keys
      <3>2. j # p BY <3>1
      <3> QED BY <1>4, <3>1, <3>2 DEF Keys
    <2> QED BY <2>1, <2>2
  <1>10. Newer(n) = Without(k, Newer(l))
    <2>1. ASSUME NEW e \in Newer(n) PROVE e \in Newer(l) /\ k \notin {e[1], e[2]}
      <3>1. PICK i, j \in DOMAIN n : i < j /\ e = <<n[i].key, n[j].key>> BY DEF Newer
      <3>2. e[1] # k /\ e[2] # k BY <1>7, <3>1
      <3>3. /\ old(i) \in DOMAIN l /\ old(j) \in DOMAIN l /\ old(i) < old(j)
            /\ e = <<l[old(i)].key, l[old(j)].key>>
        BY <1>3, <1>5, <3>1
      <3> QED BY <3>2, <3>3 DEF Newer
    <2>2. ASSUME NEW e \in Newer(l), k \notin {e[1], e[2]} PROVE e \in Newer(n)
      <3>1. PICK i, j \in DOMAIN l : i < j /\ e = <<l[i].key, l[j].key>> BY DEF Newer
      <3>2. i # p /\ j # p BY <2>2, <3>1
      <3>3. /\ new(i) \in DOMAIN n /\ new(j) \in DOMAIN n /\ new(i) < new(j)
            /\ e = <<n[new(i)].key, n[new(j)].key>>
        BY <1>4, <1>6, <3>1, <3>2
      <3> QED BY <3>3 DEF Newer
    <2> QED BY <2>1, <2>2 DEF Without
  <1>11. \A i \in DOMAIN n : \E j \in DOMAIN l : n[i] = l[j] BY <1>3
  <1> QED BY <1>2, <1>8, <1>9, <1>10, <1>11 DEF n

(* A pair with a new key put in front was used after all others.           *)
LEMMA PutInFront ==
  ASSUME NEW l, List(l), NEW x \in Pair, x.key \notin Keys(l)
  PROVE  LET n == <<x>> \o l IN
         /\ List(n) /\ Len(n) = Len(l) + 1
         /\ Keys(n) = Keys(l) \cup {x.key}
         /\ Newer(n) = Newer(l) \cup Above(x.key, Keys(l))
         /\ n[1] = x
         /\ \A i \in DOMAIN n : i = 1 \/ \E j \in DOMAIN l : n[i] = l[j]
  <1> DEFINE n == <<x>> \o l
  <1>1. l \in Seq(Pair) /\ Len(l) \in Nat /\ DOMAIN l = 1..Len(l)
    BY DEF List
  <1>2. /\ n \in Seq(Pair) /\ Len(n) = Len(l) + 1
        /\ DOMAIN n = 1..(Len(l) + 1)
        /\ n[1] = x
        /\ \A i \in 1..Len(l) : n[i + 1] = l[i]
    BY <1>1, PlacesInFront
  <1> HIDE DEF n
  <1>3. ASSUME NEW i \in DOMAIN n, i # 1
        PROVE  i - 1 \in DOMAIN l /\ n[i] = l[i - 1]
    <2>1. i - 1 \in 1..Len(l) /\ (i - 1) + 1 = i BY <1>1, <1>2, <1>3
    <2> QED BY <1>1, <1>2, <2>1
  <1>4. ASSUME NEW i \in DOMAIN l
        PROVE  i + 1 \in DOMAIN n /\ i + 1 # 1 /\ n[i + 1] = l[i] /\ 1 < i + 1 /\ 1 \in DOMAIN n
    <2>1. i \in 1..Len(l) BY <1>1
    <2>2. i + 1 \in 1..(Len(l) + 1) /\ i + 1 # 1 /\ 1 < i + 1 /\ 1 \in 1..(Len(l) + 1) BY <1>1
    <2> QED BY <1>2, <2>1, <2>2
  <1>5. ASSUME NEW i \in DOMAIN n, NEW j \in DOMAIN n, n[i].key = n[j].key PROVE i = j
    <2>1. CASE i = 1 /\ j = 1 BY <2>1
    <2>2. CASE i = 1 /\ j # 1 BY <1>2, <1>3, <1>5, <2>2 DEF Keys
    <2>3. CASE i # 1 /\ j = 1 BY <1>2, <1>3, <1>5, <2>3 DEF Keys
    <2>4. CASE i # 1 /\ j # 1
      <3>1. i - 1 = j - 1 BY <1>3, <1>5, <2>4 DEF List
      <3> QED BY <1>1, <1>2, <3>1
    <2> QED BY <2>1, <2>2, <2>3, <2>4
  <1>6. List(n) BY <1>2, <1>5 DEF List
  <1>7. Keys(n) = Keys(l) \cup {x.key}
    <2>1. ASSUME NEW c \in Keys(n) PROVE c \in Keys(l) \cup {x.key}
      <3>1. PICK i \in DOMAIN n : c = n[i].key BY DEF Keys
      <3>2. CASE i = 1 BY <1>2, <3>1, <3>2
      <3>3. CASE i # 1 BY <1>3, <3>1, <3>3 DEF Keys
      <3> QED BY <3>2, <3>3
    <2>2. ASSUME NEW c \in Keys(l) PROVE c \in Keys(n)
      <3>1. PICK i \in DOMAIN l : c = l[i].key BY DEF Keys
      <3> QED BY <1>4, <3>1 DEF Keys
    <2>3. x.key \in Keys(n)
      <3>1. 1 \in DOMAIN n BY <1>1, <1>2
      <3> QED BY <1>2, <3>1 DEF Keys
    <2> QED BY <2>1, <2>2, <2>3
  <1>8. Newer(n) = Newer(l) \cup Above(x.key, Keys(l))
    <2>1. ASSUME NEW e \in Newer(n)
          PROVE  e \in Newer(l) \cup Above(x.key, Keys(l))
      <3>1. PICK i, j \in DOMAIN n : i < j /\ e = <<n[i].key, n[j].key>> BY DEF Newer
      <3>2. j # 1 /\ i \in Nat /\ j \in Nat BY <1>1, <1>2, <3>1
      <3>3. j - 1 \in DOMAIN l /\ n[j] = l[j - 1] BY <1>3, <3>2
      <3>4. CASE i = 1
        <4>1. e = <<x.key, l[j - 1].key>> BY <1>2, <3>1, <3>3, <3>4
        <4>2. l[j - 1].key \in Keys(l) BY <3>3 DEF Keys
        <4> QED BY <4>1, <4>2 DEF Above
      <3>5. CASE i # 1
        <4>1. i - 1 \in DOMAIN l /\ n[i] = l[i - 1] BY <1>3, <3>5
        <4>2. i - 1 < j - 1 BY <3>1, <3>2
        <4>3. e = <<l[i - 1].key, l[j - 1].key>> BY <3>1, <3>3, <4>1
        <4> QED BY <3>3, <4>1, <4>2, <4>3 DEF Newer
      <3> QED BY <3>4, <3>5
    <2>2. ASSUME NEW e \in Newer(l) PROVE e \in Newer(n)
      <3>1. PICK i, j \in DOMAIN l : i < j /\ e = <<l[i].key, l[j].key>> BY DEF Newer
      <3>2. i + 1 < j + 1 BY <1>1, <3>1
      <3>3. i + 1 \in DOMAIN n /\ j + 1 \in DOMAIN n
            /\ e = <<n[i + 1].key, n[j + 1].key>>
        BY <1>4, <3>1
      <3> QED BY <3>2, <3>3 DEF Newer
    <2>3. ASSUME NEW c \in Keys(l) PROVE <<x.key, c>> \in Newer(n)
      <3>1. PICK i \in DOMAIN l : c = l[i].key BY DEF Keys
      <3>2. 1 \in DOMAIN n /\ i + 1 \in DOMAIN n /\ 1 < i + 1
            /\ <<x.key, c>> = <<n[1].key, n[i + 1].key>>
        BY <1>2, <1>4, <3>1
      <3>3. l[i] \in Pair BY <1>1
      <3>4. x.key \in Key /\ c \in Key BY <3>1, <3>3 DEF Pair
      <3> QED BY <3>2, <3>4 DEF Newer
    <2> QED BY <2>1, <2>2, <2>3 DEF Above
  <1>9. \A i \in DOMAIN n : i = 1 \/ \E j \in DOMAIN l : n[i] = l[j] BY <1>3
  <1> QED BY <1>2, <1>6, <1>7, <1>8, <1>9 DEF n

(* Remove of container/list takes out the one place where the element is.  *)
LEMMA RemovesItsPlace ==
  ASSUME NEW l, List(l), NEW p \in DOMAIN l
  PROVE  RemoveFirst(l, l[p]) = RemoveAt(l, p)
  <1> DEFINE I == {i \in 1..Len(l) : l[i] = l[p]}
  <1>1. l \in Seq(Pair) /\ DOMAIN l = 1..Len(l) /\ Len(l) \in Nat BY DEF List
  <1>2. I = {p} BY <1>1 DEF List
  <1>3. RemoveFirst(l, l[p]) = RemoveAt(l, IF I # {} THEN Min(I) ELSE 0)
    BY <1>1 DEF RemoveFirst, SelectInSeq
  <1> HIDE DEF I
  <1>4. Min(I) = p BY <1>1, <1>2 DEF Min
  <1> QED BY <1>2, <1>3, <1>4

(* evict takes out the last place.                                         *)
LEMMA FrontWithoutLast ==
  ASSUME NEW l, List(l), Len(l) > 0
  PROVE  Len(l) \in DOMAIN l /\ Front(l) = RemoveAt(l, Len(l))
  <1>1. l \in Seq(Pair) /\ DOMAIN l = 1..Len(l) /\ Len(l) \in Nat BY DEF List
  <1>2. Len(l) \in 1..Len(l) BY <1>1
  <1> DEFINE n == RemoveAt(l, Len(l))
             f == Front(l)
  <1>3. /\ n \in Seq(Pair) /\ Len(n) = Len(l) - 1
        /\ \A i \in 1..(Len(l) - 1) : n[i] = l[i]
    BY <1>1, <1>2, PlacesWithout
  <1>4. /\ f \in Seq(Pair) /\ Len(f) = Len(l) - 1
        /\ \A i \in 1..(Len(l) - 1) : f[i] = l[i]
    BY <1>1, <1>2, SubSeqProperties DEF Front
  <1> HIDE DEF n, f
  <1>5. n = f BY <1>3, <1>4
  <1> QED BY <1>1, <1>2, <1>5 DEF n, f

-----------------------------------------------------------------------------
(* The list and the map.                                                   *)

(* The map takes the keys of the list to the pairs of the list.            *)
Holds(l, m) ==
    /\ List(l)
    /\ DOMAIN m = Keys(l)
    /\ m = [k \in Keys(l) |-> m[k]]
    /\ \A i \in DOMAIN l : m[l[i].key] = l[i]

(* The map m with the pair x for its key.                                  *)
With(m, x) == [j \in DOMAIN m \cup {x.key} |-> IF j = x.key THEN x ELSE m[j]]

(* What the map holds for a key is a pair of the list with that key.       *)
LEMMA PlaceOf ==
  ASSUME NEW l, NEW m, Holds(l, m), NEW k \in DOMAIN m
  PROVE  /\ \E p \in DOMAIN l : l[p] = m[k] /\ l[p].key = k
         /\ m[k] \in Pair /\ m[k].key = k /\ k \in Key
  <1>1. PICK p \in DOMAIN l : l[p].key = k BY DEF Holds, Keys
  <1>2. l[p] = m[k] BY <1>1 DEF Holds
  <1>3. l[p] \in Pair BY DEF Holds, List
  <1>4. l[p].key \in Key BY <1>3 DEF Pair
  <1> QED BY <1>1, <1>2, <1>3, <1>4

(* The map as a function on keys, for TypeOK.                              *)
LEMMA MapTyped ==
  ASSUME NEW l, NEW m, Holds(l, m)
  PROVE  \E K \in SUBSET Key : m \in [K -> Pair]
  <1>1. DOMAIN m \in SUBSET Key BY PlaceOf
  <1>2. m \in [DOMAIN m -> Pair]
    <2>1. \A k \in DOMAIN m : m[k] \in Pair BY PlaceOf
    <2>2. m = [k \in DOMAIN m |-> m[k]] BY DEF Holds
    <2> QED BY <2>1, <2>2
  <1> QED BY <1>1, <1>2

(* The pair at place p leaves list and map.                                *)
LEMMA HoldsWithout ==
  ASSUME NEW l, NEW m, Holds(l, m), NEW p \in DOMAIN l
  PROVE  LET n == RemoveAt(l, p)
             k == l[p].key
         IN  /\ Holds(n, Drop(m, k)) /\ Len(n) = Len(l) - 1
             /\ k \in DOMAIN m
             /\ Keys(n) = DOMAIN m \ {k}
             /\ Newer(n) = Without(k, Newer(l))
  <1> DEFINE n == RemoveAt(l, p)
             k == l[p].key
             d == Drop(m, k)
  <1>1. List(l) /\ DOMAIN m = Keys(l) BY DEF Holds
  <1>2. /\ List(n) /\ Len(n) = Len(l) - 1
        /\ Keys(n) = Keys(l) \ {k}
        /\ Newer(n) = Without(k, Newer(l))
        /\ \A i \in DOMAIN n : \E j \in DOMAIN l : n[i] = l[j]
    BY <1>1, TakenOut
  <1>3. DOMAIN d = Keys(n) /\ \A j \in Keys(n) : d[j] = m[j] BY <1>1, <1>2 DEF Drop
  <1>4. d = [j \in Keys(n) |-> d[j]] BY <1>1, <1>2 DEF Drop
  <1>5. k \in DOMAIN m BY <1>1 DEF Keys
  <1> HIDE DEF n, k, d
  <1>6. ASSUME NEW i \in DOMAIN n PROVE d[n[i].key] = n[i]
    <2>1. PICK j \in DOMAIN l : n[i] = l[j] BY <1>2
    <2>2. n[i].key \in Keys(n) BY DEF Keys
    <2>3. m[l[j].key] = l[j] BY DEF Holds
    <2> QED BY <1>3, <2>1, <2>2, <2>3
  <1>7. Holds(n, d) BY <1>2, <1>3, <1>4, <1>6 DEF Holds
  <1> QED BY <1>1, <1>2, <1>5, <1>7 DEF n, k, d

(* A pair with a new key enters list and map.                              *)
LEMMA HoldsInFront ==
  ASSUME NEW l, NEW m, Holds(l, m), NEW x \in Pair, x.key \notin DOMAIN m
  PROVE  LET n == <<x>> \o l IN
         /\ Holds(n, With(m, x)) /\ Len(n) = Len(l) + 1
         /\ DOMAIN With(m, x) = DOMAIN m \cup {x.key}
         /\ Newer(n) = Newer(l) \cup Above(x.key, DOMAIN m)
  <1> DEFINE n == <<x>> \o l
             w == With(m, x)
  <1>1. List(l) /\ DOMAIN m = Keys(l) /\ x.key \notin Keys(l) BY DEF Holds
  <1>2. /\ List(n) /\ Len(n) = Len(l) + 1
        /\ Keys(n) = Keys(l) \cup {x.key}
        /\ Newer(n) = Newer(l) \cup Above(x.key, Keys(l))
        /\ n[1] = x
        /\ \A i \in DOMAIN n : i = 1 \/ \E j \in DOMAIN l : n[i] = l[j]
    BY <1>1, PutInFront
  <1>3. /\ DOMAIN w = Keys(n)
        /\ w = [j \in Keys(n) |-> w[j]]
        /\ w[x.key] = x
        /\ \A j \in Keys(l) : w[j] = m[j]
    BY <1>1, <1>2 DEF With
  <1> HIDE DEF n, w
  <1>4. ASSUME NEW i \in DOMAIN n PROVE w[n[i].key] = n[i]
    <2>1. CASE i = 1 BY <1>2, <1>3, <2>1
    <2>2. CASE i # 1
      <3>1. PICK j \in DOMAIN l : n[i] = l[j] BY <1>2, <2>2
      <3>2. l[j].key \in Keys(l) BY DEF Keys
      <3>3. m[l[j].key] = l[j] BY DEF Holds
      <3> QED BY <1>3, <3>1, <3>2, <3>3
    <2> QED BY <2>1, <2>2
  <1>5. Holds(n, w) BY <1>2, <1>3, <1>4 DEF Holds
  <1> QED BY <1>1, <1>2, <1>3, <1>5 DEF n, w

(* The map has as many keys as the list has places.                        *)
LEMMA AsManyKeys ==
  ASSUME NEW l, NEW m, Holds(l, m)
  PROVE  IsFiniteSet(DOMAIN m) /\ Cardinality(DOMAIN m) = Len(l)
  <1> DEFINE f == [i \in 1..Len(l) |-> l[i].key]
  <1>1. List(l) /\ DOMAIN l = 1..Len(l) /\ Len(l) \in Nat BY DEF Holds, List
  <1>2. f \in Bijection(1..Len(l), DOMAIN m)
    <2>1. f \in [1..Len(l) -> DOMAIN m] BY <1>1 DEF Holds, Keys
    <2>2. \A i, j \in 1..Len(l) : f[i] = f[j] => i = j BY <1>1 DEF List
    <2>3. \A k \in DOMAIN m : \E i \in 1..Len(l) : f[i] = k BY <1>1 DEF Holds, Keys
    <2> HIDE DEF f
    <2> QED BY <2>1, <2>2, <2>3 DEF Bijection, Injection, IsInjective, Surjection
  <1>3. ExistsBijection(1..Len(l), DOMAIN m) BY <1>2 DEF ExistsBijection
  <1>4. IsFiniteSet(1..Len(l)) /\ Cardinality(1..Len(l)) = Len(l)
    <2>1. 1 \in Int /\ Len(l) \in Int BY <1>1
    <2>2. /\ IsFiniteSet(1..Len(l))
          /\ Cardinality(1..Len(l)) = IF 1 > Len(l) THEN 0 ELSE Len(l) - 1 + 1
      BY <2>1, FS_Interval
    <2> QED BY <1>1, <2>2
  <1> QED BY <1>3, <1>4, FS_Bijection

-----------------------------------------------------------------------------
(* The invariant.                                                          *)

Inv ==
    /\ capacity \in Nat
    /\ Holds(lru, cache)
    /\ Len(lru) <= capacity
    /\ ret \in Value \cup {NotFound, Done, Failed}

(* What the methods do to the list and the map, in terms of the two changes*)
(* above.  A Get of a key held: the pair is taken out and put in front.    *)
LEMMA MovedOut ==
  ASSUME NEW l, NEW m, Holds(l, m), NEW k \in DOMAIN m
  PROVE  /\ Holds(RemoveFirst(l, m[k]), Drop(m, k))
         /\ Len(RemoveFirst(l, m[k])) = Len(l) - 1
         /\ Newer(RemoveFirst(l, m[k])) = Without(k, Newer(l))
  <1>1. PICK p \in DOMAIN l : l[p] = m[k] /\ l[p].key = k BY PlaceOf
  <1>2. List(l) BY DEF Holds
  <1>3. RemoveFirst(l, m[k]) = RemoveAt(l, p) BY <1>1, <1>2, RemovesItsPlace
  <1>4. /\ Holds(RemoveAt(l, p), Drop(m, l[p].key)) /\ Len(RemoveAt(l, p)) = Len(l) - 1
        /\ Newer(RemoveAt(l, p)) = Without(l[p].key, Newer(l))
    BY HoldsWithout
  <1> QED BY <1>1, <1>3, <1>4

(* ... and it, or another pair with its key, put in front.                 *)
LEMMA MovedInFront ==
  ASSUME NEW l, NEW m, Holds(l, m), NEW x \in Pair, x.key \in DOMAIN m
  PROVE  LET t == <<x>> \o RemoveFirst(l, m[x.key]) IN
         /\ Holds(t, With(m, x)) /\ Len(t) = Len(l)
         /\ Newer(t) = Without(x.key, Newer(l)) \cup Above(x.key, DOMAIN m \ {x.key})
  <1> DEFINE k == x.key
             n == RemoveFirst(l, m[k])
             t == <<x>> \o n
             d == Drop(m, k)
  <1>1. /\ Holds(n, d) /\ Len(n) = Len(l) - 1
        /\ Newer(n) = Without(k, Newer(l))
    BY MovedOut
  <1>2. Len(l) \in Nat BY DEF Holds, List
  <1>3. DOMAIN d = DOMAIN m \ {k} BY DEF Drop
  <1>4. With(d, x) = With(m, x)
    <2>1. DOMAIN d \cup {x.key} = DOMAIN m \cup {x.key} BY <1>3
    <2>2. \A j \in DOMAIN m \ {k} : d[j] = m[j] BY DEF Drop
    <2> HIDE DEF d
    <2>3. \A j \in DOMAIN m \cup {x.key} :
             (IF j = x.key THEN x ELSE d[j]) = (IF j = x.key THEN x ELSE m[j])
      BY <2>2
    <2> QED BY <2>1, <2>3 DEF With
  <1> HIDE DEF n, d
  <1>5. /\ Holds(t, With(d, x)) /\ Len(t) = Len(n) + 1
        /\ Newer(t) = Newer(n) \cup Above(x.key, DOMAIN d)
    <2>1. x.key \notin DOMAIN d BY <1>3
    <2>2. Holds(n, d) BY <1>1
    <2> QED BY <2>1, <2>2, HoldsInFront
  <1> HIDE DEF t
  <1>6. Len(t) = Len(l) BY <1>1, <1>2, <1>5
  <1>7. Newer(t) = Without(k, Newer(l)) \cup Above(k, DOMAIN m \ {k})
    BY <1>1, <1>3, <1>5
  <1>8. Holds(t, With(m, x)) BY <1>4, <1>5
  <1> QED BY <1>6, <1>7, <1>8 DEF n, t

(* An assignment to the value of the element in front.                     *)
LEMMA FrontReplaced ==
  ASSUME NEW n \in Seq(Pair), NEW x \in Pair, NEW y \in Pair
  PROVE  [<<y>> \o n EXCEPT ![1] = x] = <<x>> \o n
  <1> DEFINE t == <<x>> \o n
             u == <<y>> \o n
  <1>1. /\ t \in Seq(Pair) /\ DOMAIN t = 1..(Len(n) + 1)
        /\ t[1] = x /\ \A i \in 1..Len(n) : t[i + 1] = n[i]
    BY PlacesInFront
  <1>2. /\ u \in Seq(Pair) /\ DOMAIN u = 1..(Len(n) + 1)
        /\ \A i \in 1..Len(n) : u[i + 1] = n[i]
    BY PlacesInFront
  <1>3. Len(n) \in Nat OBVIOUS
  <1> HIDE DEF t, u
  <1>4. ASSUME NEW i \in 1..(Len(n) + 1), i # 1 PROVE t[i] = u[i]
    <2>1. i - 1 \in 1..Len(n) /\ (i - 1) + 1 = i BY <1>3, <1>4
    <2> QED BY <1>1, <1>2, <2>1
  <1>5. t = [i \in 1..(Len(n) + 1) |-> t[i]] BY <1>1
  <1>6. u = [i \in 1..(Len(n) + 1) |-> u[i]] BY <1>2
  <1>7. t = [u EXCEPT ![1] = x]
    BY <1>1, <1>2, <1>4, <1>5, <1>6
  <1> QED BY <1>7 DEF t, u

(* evict: the last pair, which was used least recently of all, leaves.     *)
LEMMA Evicted ==
  ASSUME NEW l, NEW m, Holds(l, m), Len(l) > 0
  PROVE  LET o == Last(l).key IN
         /\ Holds(Front(l), Drop(m, o)) /\ Len(Front(l)) = Len(l) - 1
         /\ o \in DOMAIN m
         /\ Newer(Front(l)) = Without(o, Newer(l))
         /\ \A j \in DOMAIN m \ {o} : <<j, o>> \in Newer(l)
  <1> DEFINE o == Last(l).key
             p == Len(l)
  <1>1. List(l) /\ Len(l) \in Nat /\ DOMAIN l = 1..Len(l) BY DEF Holds, List
  <1>2. p \in DOMAIN l /\ Front(l) = RemoveAt(l, p) BY <1>1, FrontWithoutLast
  <1>3. o = l[p].key BY DEF Last
  <1>4. /\ Holds(RemoveAt(l, p), Drop(m, l[p].key)) /\ Len(RemoveAt(l, p)) = Len(l) - 1
        /\ l[p].key \in DOMAIN m
        /\ Newer(RemoveAt(l, p)) = Without(l[p].key, Newer(l))
    BY <1>2, HoldsWithout
  <1> HIDE DEF o
  <1>5. ASSUME NEW j \in DOMAIN m \ {o} PROVE <<j, o>> \in Newer(l)
    <2>1. PICK i \in DOMAIN l : l[i].key = j BY PlaceOf
    <2>2. i # p BY <1>3, <2>1
    <2>3. i < p BY <1>1, <2>2
    <2>4. j \in Key /\ o \in Key BY <1>3, <1>4, PlaceOf
    <2>5. <<j, o>> = <<l[i].key, l[p].key>> BY <1>3, <2>1
    <2> QED BY <1>2, <2>3, <2>4, <2>5 DEF Newer
  <1> QED BY <1>2, <1>3, <1>4, <1>5 DEF o

(* The invariant says what TypeOK and Coherent say.                        *)
LEMMA InvSaysCoherent == Inv => TypeOK /\ Coherent
  <1> SUFFICES ASSUME Inv PROVE TypeOK /\ Coherent
    OBVIOUS
  <1>1. lru \in Seq(Pair) /\ \A i, j \in DOMAIN lru : lru[i].key = lru[j].key => i = j
    BY DEF Inv, Holds, List
  <1>2. TypeOK BY <1>1, MapTyped DEF Inv, TypeOK
  <1>3. \A i \in DOMAIN lru : lru[i].key \in DOMAIN cache /\ cache[lru[i].key] = lru[i]
    BY DEF Inv, Holds, Keys
  <1>4. \A k \in DOMAIN cache : \E i \in DOMAIN lru : lru[i].key = k
    BY DEF Inv, Holds, Keys
  <1> QED BY <1>1, <1>2, <1>3, <1>4 DEF Coherent, Inv

(* NewLRUCache: an empty list and an empty map.                            *)
LEMMA InvInit == Init => Inv
  <1> SUFFICES ASSUME Init PROVE Inv
    OBVIOUS
  <1>1. lru = <<>> /\ DOMAIN cache = {} /\ cache = [k \in {} |-> NotFound] BY DEF Init
  <1>2. List(lru) /\ Keys(lru) = {} BY <1>1 DEF List, Keys
  <1>3. cache = [k \in {} |-> cache[k]] BY <1>1
  <1>4. Holds(lru, cache) BY <1>1, <1>2, <1>3 DEF Holds
  <1>5. Len(lru) = 0 BY <1>1
  <1> QED BY <1>4, <1>5, CapacityAssumption DEF Init, Inv

-----------------------------------------------------------------------------
(* The methods, one by one.                                                *)

(* The pairs of the map, as RecencyStore has them.                         *)
Values(m) == [k \in DOMAIN m |-> m[k].value]

(* RecencyStore's operators on what the cache is mapped to.                *)
LEMMA AbstractState ==
  /\ Abstract!Held = DOMAIN cache
  /\ \A k : Abstract!Touch(k, Newer(lru)) =
        Without(k, Newer(lru)) \cup Above(k, DOMAIN cache \ {k})
  /\ \A k, order : Abstract!Forget(k, order) = Without(k, order)
  BY DEF Abstract!Held, Abstract!Touch, Abstract!Forget, Above, Without

(* A map is not changed by the pair it has.                                *)
LEMMA WithItsOwn ==
  ASSUME NEW l, NEW m, Holds(l, m), NEW k \in DOMAIN m
  PROVE  With(m, m[k]) = m
  <1>1. m[k].key = k BY PlaceOf
  <1>2. m = [j \in DOMAIN m |-> m[j]] BY DEF Holds
  <1>3. DOMAIN m \cup {k} = DOMAIN m OBVIOUS
  <1>4. With(m, m[k]) = [j \in DOMAIN m \cup {k} |-> IF j = k THEN m[k] ELSE m[j]]
    BY <1>1 DEF With
  <1>5. [j \in DOMAIN m \cup {k} |-> IF j = k THEN m[k] ELSE m[j]] = [j \in DOMAIN m |-> m[j]]
    BY <1>3
  <1> QED BY <1>2, <1>4, <1>5

(* Get keeps the invariant and is a Get of RecencyStore.                   *)
LEMMA GetStep ==
  ASSUME Inv, NEW k \in Key, Get(k)
  PROVE  Inv' /\ Abstract!Get(k)
  <1>0. Holds(lru, cache) BY DEF Inv
  <1>1. CASE k \in DOMAIN cache
    <2>1. /\ lru' = <<cache[k]>> \o RemoveFirst(lru, cache[k])
          /\ ret' = cache[k].value /\ capacity' = capacity /\ cache' = cache
      BY <1>1 DEF Get, MoveToFront
    <2>2. cache[k] \in Pair /\ cache[k].key = k BY <1>0, <1>1, PlaceOf
    <2>3. /\ Holds(lru', With(cache, cache[k])) /\ Len(lru') = Len(lru)
          /\ Newer(lru') = Without(k, Newer(lru)) \cup Above(k, DOMAIN cache \ {k})
      <3>1. PICK x \in Pair : x = cache[k] /\ x.key = k BY <2>2
      <3> DEFINE t == <<x>> \o RemoveFirst(lru, cache[x.key])
      <3>2. x.key \in DOMAIN cache BY <1>1, <3>1
      <3>3. /\ Holds(t, With(cache, x)) /\ Len(t) = Len(lru)
            /\ Newer(t) = Without(x.key, Newer(lru)) \cup Above(x.key, DOMAIN cache \ {x.key})
        BY <1>0, <3>2, MovedInFront
      <3>4. t = lru' BY <2>1, <3>1
      <3> HIDE DEF t
      <3> QED BY <3>1, <3>3, <3>4
    <2>4. Holds(lru', cache') BY <1>0, <1>1, <2>1, <2>3, WithItsOwn
    <2>5. ret' \in Value BY <2>1, <2>2 DEF Pair
    <2>6. Inv' BY <2>1, <2>3, <2>4, <2>5 DEF Inv
    <2>7. Newer(lru') = Abstract!Touch(k, Newer(lru)) BY <2>3, AbstractState
    <2>8. ret' = Values(cache)[k] /\ Values(cache') = Values(cache) BY <1>1, <2>1 DEF Values
    <2>9. Abstract!Get(k)
      BY <1>1, <2>1, <2>7, <2>8, AbstractState DEF Abstract!Get, Newer, Values
    <2> QED BY <2>6, <2>9
  <1>2. CASE k \notin DOMAIN cache
    <2>1. lru' = lru /\ ret' = NotFound /\ capacity' = capacity /\ cache' = cache
      BY <1>2 DEF Get
    <2>2. Inv' BY <2>1 DEF Inv
    <2>3. Abstract!Get(k) BY <1>2, <2>1, AbstractState DEF Abstract!Get
    <2> QED BY <2>2, <2>3
  <1> QED BY <1>1, <1>2

(* Delete keeps the invariant and is a Delete of RecencyStore.             *)
LEMMA DeleteStep ==
  ASSUME Inv, NEW k \in Key, Delete(k)
  PROVE  Inv' /\ Abstract!Delete(k)
  <1>0. Holds(lru, cache) BY DEF Inv
  <1>1. CASE k \in DOMAIN cache
    <2>1. /\ lru' = RemoveFirst(lru, cache[k])
          /\ cache' = Drop(cache, k)
          /\ ret' = Done /\ capacity' = capacity
      BY <1>1 DEF Delete
    <2>2. cache[k] \in Pair /\ cache[k].key = k BY <1>0, <1>1, PlaceOf
    <2>3. /\ Holds(lru', cache') /\ Len(lru') = Len(lru) - 1
          /\ Newer(lru') = Without(k, Newer(lru))
      <3> DEFINE n == RemoveFirst(lru, cache[k])
      <3>1. /\ Holds(n, Drop(cache, k)) /\ Len(n) = Len(lru) - 1
            /\ Newer(n) = Without(k, Newer(lru))
        BY <1>0, <1>1, MovedOut
      <3> QED BY <2>1, <3>1
    <2>4. Len(lru) \in Nat BY DEF Inv, Holds, List
    <2>5. Inv' BY <2>1, <2>3, <2>4 DEF Inv
    <2>6. Newer(lru') = Abstract!Forget(k, Newer(lru)) BY <2>3, AbstractState
    <2>7. Values(cache') = [j \in DOMAIN cache \ {k} |-> Values(cache)[j]]
      BY <2>1 DEF Values, Drop
    <2>8. Abstract!Delete(k)
      BY <1>1, <2>1, <2>6, <2>7, AbstractState DEF Abstract!Delete, Newer, Values
    <2> QED BY <2>5, <2>8
  <1>2. CASE k \notin DOMAIN cache
    <2>1. lru' = lru /\ ret' = Failed /\ capacity' = capacity /\ cache' = cache
      BY <1>2 DEF Delete
    <2>2. Inv' BY <2>1 DEF Inv
    <2>3. Abstract!Delete(k) BY <1>2, <2>1, AbstractState DEF Abstract!Delete
    <2> QED BY <2>2, <2>3
  <1> QED BY <1>1, <1>2

(* EnlargeCapacity keeps the invariant, as it never shrinks the cache, and *)
(* is that of RecencyStore.                                                *)
LEMMA EnlargeStep ==
  ASSUME Inv, NEW n \in 0..MaxCapacity, EnlargeCapacity(n)
  PROVE  Inv' /\ Abstract!EnlargeCapacity(n)
  <1>0. Len(lru) \in Nat /\ n \in Nat BY CapacityAssumption DEF Inv, Holds, List
  <1>1. Inv' BY <1>0 DEF EnlargeCapacity, Inv
  <1>2. Abstract!EnlargeCapacity(n) BY DEF EnlargeCapacity, Abstract!EnlargeCapacity
  <1> QED BY <1>1, <1>2

(* RecencyStore counts as this module does.                                *)
LEMMA SameCardinality == \A S : Abstract!Cardinality(S) = Cardinality(S)
  BY DEF Abstract!Cardinality, Cardinality, Abstract!IsFiniteSet, IsFiniteSet

(* Put of RecencyStore, with what the cache is mapped to.                  *)
LEMMA AbstractPut ==
  ASSUME NEW k, NEW v, ret' = Done, capacity' = capacity,
         LET all   == [j \in Abstract!Held \cup {k} |->
                         IF j = k THEN v ELSE Values(cache)[j]]
             order == Abstract!Touch(k, Newer(lru))
         IN  \/ /\ Cardinality(DOMAIN all) <= capacity
                /\ Values(cache') = all
                /\ Newer(lru') = order
             \/ /\ Cardinality(DOMAIN all) > capacity
                /\ \E o \in Abstract!Oldest(DOMAIN all, order) :
                      /\ Values(cache') = [j \in DOMAIN all \ {o} |-> all[j]]
                      /\ Newer(lru') = Abstract!Forget(o, order)
  PROVE  Abstract!Put(k, v)
  BY SameCardinality DEF Abstract!Put, Values, Newer

(* Put keeps the invariant and is a Put of RecencyStore, in its three      *)
(* cases: the key is held, the new key fits, or the last pair of the list  *)
(* makes room.                                                             *)
LEMMA PutStep ==
  ASSUME Inv, NEW k \in Key, NEW v \in Value, Put(k, v)
  PROVE  Inv' /\ Abstract!Put(k, v)
  <1> DEFINE x     == [key |-> k, value |-> v]
             w     == With(cache, x)
             all   == [j \in Abstract!Held \cup {k} |-> IF j = k THEN v ELSE Values(cache)[j]]
             order == Abstract!Touch(k, Newer(lru))
  <1>0. Holds(lru, cache) /\ Len(lru) \in Nat /\ capacity \in Nat /\ Len(lru) <= capacity
    BY DEF Inv, Holds, List
  <1>1. x \in Pair /\ x.key = k /\ x.value = v BY DEF Pair
  <1>2. w = [j \in DOMAIN cache \cup {k} |-> IF j = k THEN x ELSE cache[j]]
    BY DEF With
  <1>3. ret' = Done /\ capacity' = capacity BY DEF Put
  <1>4. all = Values(w) /\ DOMAIN all = DOMAIN w /\ DOMAIN w = DOMAIN cache \cup {k}
    <2>1. /\ DOMAIN w = DOMAIN cache \cup {k}
          /\ Values(w) = [j \in DOMAIN cache \cup {k} |->
                            IF j = k THEN v ELSE Values(cache)[j]]
      <3> HIDE DEF x
      <3> QED BY <1>1, <1>2 DEF Values
    <2> QED BY <2>1, AbstractState
  <1>5. order = Without(k, Newer(lru)) \cup Above(k, DOMAIN cache \ {k})
    BY AbstractState
  <1>6. CASE k \in DOMAIN cache
    <2>1. lru' = [MoveToFront(lru, cache[k]) EXCEPT ![1] = x] /\ cache' = w
      BY <1>2, <1>6 DEF Put
    <2> DEFINE n == RemoveFirst(lru, cache[k])
               t == <<x>> \o n
    <2>2. n \in Seq(Pair) /\ cache[k] \in Pair
      BY <1>0, <1>6, MovedOut, PlaceOf DEF Holds, List
    <2>3. lru' = t
      <3> HIDE DEF x, n
      <3> QED BY <1>1, <2>1, <2>2, FrontReplaced DEF MoveToFront, n
    <2> HIDE DEF x
    <2>4. /\ Holds(t, w) /\ Len(t) = Len(lru)
          /\ Newer(t) = Without(k, Newer(lru)) \cup Above(k, DOMAIN cache \ {k})
      <3>1. x.key \in DOMAIN cache BY <1>1, <1>6
      <3> DEFINE r == <<x>> \o RemoveFirst(lru, cache[x.key])
      <3>2. /\ Holds(r, With(cache, x)) /\ Len(r) = Len(lru)
            /\ Newer(r) = Without(x.key, Newer(lru)) \cup Above(x.key, DOMAIN cache \ {x.key})
        BY <1>0, <1>1, <3>1, MovedInFront
      <3>3. r = t BY <1>1
      <3> HIDE DEF r, t
      <3> QED BY <1>1, <3>2, <3>3
    <2> HIDE DEF t, w, order, all
    <2>5. Inv' BY <1>0, <1>3, <2>1, <2>3, <2>4 DEF Inv
    <2>6. DOMAIN all = DOMAIN cache BY <1>4, <1>6
    <2>7. Cardinality(DOMAIN all) <= capacity BY <1>0, <2>6, AsManyKeys
    <2>8. Values(cache') = all /\ Newer(lru') = order BY <1>4, <1>5, <2>1, <2>3, <2>4
    <2>9. Abstract!Put(k, v)
      BY <1>3, <2>7, <2>8, AbstractPut DEF all, order
    <2> QED BY <2>5, <2>9
  <1>7. CASE k \notin DOMAIN cache
    <2> DEFINE t == <<x>> \o lru
    <2>0. Without(k, Newer(lru)) = Newer(lru)
      <3>1. ASSUME NEW e \in Newer(lru) PROVE k \notin {e[1], e[2]}
        <4>1. PICK i, j \in DOMAIN lru : e = <<lru[i].key, lru[j].key>> BY DEF Newer
        <4>2. lru[i].key \in DOMAIN cache /\ lru[j].key \in DOMAIN cache
          BY <1>0 DEF Holds, Keys
        <4> QED BY <1>7, <4>1, <4>2
      <3> QED BY <3>1 DEF Without
    <2>1. t = PushFront(lru, x) BY DEF PushFront
    <2>2. \/ Len(t) <= capacity /\ lru' = t /\ cache' = w
          \/ Len(t) > capacity /\ lru' = Front(t) /\ cache' = Drop(w, Last(t).key)
      BY <1>2, <1>7, <2>1 DEF Put, Evict
    <2> HIDE DEF x
    <2>3. /\ Holds(t, w) /\ Len(t) = Len(lru) + 1
          /\ Newer(t) = Newer(lru) \cup Above(x.key, DOMAIN cache)
      <3>1. x.key \notin DOMAIN cache BY <1>1, <1>7
      <3> QED BY <1>0, <1>1, <3>1, HoldsInFront
    <2> HIDE DEF t, w, order, all
    <2>4. order = Newer(t)
      <3>1. DOMAIN cache \ {k} = DOMAIN cache BY <1>7
      <3> QED BY <1>1, <1>5, <2>0, <2>3, <3>1
    <2>5. Cardinality(DOMAIN all) = Len(t) BY <1>4, <2>3, AsManyKeys
    <2>6. CASE Len(t) <= capacity
      <3>1. lru' = t /\ cache' = w BY <1>0, <2>2, <2>3, <2>6
      <3>2. Inv' BY <1>0, <1>3, <2>3, <2>6, <3>1 DEF Inv
      <3>3. Values(cache') = all /\ Newer(lru') = order BY <1>4, <2>4, <3>1
      <3>4. Abstract!Put(k, v)
        <4>1. Cardinality(DOMAIN all) <= capacity BY <2>5, <2>6
        <4> QED BY <1>3, <3>3, <4>1, AbstractPut DEF all, order
      <3> QED BY <3>2, <3>4
    <2>7. CASE Len(t) > capacity
      <3> DEFINE o == Last(t).key
      <3>1. lru' = Front(t) /\ cache' = Drop(w, o) BY <1>0, <2>2, <2>3, <2>7
      <3>2. /\ Holds(lru', cache') /\ Len(lru') = Len(lru)
            /\ o \in DOMAIN w
            /\ Newer(lru') = Without(o, Newer(t))
            /\ \A j \in DOMAIN w \ {o} : <<j, o>> \in Newer(t)
        <4>1. Len(t) > 0 /\ Len(t) - 1 = Len(lru) BY <1>0, <2>3
        <4> QED BY <2>3, <3>1, <4>1, Evicted
      <3> HIDE DEF o
      <3>3. Inv' BY <1>0, <1>3, <3>2 DEF Inv
      <3>4. o \in Abstract!Oldest(DOMAIN all, order)
        BY <1>4, <2>4, <3>2 DEF Abstract!Oldest
      <3>5. Newer(lru') = Abstract!Forget(o, order) BY <2>4, <3>2, AbstractState
      <3>6. Values(cache') = [j \in DOMAIN all \ {o} |-> all[j]]
        BY <1>4, <3>1 DEF Values, Drop
      <3>7. Cardinality(DOMAIN all) > capacity BY <2>5, <2>7
      <3>8. Abstract!Put(k, v)
        BY <1>3, <3>4, <3>5, <3>6, <3>7, AbstractPut DEF all, order
      <3> QED BY <3>3, <3>8
    <2>8. Len(t) <= capacity \/ Len(t) > capacity BY <1>0, <2>3
    <2> QED BY <2>6, <2>7, <2>8
  <1> QED BY <1>6, <1>7

(* The invariant and the refinement, step by step.                         *)
LEMMA Steps ==
  ASSUME Inv, [Next]_vars
  PROVE  Inv' /\ [Abstract!Next]_(Abstract!rsVars)
  <1>1. ASSUME NEW k \in Key, Get(k) PROVE Inv' /\ Abstract!Next
    BY <1>1, GetStep DEF Abstract!Next
  <1>2. ASSUME NEW k \in Key, Delete(k) PROVE Inv' /\ Abstract!Next
    BY <1>2, DeleteStep DEF Abstract!Next
  <1>3. ASSUME NEW k \in Key, NEW v \in Value, Put(k, v) PROVE Inv' /\ Abstract!Next
    BY <1>3, PutStep DEF Abstract!Next
  <1>4. ASSUME NEW n \in 0..MaxCapacity, EnlargeCapacity(n) PROVE Inv' /\ Abstract!Next
    BY <1>4, EnlargeStep DEF Abstract!Next
  <1>5. CASE UNCHANGED vars
    <2>1. UNCHANGED <<capacity, lru, cache, ret>> BY <1>5 DEF vars
    <2>2. Inv' BY <2>1 DEF Inv
    <2>3. UNCHANGED Abstract!rsVars BY <2>1 DEF Abstract!rsVars
    <2> QED BY <2>2, <2>3
  <1> QED BY <1>1, <1>2, <1>3, <1>4, <1>5 DEF Next

(* NewLRUCache makes an empty store.                                       *)
LEMMA InitOfStore == Init => Abstract!Init
  <1> SUFFICES ASSUME Init PROVE Abstract!Init
    OBVIOUS
  <1>1. lru = <<>> /\ cache = [k \in {} |-> NotFound] /\ capacity = InitCapacity /\ ret = Done
    BY DEF Init
  <1>2. [k \in DOMAIN cache |-> cache[k].value] = [k \in {} |-> NotFound] BY <1>1
  <1>3. DOMAIN lru = {} BY <1>1
  <1>4. Newer(lru) = {} BY <1>3 DEF Newer
  <1> QED BY <1>1, <1>2, <1>4 DEF Abstract!Init, Newer

(* Every reachable state satisfies the invariant.                          *)
LEMMA Invariance == Spec => []Inv
  BY InvInit, Steps, PTL DEF Spec

(* The types, for all keys, values and capacities.                         *)
THEOREM TypeCorrect == Spec => []TypeOK
  BY Invariance, InvSaysCoherent, PTL

(* Get, Put, Delete, evict and EnlargeCapacity keep the list and the map   *)
(* together: the same pairs, each key once, and no more than fit, also with*)
(* a capacity of 0.                                                        *)
THEOREM ListAndMapAgree == Spec => []Coherent
  BY Invariance, InvSaysCoherent, PTL

(* The cache is a store that evicts the key used least recently and no     *)
(* other: every method of lru_cache.go does to the map, and to the order of*)
(* use that the list stands for, what RecencyStore's operation does.       *)
THEOREM RecencyStoreImplemented == Spec => ImplementsRecencyStore
  BY Invariance, InitOfStore, Steps, PTL DEF Spec, ImplementsRecencyStore, Abstract!Spec
=============================================================================
