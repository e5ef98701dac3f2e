---------------------------- MODULE LevelDBProofs ----------------------------
(***************************************************************************)
(* Proofs about LevelDB, for every set of names, keys and values.          *)
(*                                                                         *)
(* Everything about the stores rests on one fact about bytes: a name holds *)
(* no separator (NameAssumption), so that the first separator of a level   *)
(* key ends the name.  From it follow that level keys are different where  *)
(* names or keys are (LevelKeyInjective), that the key is found again      *)
(* (AppKeyRetrieved), and that the range of an iterator of a name, with    *)
(* nil bounds too, holds level keys of that name only (RangeOfName).  The  *)
(* first gives the refinement of NamedStores, all three the iterator.      *)
(***************************************************************************)
EXTENDS LevelDB, SequenceTheorems, TLAPS

-----------------------------------------------------------------------------
(* Level keys.                                                             *)

(* A level key, byte by byte: the name, the separator, the key.            *)
LEMMA LevelKeyBytes ==
  ASSUME NEW n \in Seq(Nat), NEW k \in Seq(Nat)
  PROVE  LET x == constructLevelKey(n, k) IN
         /\ x \in Seq(Nat)
         /\ Len(n) \in Nat /\ Len(k) \in Nat
         /\ Len(x) = Len(n) + 1 + Len(k)
         /\ DOMAIN x = 1..(Len(n) + 1 + Len(k))
         /\ \A i \in 1..Len(n) : x[i] = n[i]
         /\ x[Len(n) + 1] = 0
         /\ \A j \in 1..Len(k) : x[Len(n) + 1 + j] = k[j]
  <1> DEFINE p == n \o <<0>>
             x == p \o k
  <1>1. /\ p \in Seq(Nat) /\ Len(p) = Len(n) + 1
        /\ \A i \in 1..Len(n) : p[i] = n[i]
        /\ p[Len(n) + 1] = 0
    OBVIOUS
  <1> HIDE DEF p
  <1>2. /\ x \in Seq(Nat) /\ Len(x) = Len(p) + Len(k) /\ DOMAIN x = 1..Len(x)
        /\ \A i \in 1..Len(p) : x[i] = p[i]
        /\ \A j \in 1..Len(k) : x[Len(p) + j] = k[j]
    <2>1. x \in Seq(Nat) /\ Len(x) = Len(p) + Len(k) BY <1>1, ConcatProperties
    <2>2. DOMAIN x = 1..Len(x) BY <2>1
    <2>3. \A i \in 1..Len(p) : x[i] = p[i] BY <1>1, <2>1
    <2>4. \A j \in 1..Len(k) : x[Len(p) + j] = k[j] BY <1>1, <2>1
    <2> HIDE DEF x
    <2> QED BY <2>1, <2>2, <2>3, <2>4
  <1>3. Len(n) \in Nat /\ Len(k) \in Nat OBVIOUS
  <1>4. constructLevelKey(n, k) = x BY DEF constructLevelKey, dbNameKeySep, p
  <1> HIDE DEF x
  <1> QED BY <1>1, <1>2, <1>3, <1>4

(* Names have no separator.                                                *)
LEMMA NameBytes ==
  /\ \A n \in Name : n \in Seq(Nat) /\ \A i \in 1..Len(n) : n[i] # 0
  /\ \A k \in Key : k \in Seq(Nat)
  BY NameAssumption DEF dbNameKeySep

(* Two sequences are equal if they have the same length and elements.      *)
LEMMA SameSequence ==
  ASSUME NEW a \in Seq(Nat), NEW b \in Seq(Nat), Len(a) = Len(b),
         \A i \in 1..Len(a) : a[i] = b[i]
  PROVE  a = b
  OBVIOUS

(* A level key in whose bytes n stands before a separator is one of n.     *)
LEMMA NameFound ==
  ASSUME NEW m \in Name, NEW n \in Name, NEW k \in Key,
         LET x == constructLevelKey(m, k) IN
         /\ \A i \in 1..Len(n) : i \in DOMAIN x /\ x[i] = n[i]
         /\ Len(n) + 1 \in DOMAIN x /\ x[Len(n) + 1] = 0
  PROVE  m = n
  <1> DEFINE x == constructLevelKey(m, k)
  <1>1. /\ m \in Seq(Nat) /\ n \in Seq(Nat) /\ k \in Seq(Nat)
        /\ \A i \in 1..Len(m) : m[i] # 0
        /\ \A i \in 1..Len(n) : n[i] # 0
    BY NameBytes
  <1>2. /\ \A i \in 1..Len(m) : x[i] = m[i]
        /\ x[Len(m) + 1] = 0
    BY <1>1, LevelKeyBytes
  <1>3. /\ \A i \in 1..Len(n) : x[i] = n[i]
        /\ x[Len(n) + 1] = 0
    OBVIOUS
  <1> HIDE DEF x
  <1>4. Len(m) \in Nat /\ Len(n) \in Nat BY <1>1
  <1>5. ~(Len(m) < Len(n))
    <2>1. ASSUME Len(m) < Len(n) PROVE FALSE
      <3>1. Len(m) + 1 \in 1..Len(n) BY <1>4, <2>1
      <3> QED BY <1>1, <1>2, <1>3, <3>1
    <2> QED BY <2>1
  <1>6. ~(Len(n) < Len(m))
    <2>1. ASSUME Len(n) < Len(m) PROVE FALSE
      <3>1. Len(n) + 1 \in 1..Len(m) BY <1>4, <2>1
      <3> QED BY <1>1, <1>2, <1>3, <3>1
    <2> QED BY <2>1
  <1>7. Len(m) = Len(n) BY <1>4, <1>5, <1>6
  <1>8. \A i \in 1..Len(m) : m[i] = n[i] BY <1>2, <1>3, <1>7
  <1> QED BY <1>1, <1>7, <1>8, SameSequence

(* Different names or keys have different level keys.                      *)
LEMMA LevelKeyInjective ==
  ASSUME NEW m \in Name, NEW n \in Name, NEW j \in Key, NEW k \in Key,
         constructLevelKey(m, j) = constructLevelKey(n, k)
  PROVE  m = n /\ j = k
  <1> DEFINE x == constructLevelKey(m, j)
  <1>1. /\ m \in Seq(Nat) /\ n \in Seq(Nat) /\ j \in Seq(Nat) /\ k \in Seq(Nat)
    BY NameBytes
  <1>2. /\ Len(m) \in Nat /\ Len(j) \in Nat
        /\ Len(x) = Len(m) + 1 + Len(j)
        /\ \A i \in 1..Len(j) : x[Len(m) + 1 + i] = j[i]
    BY <1>1, LevelKeyBytes
  <1>3. /\ Len(n) \in Nat /\ Len(k) \in Nat
        /\ Len(x) = Len(n) + 1 + Len(k)
        /\ DOMAIN x = 1..(Len(n) + 1 + Len(k))
        /\ \A i \in 1..Len(n) : x[i] = n[i]
        /\ x[Len(n) + 1] = 0
        /\ \A i \in 1..Len(k) : x[Len(n) + 1 + i] = k[i]
    <2> DEFINE y == constructLevelKey(n, k)
    <2>1. /\ Len(n) \in Nat /\ Len(k) \in Nat
          /\ Len(y) = Len(n) + 1 + Len(k)
          /\ DOMAIN y = 1..(Len(n) + 1 + Len(k))
          /\ \A i \in 1..Len(n) : y[i] = n[i]
          /\ y[Len(n) + 1] = 0
          /\ \A i \in 1..Len(k) : y[Len(n) + 1 + i] = k[i]
      BY <1>1, LevelKeyBytes
    <2>2. x = y OBVIOUS
    <2> HIDE DEF x, y
    <2> QED BY <2>1, <2>2
  <1> HIDE DEF x
  <1>4. m = n
    <2>1. /\ \A i \in 1..Len(n) : i \in DOMAIN x /\ x[i] = n[i]
          /\ Len(n) + 1 \in DOMAIN x /\ x[Len(n) + 1] = 0
      BY <1>3
    <2> QED BY <2>1, NameFound DEF x
  <1>5. Len(j) = Len(k) BY <1>2, <1>3, <1>4
  <1>6. \A i \in 1..Len(j) : j[i] = k[i] BY <1>2, <1>3, <1>4, <1>5
  <1> QED BY <1>1, <1>4, <1>5, <1>6, SameSequence

(* A level key of n is of the store of n, and its key is found again.      *)
LEMMA AppKeyRetrieved ==
  ASSUME NEW n \in Name, NEW k \in Key
  PROVE  retrieveAppKey(constructLevelKey(n, k)) = k
  <1> DEFINE x == constructLevelKey(n, k)
             First(i) == /\ x[i] = dbNameKeySep[1]
                         /\ \A j \in 1..(i - 1) : x[j] # x[i]
             c == CHOOSE i \in DOMAIN x : First(i)
  <1>1. n \in Seq(Nat) /\ k \in Seq(Nat) /\ \A i \in 1..Len(n) : n[i] # 0
    BY NameBytes
  <1>2. /\ x \in Seq(Nat)
        /\ Len(n) \in Nat /\ Len(k) \in Nat
        /\ Len(x) = Len(n) + 1 + Len(k)
        /\ DOMAIN x = 1..(Len(n) + 1 + Len(k))
        /\ \A i \in 1..Len(n) : x[i] = n[i]
        /\ x[Len(n) + 1] = 0
        /\ \A j \in 1..Len(k) : x[Len(n) + 1 + j] = k[j]
    BY <1>1, LevelKeyBytes
  <1>3. dbNameKeySep[1] = 0 BY DEF dbNameKeySep
  <1>4. retrieveAppKey(x) = SubSeq(x, c + 1, Len(x)) BY DEF retrieveAppKey
  <1> HIDE DEF x
  <1>5. Len(n) + 1 \in DOMAIN x /\ First(Len(n) + 1)
    <2>1. Len(n) + 1 \in DOMAIN x BY <1>2
    <2>2. \A j \in 1..((Len(n) + 1) - 1) : x[j] # 0 BY <1>1, <1>2
    <2>3. \A j \in 1..((Len(n) + 1) - 1) : x[j] # x[Len(n) + 1] BY <1>2, <2>2
    <2>4. x[Len(n) + 1] = dbNameKeySep[1] BY <1>2, <1>3
    <2> QED BY <2>1, <2>3, <2>4
  <1>6. \A i \in DOMAIN x : First(i) => i = Len(n) + 1
    <2> SUFFICES ASSUME NEW i \in DOMAIN x, First(i), i # Len(n) + 1 PROVE FALSE
      OBVIOUS
    <2>1. i \in Nat /\ i >= 1 /\ x[i] = 0 BY <1>2, <1>3
    <2>2. CASE i < Len(n) + 1
      <3>1. i \in 1..Len(n) BY <1>2, <2>1, <2>2
      <3> QED BY <1>1, <1>2, <2>1, <3>1
    <2>3. CASE i > Len(n) + 1
      <3>1. Len(n) + 1 \in 1..(i - 1) BY <1>2, <2>1, <2>3
      <3> QED BY <1>2, <2>1, <3>1
    <2>4. i < Len(n) + 1 \/ i > Len(n) + 1
      <3>1. Len(n) + 1 \in Nat BY <1>2
      <3> HIDE DEF First
      <3> QED BY <2>1, <3>1
    <2> QED BY <2>2, <2>3, <2>4
  <1> HIDE DEF First
  <1>7. c = Len(n) + 1 BY <1>5, <1>6
  <1> HIDE DEF c
  <1> DEFINE y == SubSeq(x, c + 1, Len(x))
  <1>8. y \in Seq(Nat) /\ Len(y) = Len(k) /\ \A i \in 1..Len(k) : y[i] = x[c + i]
    <2>1. c + 1 \in Int /\ Len(x) \in Int /\ Len(x) - (c + 1) + 1 = Len(k) BY <1>2, <1>7
    <2>2. c + 1 \in 1..(Len(x) + 1) BY <1>2, <1>7
    <2>3. y \in Seq(Nat)
      BY <1>2, <2>2, SubSeqProperties
    <2>4. Len(y) = Len(k)
      BY <1>2, <1>7, <2>2, SubSeqProperties
    <2>5. \A i \in 1..Len(k) : y[i] = x[c + i]
      BY <1>2, <1>7, <2>2, <2>4, SubSeqProperties
    <2> QED BY <2>3, <2>4, <2>5
  <1>9. \A i \in 1..Len(y) : y[i] = k[i] BY <1>2, <1>7, <1>8
  <1> HIDE DEF y
  <1>10. y = k BY <1>1, <1>8, <1>9, SameSequence
  <1> QED BY <1>4, <1>10 DEF x, y

(* A sequence that begins with the bytes of a name.                        *)
Under(n, y) ==
    /\ y \in Seq(Nat) /\ Len(y) >= Len(n) + 1
    /\ \A i \in 1..Len(n) : y[i] = n[i]

(* What lies in the range of an iterator of n is of the store of n: a key  *)
(* that is not before one that begins with n, and is before one that begins*)
(* with n and goes on with the separator, or ends with lastKeyIndicator in *)
(* its place, begins with n and a separator.                               *)
LEMMA RangeOfName ==
  ASSUME NEW m \in Name, NEW n \in Name, NEW k \in Key, NEW y, NEW z,
         Under(n, y), Under(n, z),
         \/ y[Len(n) + 1] = 0
         \/ y[Len(n) + 1] = 1 /\ Len(y) = Len(n) + 1,
         ~Before(constructLevelKey(m, k), z), Before(constructLevelKey(m, k), y)
  PROVE  m = n
  <1> DEFINE x == constructLevelKey(m, k)
  <1>1. /\ m \in Seq(Nat) /\ n \in Seq(Nat) /\ k \in Seq(Nat)
        /\ \A i \in 1..Len(n) : n[i] # 0
    BY NameBytes
  <1>2. /\ x \in Seq(Nat)
        /\ Len(m) \in Nat /\ Len(k) \in Nat
        /\ DOMAIN x = 1..(Len(m) + 1 + Len(k))
        /\ x[Len(m) + 1] = 0
    BY <1>1, LevelKeyBytes
  <1>3. Len(n) \in Nat /\ Len(y) \in Nat /\ Len(z) \in Nat BY <1>1 DEF Under
  <1>4. ~Before(x, z) /\ Before(x, y) OBVIOUS
  <1>5. ASSUME /\ \A i \in 1..Len(n) : i \in DOMAIN x /\ x[i] = n[i]
               /\ Len(n) + 1 \in DOMAIN x /\ x[Len(n) + 1] = 0
        PROVE  m = n
    BY <1>5, NameFound
  <1> HIDE DEF x
  <1>6. PICK i \in 1..Len(y) : /\ \A j \in 1..(i - 1) : j \in DOMAIN x /\ x[j] = y[j]
                               /\ i \in DOMAIN x => x[i] < y[i]
    BY <1>4 DEF Before
  <1>7. ~(i <= Len(n))
    <2> SUFFICES ASSUME i <= Len(n) PROVE Before(x, z)
      BY <1>4
    <2>1. i \in 1..Len(z) /\ i \in 1..Len(n) BY <1>3, <1>6 DEF Under
    <2>2. ASSUME NEW j \in 1..(i - 1) PROVE j \in DOMAIN x /\ x[j] = z[j]
      <3>1. j \in 1..Len(n) BY <1>3, <2>1
      <3>2. y[j] = n[j] /\ z[j] = n[j] BY <3>1 DEF Under
      <3> QED BY <1>6, <3>2
    <2>3. i \in DOMAIN x => x[i] < z[i] BY <1>6, <2>1 DEF Under
    <2> QED BY <2>1, <2>2, <2>3 DEF Before
  <1>8. \A j \in 1..Len(n) : j \in DOMAIN x /\ x[j] = n[j]
    BY <1>3, <1>6, <1>7 DEF Under
  <1>9. Len(n) + 1 \in DOMAIN x
    <2> SUFFICES ASSUME Len(n) + 1 \notin DOMAIN x PROVE FALSE
      OBVIOUS
    <2>1. Len(m) + 1 \in 1..Len(n) BY <1>2, <1>3
    <2> QED BY <1>1, <1>2, <1>8, <2>1
  <1>10. x[Len(n) + 1] \in Nat BY <1>2, <1>9
  <1>11. x[Len(n) + 1] = 0
    <2>1. CASE i = Len(n) + 1 BY <1>6, <1>9, <1>10, <2>1
    <2>2. CASE i # Len(n) + 1
      <3>1. Len(n) + 1 \in 1..(i - 1) /\ Len(y) # Len(n) + 1 BY <1>3, <1>6, <1>7, <2>2
      <3> QED BY <1>6, <3>1
    <2> QED BY <2>1, <2>2
  <1> QED BY <1>5, <1>8, <1>9, <1>11

(* Within the store of a name the order is that of the keys.               *)
LEMMA OrderOfKeys ==
  ASSUME NEW n \in Name, NEW a \in Seq(Nat), NEW b \in Seq(Nat)
  PROVE  Before(constructLevelKey(n, a), constructLevelKey(n, b)) <=> Before(a, b)
  <1> DEFINE x == constructLevelKey(n, a)
             y == constructLevelKey(n, b)
             l == Len(n) + 1
  <1>1. n \in Seq(Nat) BY NameBytes
  <1>2. /\ Len(n) \in Nat /\ l \in Nat /\ Len(a) \in Nat /\ Len(x) = l + Len(a)
        /\ x \in Seq(Nat) /\ DOMAIN x = 1..(l + Len(a)) /\ DOMAIN a = 1..Len(a)
        /\ \A i \in 1..Len(n) : x[i] = n[i]
        /\ x[l] = 0
        /\ \A i \in 1..Len(a) : x[l + i] = a[i]
    <2>1. /\ Len(n) \in Nat /\ Len(a) \in Nat /\ Len(x) = Len(n) + 1 + Len(a)
          /\ x \in Seq(Nat) /\ DOMAIN x = 1..(Len(n) + 1 + Len(a))
          /\ \A i \in 1..Len(n) : x[i] = n[i]
          /\ x[Len(n) + 1] = 0
          /\ \A i \in 1..Len(a) : x[Len(n) + 1 + i] = a[i]
      BY <1>1, LevelKeyBytes
    <2>2. DOMAIN a = 1..Len(a) OBVIOUS
    <2> HIDE DEF x
    <2> QED BY <2>1, <2>2
  <1>3. /\ Len(b) \in Nat /\ Len(y) = l + Len(b)
        /\ \A i \in 1..Len(n) : y[i] = n[i]
        /\ y[l] = 0
        /\ \A i \in 1..Len(b) : y[l + i] = b[i]
    BY <1>1, LevelKeyBytes
  <1> HIDE DEF x, y
  <1>4. ASSUME NEW i \in 1..l PROVE x[i] = y[i] /\ x[i] \in Nat
    <2>0. Len(n) \in Nat BY <1>2
    <2>1. i \in 1..Len(n) \/ i = l BY <2>0
    <2>2. i \in 1..(l + Len(a)) BY <1>2
    <2> QED BY <1>2, <1>3, <2>1, <2>2
  <1>5. ASSUME Before(x, y) PROVE Before(a, b)
    <2>1. PICK i \in 1..Len(y) : /\ \A j \in 1..(i - 1) : j \in DOMAIN x /\ x[j] = y[j]
                                 /\ i \in DOMAIN x => x[i] < y[i]
      BY <1>5 DEF Before
    <2>2. i \notin 1..l
      <3> SUFFICES ASSUME i \in 1..l PROVE FALSE
        OBVIOUS
      <3>0. i \in 1..(l + Len(a)) BY <1>2
      <3>1. i \in DOMAIN x BY <1>2, <3>0
      <3>2. x[i] = y[i] /\ x[i] \in Nat BY <1>4
      <3> QED BY <2>1, <3>1, <3>2
    <2> DEFINE k == i - l
    <2>3. k \in 1..Len(b) /\ i = l + k BY <1>2, <1>3, <2>2
    <2> HIDE DEF k
    <2>4. ASSUME NEW j \in 1..(k - 1) PROVE j \in DOMAIN a /\ a[j] = b[j]
      <3>1. l + j \in 1..(i - 1) /\ j \in 1..Len(b) BY <1>2, <1>3, <2>3
      <3>2. l + j \in DOMAIN x /\ x[l + j] = y[l + j] BY <2>1, <3>1
      <3>3. j \in 1..Len(a) BY <1>2, <3>2
      <3> QED BY <1>2, <1>3, <3>1, <3>2, <3>3
    <2>5. ASSUME k \in DOMAIN a PROVE a[k] < b[k]
      <3>1. i \in DOMAIN x BY <1>2, <2>3, <2>5
      <3> QED BY <1>2, <1>3, <2>1, <2>3, <2>5, <3>1
    <2> QED BY <2>3, <2>4, <2>5 DEF Before
  <1>6. ASSUME Before(a, b) PROVE Before(x, y)
    <2>1. PICK k \in 1..Len(b) : /\ \A j \in 1..(k - 1) : j \in DOMAIN a /\ a[j] = b[j]
                                 /\ k \in DOMAIN a => a[k] < b[k]
      BY <1>6 DEF Before
    <2> DEFINE i == l + k
    <2>2. i \in 1..Len(y) BY <1>2, <1>3
    <2>3. ASSUME NEW j \in 1..(i - 1) PROVE j \in DOMAIN x /\ x[j] = y[j]
      <3>1. CASE j \in 1..l BY <1>2, <1>4, <3>1
      <3>2. CASE j \notin 1..l
        <4> DEFINE h == j - l
        <4>1. h \in 1..(k - 1) /\ j = l + h /\ h \in 1..Len(b) BY <1>2, <1>3, <3>2
        <4> HIDE DEF h
        <4>2. h \in 1..Len(a) /\ a[h] = b[h] BY <1>2, <2>1, <4>1
        <4>3. x[l + h] = a[h] /\ y[l + h] = b[h] BY <1>2, <1>3, <4>1, <4>2
        <4>4. l + h \in 1..(l + Len(a)) BY <1>2, <4>2
        <4> QED BY <1>2, <4>1, <4>2, <4>3, <4>4
      <3> QED BY <3>1, <3>2
    <2>4. ASSUME i \in DOMAIN x PROVE x[i] < y[i]
      <3>1. k \in 1..Len(a) BY <1>2, <2>4
      <3> QED BY <1>2, <1>3, <2>1, <3>1
    <2> HIDE DEF i
    <2> QED BY <2>2, <2>3, <2>4 DEF Before
  <1> QED BY <1>5, <1>6 DEF x, y

(* The bounds of a range begin with the name.                              *)
LEMMA BoundsUnder ==
  ASSUME NEW n \in Name
  PROVE  /\ \A a \in Seq(Nat) : /\ Under(n, constructLevelKey(n, a))
                                /\ constructLevelKey(n, a)[Len(n) + 1] = 0
         /\ LET y == n \o <<lastKeyIndicator>> IN
            /\ Under(n, y) /\ Len(y) = Len(n) + 1 /\ y[Len(n) + 1] = 1
  <1>1. n \in Seq(Nat) /\ Len(n) \in Nat BY NameBytes
  <1>2. ASSUME NEW a \in Seq(Nat)
        PROVE  /\ Under(n, constructLevelKey(n, a))
               /\ constructLevelKey(n, a)[Len(n) + 1] = 0
    <2> DEFINE x == constructLevelKey(n, a)
    <2>1. /\ Len(a) \in Nat /\ Len(x) = Len(n) + 1 + Len(a) /\ x \in Seq(Nat)
          /\ \A i \in 1..Len(n) : x[i] = n[i]
          /\ x[Len(n) + 1] = 0
      BY <1>1, LevelKeyBytes
    <2> HIDE DEF x
    <2>2. Under(n, x) BY <1>1, <2>1 DEF Under
    <2> QED BY <2>1, <2>2 DEF x
  <1>3. LET y == n \o <<1>> IN
        /\ y \in Seq(Nat) /\ Len(y) = Len(n) + 1 /\ y[Len(n) + 1] = 1
        /\ \A i \in 1..Len(n) : y[i] = n[i]
    BY <1>1
  <1> QED BY <1>1, <1>2, <1>3 DEF Under, lastKeyIndicator

(* Every key of n is before the end of the range for a nil endKey, and none*)
(* is before the start for a nil startKey.                                 *)
LEMMA NilBounds ==
  ASSUME NEW n \in Name, NEW k \in Seq(Nat)
  PROVE  /\ Before(constructLevelKey(n, k), n \o <<lastKeyIndicator>>)
         /\ ~Before(k, <<>>)
  <1> DEFINE x == constructLevelKey(n, k)
             y == n \o <<lastKeyIndicator>>
             i == Len(n) + 1
  <1>1. n \in Seq(Nat) /\ Len(n) \in Nat BY NameBytes
  <1>2. /\ Len(k) \in Nat /\ DOMAIN x = 1..(Len(n) + 1 + Len(k))
        /\ \A j \in 1..Len(n) : x[j] = n[j]
        /\ x[Len(n) + 1] = 0
    BY <1>1, LevelKeyBytes
  <1>3. Under(n, y) /\ Len(y) = Len(n) + 1 /\ y[Len(n) + 1] = 1 BY BoundsUnder
  <1> HIDE DEF x, y
  <1>4. ASSUME NEW j \in 1..(i - 1) PROVE j \in DOMAIN x /\ x[j] = y[j]
    <2>1. j \in 1..Len(n) /\ j \in 1..(Len(n) + 1 + Len(k)) BY <1>1, <1>2
    <2> QED BY <1>2, <1>3, <2>1 DEF Under
  <1>5. i \in 1..Len(y) /\ x[i] < y[i] BY <1>1, <1>2, <1>3
  <1>6. Before(x, y) BY <1>4, <1>5 DEF Before
  <1>7. ~Before(k, <<>>) BY DEF Before
  <1> QED BY <1>6, <1>7 DEF x, y

(* An iterator of a store, in any contents.                                *)
LEMMA IteratorRange ==
  ASSUME data \in Contents, NEW n \in Name,
         NEW start \in Key \cup {None}, NEW end \in Key \cup {None}
  PROVE  GetIterator(n, start, end) =
            {k \in Key : /\ Get(data, n, k) # None
                         /\ start # None => ~Before(k, start)
                         /\ end # None => Before(k, end)}
  <1> DEFINE a == IF start = None THEN <<>> ELSE start
             R == {k \in Key : /\ Get(data, n, k) # None
                               /\ start # None => ~Before(k, start)
                               /\ end # None => Before(k, end)}
             z == StartKey(n, start)
             y == EndKey(n, end)
  <1>1. a \in Seq(Nat) /\ \A k \in Key : k \in Seq(Nat) BY NameBytes
  <1>2. z = constructLevelKey(n, a) BY DEF StartKey
  <1>3. Under(n, z) BY <1>1, <1>2, BoundsUnder
  <1>4. /\ Under(n, y)
        /\ \/ y[Len(n) + 1] = 0
           \/ y[Len(n) + 1] = 1 /\ Len(y) = Len(n) + 1
    <2>1. CASE end = None BY <2>1, BoundsUnder DEF EndKey
    <2>2. CASE end # None
      <3>1. end \in Seq(Nat) BY <1>1, <2>2
      <3> QED BY <2>2, <3>1, BoundsUnder DEF EndKey
    <2> QED BY <2>1, <2>2
  <1>5. ASSUME NEW k \in Key
        PROVE  /\ ~Before(constructLevelKey(n, k), z) <=> (start # None => ~Before(k, start))
               /\ Before(constructLevelKey(n, k), y) <=> (end # None => Before(k, end))
    <2>1. k \in Seq(Nat) BY <1>1
    <2>2. ~Before(constructLevelKey(n, k), z) <=> (start # None => ~Before(k, start))
      <3>1. Before(constructLevelKey(n, k), z) <=> Before(k, a)
        <4> HIDE DEF a, z
        <4> QED BY <1>1, <1>2, <2>1, OrderOfKeys
      <3>2. CASE start = None
        <4>1. a = <<>> BY <3>2
        <4> QED BY <2>1, <3>1, <3>2, <4>1, NilBounds
      <3>3. CASE start # None
        <4>1. a = start BY <3>3
        <4> QED BY <3>1, <3>3, <4>1
      <3> QED BY <3>2, <3>3
    <2>3. Before(constructLevelKey(n, k), y) <=> (end # None => Before(k, end))
      <3>1. CASE end = None BY <2>1, <3>1, NilBounds DEF EndKey
      <3>2. CASE end # None
        <4>1. end \in Seq(Nat) BY <1>1, <3>2
        <4> QED BY <2>1, <3>2, <4>1, OrderOfKeys DEF EndKey
      <3> QED BY <3>1, <3>2
    <2> QED BY <2>2, <2>3
  <1>6. GetIterator(n, start, end) =
           {retrieveAppKey(l) : l \in {x \in LevelKey :
               /\ data[x] # None /\ ~Before(x, z) /\ Before(x, y)}}
    BY DEF GetIterator
  <1> HIDE DEF a, z, y
  <1>7. ASSUME NEW k \in GetIterator(n, start, end) PROVE k \in R
    <2>1. PICK x \in LevelKey : /\ data[x] # None /\ ~Before(x, z) /\ Before(x, y)
                                /\ k = retrieveAppKey(x)
      BY <1>6, <1>7
    <2>2. PICK m \in Name, j \in Key : x = constructLevelKey(m, j)
      BY DEF LevelKey
    <2>3. m = n BY <1>3, <1>4, <2>1, <2>2, RangeOfName
    <2>4. k = j BY <2>1, <2>2, AppKeyRetrieved
    <2>5. Get(data, n, k) # None BY <2>1, <2>2, <2>3, <2>4 DEF Get
    <2> QED BY <1>5, <2>1, <2>2, <2>3, <2>4, <2>5
  <1>8. ASSUME NEW k \in R PROVE k \in GetIterator(n, start, end)
    <2> DEFINE x == constructLevelKey(n, k)
    <2>1. k \in Key OBVIOUS
    <2>2. x \in LevelKey BY <2>1 DEF LevelKey
    <2>3. data[x] # None BY DEF Get
    <2>4. ~Before(x, z) /\ Before(x, y) BY <1>5, <2>1
    <2>5. retrieveAppKey(x) = k BY <2>1, AppKeyRetrieved
    <2> HIDE DEF x
    <2> QED BY <1>6, <2>2, <2>3, <2>4, <2>5
  <1> QED BY <1>7, <1>8

-----------------------------------------------------------------------------
(* The invariant.                                                          *)

(* An Open that found the directory not empty found a database, or what a  *)
(* process that died has left of one.                                      *)
CreatesIfEmpty ==
    /\ dir = "partial" => dbState = "creating" \/ "db" \in cutOff
    /\ dbState = "creating" => dir = "partial"
    /\ dbState = "opening" /\ ~dirEmpty => dir \in {"partial", "db"}

(* So does a Lock, or found one that the owner is creating: the owner of a *)
(* directory without a database is inside OpenFile.                        *)
LockCreates ==
    /\ lockDir = "partial" => (\E f \in Lock : lockPc[f] = "creating") \/ "lock" \in cutOff
    /\ \A f \in Lock :
          /\ lockPc[f] = "creating" => lockDir = "partial" /\ owner = f
          /\ lockPc[f] = "opening" /\ ~lockEmpty[f] => lockDir \in {"partial", "db"}

Inv ==
    /\ TypeOK
    /\ CreatesIfEmpty
    /\ LockCreates
    /\ LockExclusive
    /\ PanicsOnlyIfCutOff

(* A Put and a Delete are batches of one key.                              *)
LEMMA OneKeyBatch ==
  ASSUME NEW k \in Key, NEW v \in Value \cup {None}
  PROVE  [x \in {k} |-> v] \in UpdateBatch
  <1>1. {k} \in SUBSET Key OBVIOUS
  <1>2. [x \in {k} |-> v] \in [{k} -> Value \cup {None}] OBVIOUS
  <1> DEFINE F(D) == [D -> Value \cup {None}]
  <1>3. [x \in {k} |-> v] \in F({k}) BY <1>2
  <1> HIDE DEF F
  <1>4. [x \in {k} |-> v] \in UNION {F(D) : D \in SUBSET Key} BY <1>1, <1>3
  <1> QED BY <1>4 DEF UpdateBatch, F

(* What a process does with the file lock.                                 *)
LockStep(f) ==
    LockDir(f) \/ LockFile(f) \/ CreateLockDB(f) \/ FUnlock(f) \/ Die(f)

(* Every write of the handles is a Write of a batch.                       *)
LEMMA NextCases ==
  ASSUME Next
  PROVE  \/ OpenDir \/ OpenFile \/ CreateDB \/ Close \/ Crash
         \/ \E n \in Name, kvs \in UpdateBatch, sync \in BOOLEAN : Write(n, kvs, sync)
         \/ \E f \in Lock : LockStep(f)
  <1>1. ASSUME NEW n \in Name, NEW k \in Key, NEW v \in Value, Put(n, k, v)
        PROVE  \E m \in Name, kvs \in UpdateBatch, sync \in BOOLEAN : Write(m, kvs, sync)
    <2>1. [x \in {k} |-> v] \in UpdateBatch BY OneKeyBatch
    <2>2. Write(n, [x \in {k} |-> v], TRUE) BY <1>1 DEF Put
    <2> QED BY <2>1, <2>2
  <1>2. ASSUME NEW n \in Name, NEW k \in Key, Delete(n, k)
        PROVE  \E m \in Name, kvs \in UpdateBatch, sync \in BOOLEAN : Write(m, kvs, sync)
    <2>1. [x \in {k} |-> None] \in UpdateBatch BY OneKeyBatch
    <2>2. Write(n, [x \in {k} |-> None], TRUE) BY <1>2 DEF Delete
    <2> QED BY <2>1, <2>2
  <1>3. ASSUME NEW n \in Name, NEW kvs \in UpdateBatch, NEW sync \in BOOLEAN,
               WriteBatch(n, kvs, sync)
        PROVE  \E m \in Name, b \in UpdateBatch, s \in BOOLEAN : Write(m, b, s)
    BY <1>3 DEF WriteBatch
  <1> QED BY <1>1, <1>2, <1>3 DEF Next, LockStep

(* A batch leaves contents, in which it has written its own level keys.    *)
LEMMA WriteContents ==
  ASSUME NEW n \in Name, NEW kvs \in UpdateBatch, NEW sync \in BOOLEAN,
         data \in Contents, Write(n, kvs, sync)
  PROVE  /\ data' \in Contents
         /\ DOMAIN kvs \subseteq Key
         /\ \A l \in LevelKey :
               data'[l] = IF \E k \in DOMAIN kvs : l = constructLevelKey(n, k)
                          THEN kvs[CHOOSE k \in DOMAIN kvs : l = constructLevelKey(n, k)]
                          ELSE data[l]
  <1>1. PICK D \in SUBSET Key : kvs \in [D -> Value \cup {None}] BY DEF UpdateBatch
  <1>2. DOMAIN kvs = D BY <1>1
  <1> DEFINE new(l) == IF \E k \in DOMAIN kvs : l = constructLevelKey(n, k)
                       THEN kvs[CHOOSE k \in DOMAIN kvs : l = constructLevelKey(n, k)]
                       ELSE data[l]
  <1>3. data' = [l \in LevelKey |-> new(l)] BY DEF Write
  <1>4. ASSUME NEW l \in LevelKey PROVE new(l) \in Value \cup {None}
    <2>1. CASE \E k \in DOMAIN kvs : l = constructLevelKey(n, k)
      <3>1. (CHOOSE k \in DOMAIN kvs : l = constructLevelKey(n, k)) \in D
        BY <1>2, <2>1
      <3> QED BY <1>1, <2>1, <3>1
    <2>2. CASE ~\E k \in DOMAIN kvs : l = constructLevelKey(n, k)
      BY <2>2 DEF Contents
    <2> QED BY <2>1, <2>2
  <1>5. \A l \in LevelKey : data'[l] = new(l) BY <1>3
  <1>6. data' \in Contents BY <1>3, <1>4 DEF Contents
  <1> QED BY <1>2, <1>5, <1>6

(* Steps of the database leave the lock's part of the invariant.           *)
LEMMA LockPartKept ==
  ASSUME Inv, UNCHANGED lockVars, "lock" \in cutOff' <=> "lock" \in cutOff
  PROVE  LockCreates' /\ LockExclusive'
  BY DEF Inv, LockCreates, LockExclusive, lockVars

(* Steps with the lock leave the database's part of the invariant.         *)
LEMMA DbPartKept ==
  ASSUME Inv, UNCHANGED dbVars, "db" \in cutOff' <=> "db" \in cutOff
  PROVE  CreatesIfEmpty'
  BY DEF Inv, CreatesIfEmpty, dbVars

(* DB.Open, Close and a crash keep the invariant.                          *)
LEMMA InvOpen ==
  ASSUME Inv, OpenDir \/ OpenFile \/ CreateDB \/ Close \/ Crash
  PROVE  Inv'
  <1>1. UNCHANGED lockVars /\ ("lock" \in cutOff' <=> "lock" \in cutOff)
    BY DEF OpenDir, OpenFile, CreateDB, Close, Crash
  <1>2. CreatesIfEmpty' /\ PanicsOnlyIfCutOff'
    BY DEF OpenDir, OpenFile, CreateDB, Close, Crash, Inv, TypeOK, CreatesIfEmpty,
           PanicsOnlyIfCutOff, OpenFails, FilesMade, MkdirAll, DirEmpty
  <1>3. /\ data' \in Contents /\ unsynced' \subseteq Contents
        /\ dirEmpty' \in BOOLEAN
    BY DEF OpenDir, OpenFile, CreateDB, Close, Crash, Inv, TypeOK, DirEmpty, MkdirAll
  <1>4. /\ dir' \in {"missing", "empty", "partial", "db"}
        /\ dbState' \in {"closed", "opening", "creating", "opened"}
        /\ panicked' \cup cutOff' \subseteq {"db", "lock"}
        /\ dbState' = "opened" => dir' = "db"
    BY DEF OpenDir, OpenFile, CreateDB, Close, Crash, Inv, TypeOK, FilesMade, MkdirAll
  <1>5. TypeOK'
    BY <1>1, <1>3, <1>4 DEF Inv, TypeOK, lockVars
  <1> QED BY <1>1, <1>2, <1>5, LockPartKept DEF Inv

(* A batch that is written keeps the invariant.                            *)
LEMMA InvWrite ==
  ASSUME Inv, NEW n \in Name, NEW kvs \in UpdateBatch, NEW sync \in BOOLEAN,
         Write(n, kvs, sync)
  PROVE  Inv'
  <1>1. data \in Contents BY DEF Inv, TypeOK
  <1>2. data' \in Contents BY <1>1, WriteContents
  <1>3. unsynced' \subseteq Contents
    BY <1>1 DEF Write, Inv, TypeOK
  <1>4. UNCHANGED <<dir, dbState, dirEmpty, lockVars, panicked, cutOff>>
    BY DEF Write
  <1>5. TypeOK'
    BY <1>2, <1>3, <1>4 DEF Inv, TypeOK, lockVars
  <1>6. CreatesIfEmpty' /\ PanicsOnlyIfCutOff'
    BY <1>4 DEF Inv, CreatesIfEmpty, PanicsOnlyIfCutOff
  <1> QED BY <1>4, <1>5, <1>6, LockPartKept DEF Inv

(* The steps of Lock and Unlock, and the death of a process, keep the      *)
(* invariant.                                                              *)
LEMMA InvLock ==
  ASSUME Inv, NEW f \in Lock, LockStep(f)
  PROVE  Inv'
  <1>1. UNCHANGED dbVars /\ ("db" \in cutOff' <=> "db" \in cutOff)
    BY DEF LockStep, LockDir, LockFile, CreateLockDB, FUnlock, Die
  <1>2. /\ owner \in Lock \cup {None} /\ None \notin Lock
        /\ lockDb \in [Lock -> BOOLEAN]
        /\ lockPc \in [Lock -> {"closed", "opening", "creating"}]
        /\ lockEmpty \in [Lock -> BOOLEAN]
        /\ lockDir \in {"missing", "empty", "partial", "db"}
        /\ panicked \subseteq {"db", "lock"} /\ cutOff \subseteq {"db", "lock"}
        /\ \A g \in Lock : lockDb[g] => lockDir = "db"
    BY NameAssumption DEF Inv, TypeOK
  <1>3. /\ LockCreates /\ LockExclusive /\ PanicsOnlyIfCutOff
    BY DEF Inv
  <1>4. CASE LockDir(f)
    <2>1. /\ lockDir' = MkdirAll(lockDir)
          /\ \A g \in Lock : /\ lockPc'[g] = IF g = f THEN "opening" ELSE lockPc[g]
                             /\ lockEmpty'[g] = IF g = f THEN DirEmpty(lockDir) ELSE lockEmpty[g]
          /\ lockPc[f] = "closed"
          /\ UNCHANGED <<owner, lockDb, panicked, cutOff>>
      BY <1>2, <1>4 DEF LockDir
    <2>2. LockCreates'
      BY <1>2, <1>3, <2>1 DEF LockCreates, MkdirAll, DirEmpty
    <2>3. LockExclusive' /\ PanicsOnlyIfCutOff'
      BY <1>3, <2>1 DEF LockExclusive, PanicsOnlyIfCutOff
    <2>4. /\ lockPc' \in [Lock -> {"closed", "opening", "creating"}]
          /\ lockEmpty' \in [Lock -> BOOLEAN]
      BY <1>2, <1>4 DEF LockDir, DirEmpty
    <2>5. TypeOK'
      BY <1>1, <1>2, <2>1, <2>4 DEF Inv, TypeOK, MkdirAll, dbVars
    <2> QED BY <1>1, <2>2, <2>3, <2>5, DbPartKept DEF Inv
  <1>5. CASE LockFile(f)
    <2>1. /\ \A g \in Lock : lockEmpty'[g] = IF g = f THEN FALSE ELSE lockEmpty[g]
          /\ lockEmpty' \in [Lock -> BOOLEAN]
          /\ lockPc[f] = "opening"
          /\ UNCHANGED cutOff
      BY <1>2, <1>5 DEF LockFile
    <2>2. PICK l \in BOOLEAN, p \in {"closed", "creating"} :
             /\ lockDb' = [lockDb EXCEPT ![f] = l]
             /\ lockPc' = [lockPc EXCEPT ![f] = p]
             /\ owner' \in {owner, f}
             /\ panicked' \in {panicked, panicked \cup {"lock"}}
             /\ lockDir' \in {lockDir, FilesMade(lockDir)}
             /\ lockDir' = lockDir \/ owner = None
             /\ l => owner' = f /\ lockDir = "db"
             /\ p = "creating" => owner' = f /\ lockDir' = "partial"
             /\ owner' # owner => owner = None
             /\ lockDir' = "partial" /\ owner = None => p = "creating" \/ "lock" \in panicked'
             /\ panicked' # panicked => owner = None /\ lockDir \notin {"db"} /\ ~lockEmpty[f]
      BY <1>2, <1>5 DEF LockFile, Locked, NotLocked, OpenFails, FilesMade
    <2>3. \A g \in Lock : /\ lockPc'[g] = IF g = f THEN p ELSE lockPc[g]
                          /\ lockDb'[g] = IF g = f THEN l ELSE lockDb[g]
      BY <1>2, <2>2
    <2>4. PanicsOnlyIfCutOff'
      <3>1. CASE panicked' = panicked
        BY <1>3, <2>1, <3>1 DEF PanicsOnlyIfCutOff
      <3>2. CASE panicked' # panicked
        <4>1. lockDir = "partial" /\ owner = None
          BY <1>2, <1>3, <2>1, <2>2, <3>2 DEF LockCreates
        <4>2. "lock" \in cutOff
          BY <1>2, <1>3, <4>1 DEF LockCreates
        <4> QED BY <1>3, <2>1, <2>2, <4>2 DEF PanicsOnlyIfCutOff
      <3> QED BY <3>1, <3>2
    <2>5. LockCreates'
      <3>1. lockDir' = "partial" => (\E g \in Lock : lockPc'[g] = "creating") \/ "lock" \in cutOff'
        <4> SUFFICES ASSUME lockDir' = "partial"
                     PROVE  (\E g \in Lock : lockPc'[g] = "creating") \/ "lock" \in cutOff
          BY <2>1
        <4>1. CASE owner = None
          BY <2>1, <2>2, <2>3, <2>4, <4>1 DEF PanicsOnlyIfCutOff
        <4>2. CASE owner # None
          <5>1. lockDir = "partial"
            BY <2>2, <4>2
          <5>2. CASE "lock" \in cutOff
            BY <5>2
          <5>3. CASE \E g \in Lock : lockPc[g] = "creating"
            <6>1. PICK g \in Lock : lockPc[g] = "creating"
              BY <5>3
            <6> QED BY <2>1, <2>3, <6>1
          <5> QED BY <1>3, <5>1, <5>2, <5>3 DEF LockCreates
        <4> QED BY <4>1, <4>2
      <3>2. ASSUME NEW g \in Lock, lockPc'[g] = "creating"
            PROVE  lockDir' = "partial" /\ owner' = g
        <4>1. CASE g = f
          BY <2>2, <2>3, <3>2, <4>1
        <4>2. CASE g # f
          BY <1>2, <1>3, <2>2, <2>3, <3>2, <4>2 DEF LockCreates
        <4> QED BY <4>1, <4>2
      <3>3. ASSUME NEW g \in Lock, lockPc'[g] = "opening", ~lockEmpty'[g]
            PROVE  lockDir' \in {"partial", "db"}
        <4>1. g # f
          BY <2>2, <2>3, <3>3
        <4>2. lockDir \in {"partial", "db"}
          BY <1>3, <2>1, <2>3, <3>3, <4>1 DEF LockCreates
        <4> QED BY <2>2, <4>2 DEF FilesMade
      <3> QED BY <3>1, <3>2, <3>3 DEF LockCreates
    <2>6. LockExclusive'
      BY <1>2, <1>3, <2>2, <2>3 DEF LockExclusive
    <2>7. TypeOK'
      <3>1. /\ lockDb' \in [Lock -> BOOLEAN]
            /\ lockPc' \in [Lock -> {"closed", "opening", "creating"}]
        BY <1>2, <2>2
      <3>2. /\ lockDir' \in {"missing", "empty", "partial", "db"}
            /\ \A g \in Lock : lockDb'[g] => lockDir' = "db"
        BY <1>2, <2>2, <2>3 DEF FilesMade
      <3> QED
        BY <1>1, <1>2, <2>1, <2>2, <3>1, <3>2 DEF Inv, TypeOK, dbVars
    <2> QED BY <1>1, <2>4, <2>5, <2>6, <2>7, DbPartKept DEF Inv
  <1>6. CASE CreateLockDB(f)
    <2>1. /\ lockDir' = "db" /\ owner' = f /\ lockPc[f] = "creating" /\ owner = f
          /\ \A g \in Lock : /\ lockPc'[g] = IF g = f THEN "closed" ELSE lockPc[g]
                             /\ lockDb'[g] = IF g = f THEN TRUE ELSE lockDb[g]
          /\ UNCHANGED <<lockEmpty, panicked, cutOff>>
      BY <1>2, <1>3, <1>6 DEF CreateLockDB, Locked, LockCreates
    <2>2. LockCreates'
      BY <1>3, <2>1 DEF LockCreates
    <2>3. LockExclusive' /\ PanicsOnlyIfCutOff'
      BY <1>3, <2>1 DEF LockExclusive, PanicsOnlyIfCutOff
    <2>4. /\ lockPc' \in [Lock -> {"closed", "opening", "creating"}]
          /\ lockDb' \in [Lock -> BOOLEAN]
      BY <1>2, <1>6 DEF CreateLockDB, Locked
    <2>5. TypeOK'
      BY <1>1, <1>2, <2>1, <2>4 DEF Inv, TypeOK, dbVars
    <2> QED BY <1>1, <2>2, <2>3, <2>5, DbPartKept DEF Inv
  <1>7. CASE FUnlock(f)
    <2>1. /\ owner' = None /\ owner = f /\ lockDir = "db"
          /\ \A g \in Lock : lockDb'[g] = IF g = f THEN FALSE ELSE lockDb[g]
          /\ lockDb' \in [Lock -> BOOLEAN]
          /\ UNCHANGED <<lockDir, lockPc, lockEmpty, panicked, cutOff>>
      BY <1>2, <1>3, <1>7 DEF FUnlock, LockExclusive
    <2>2. LockCreates'
      BY <1>3, <2>1 DEF LockCreates
    <2>3. LockExclusive' /\ PanicsOnlyIfCutOff'
      BY <1>3, <2>1 DEF LockExclusive, PanicsOnlyIfCutOff
    <2>4. TypeOK'
      BY <1>1, <1>2, <2>1 DEF Inv, TypeOK, dbVars
    <2> QED BY <1>1, <2>2, <2>3, <2>4, DbPartKept DEF Inv
  <1>8. CASE Die(f)
    <2>1. /\ owner' = IF owner = f THEN None ELSE owner
          /\ \A g \in Lock : /\ lockPc'[g] = IF g = f THEN "closed" ELSE lockPc[g]
                             /\ lockDb'[g] = IF g = f THEN FALSE ELSE lockDb[g]
                             /\ lockEmpty'[g] = IF g = f THEN FALSE ELSE lockEmpty[g]
          /\ cutOff \subseteq cutOff'
          /\ lockPc[f] = "creating" => "lock" \in cutOff'
          /\ UNCHANGED <<lockDir, panicked>>
      BY <1>2, <1>8 DEF Die
    <2>2. LockCreates'
      BY <1>2, <1>3, <2>1 DEF LockCreates
    <2>3. LockExclusive' /\ PanicsOnlyIfCutOff'
      BY <1>3, <2>1 DEF LockExclusive, PanicsOnlyIfCutOff
    <2>4. /\ lockPc' \in [Lock -> {"closed", "opening", "creating"}]
          /\ lockDb' \in [Lock -> BOOLEAN] /\ lockEmpty' \in [Lock -> BOOLEAN]
          /\ cutOff' \subseteq {"db", "lock"}
      BY <1>2, <1>8 DEF Die
    <2>5. TypeOK'
      BY <1>1, <1>2, <2>1, <2>4 DEF Inv, TypeOK, dbVars
    <2> QED BY <1>1, <2>2, <2>3, <2>5, DbPartKept DEF Inv
  <1> QED BY <1>4, <1>5, <1>6, <1>7, <1>8 DEF LockStep

(* The invariant holds before anything is opened, and every step keeps it. *)
LEMMA InvInductive ==
  /\ Init => Inv
  /\ Inv /\ [Next]_vars => Inv'
  <1>1. ASSUME Init PROVE Inv
    BY <1>1, NameAssumption DEF Init, Inv, TypeOK, CreatesIfEmpty, LockCreates,
       LockExclusive, PanicsOnlyIfCutOff, Contents
  <1>2. ASSUME Inv, [Next]_vars PROVE Inv'
    <2>1. CASE UNCHANGED vars
      BY <1>2, <2>1 DEF vars, dbVars, lockVars, Inv, TypeOK, CreatesIfEmpty,
        LockCreates, LockExclusive, PanicsOnlyIfCutOff
    <2> QED BY <1>2, <2>1, InvOpen, InvWrite, InvLock, NextCases
  <1> QED BY <1>1, <1>2

(* Every reachable state satisfies the invariant.                          *)
LEMMA Invariance == Spec => []Inv
  BY InvInductive, PTL DEF Spec

(* The types, and an open database and a held lock are on disk, with every *)
(* name, key, value and lock.                                              *)
THEOREM TypeCorrect == Spec => []TypeOK
  <1>1. Inv => TypeOK BY DEF Inv
  <1> QED BY <1>1, Invariance, PTL

(* FileLock.Lock and Unlock: whoever has the database of the lock open     *)
(* holds it, so that no two do, with any number of processes that try,     *)
(* release and die.                                                        *)
THEOREM LocksExclude == Spec => []LockExclusive
  <1>1. Inv => LockExclusive BY DEF Inv
  <1> QED BY <1>1, Invariance, PTL

(* DB.Open and FileLock.Lock panic only in a directory in which a process  *)
(* died inside leveldb's creation of a database, with any number of        *)
(* processes and wherever else they die: whether the directory is empty is *)
(* found anew by every call, and a directory that another process is at    *)
(* work in is locked.                                                      *)
THEOREM OpensUnlessCutOff == Spec => []PanicsOnlyIfCutOff
  <1>1. Inv => PanicsOnlyIfCutOff BY DEF Inv
  <1> QED BY <1>1, Invariance, PTL

(* GetIterator yields the keys of its own store in the range asked for, all*)
(* of them and no others, for all names without a separator and all keys,  *)
(* those that hold separators included.                                    *)
THEOREM IteratesExactly == Spec => []IteratorExact
  <1>1. Inv => IteratorExact
    <2>1. SUFFICES ASSUME data \in Contents PROVE IteratorExact
      BY DEF Inv, TypeOK
    <2> QED BY <2>1, IteratorRange DEF IteratorExact
  <1> QED BY <1>1, Invariance, PTL

-----------------------------------------------------------------------------
(* The refinement.                                                         *)

(* What a handle reads is of the types of a store.                         *)
LEMMA ViewTyped ==
  ASSUME NEW c \in Contents, NEW m \in Name
  PROVE  View(c)[m] \in [Key -> Value \cup {None}]
  <1>1. ASSUME NEW k \in Key PROVE Get(c, m, k) \in Value \cup {None}
    <2>1. constructLevelKey(m, k) \in LevelKey BY DEF LevelKey
    <2> QED BY <2>1 DEF Get, Contents
  <1>2. View(c)[m] = [k \in Key |-> Get(c, m, k)] BY DEF View
  <1> QED BY <1>1, <1>2

(* A batch on the store of n is not seen through the handles of others.    *)
LEMMA OthersUnwritten ==
  ASSUME NEW n \in Name, NEW kvs \in UpdateBatch, NEW sync \in BOOLEAN,
         data \in Contents, Write(n, kvs, sync),
         NEW m \in Name, m # n
  PROVE  View(data')[m] = View(data)[m]
  <1>1. ASSUME NEW k \in Key PROVE Get(data', m, k) = Get(data, m, k)
    <2> DEFINE l == constructLevelKey(m, k)
    <2>1. l \in LevelKey BY DEF LevelKey
    <2>2. DOMAIN kvs \subseteq Key BY WriteContents
    <2>3. ~\E j \in DOMAIN kvs : l = constructLevelKey(n, j)
      BY <2>2, LevelKeyInjective
    <2> HIDE DEF l
    <2>4. data'[l] = data[l] BY <2>1, <2>3, WriteContents
    <2> QED BY <2>4 DEF Get, l
  <1> QED BY <1>1 DEF View

(* Init and the steps, as NamedStores sees them.                           *)
LEMMA InitOfStores == Init => Stores!Init
  <1> SUFFICES ASSUME Init PROVE Stores!Init
    OBVIOUS
  <1>1. View(data) = [n \in Name |-> [k \in Key |-> None]]
    <2>1. \A n \in Name, k \in Key : constructLevelKey(n, k) \in LevelKey BY DEF LevelKey
    <2>2. \A n \in Name, k \in Key : Get(data, n, k) = None BY <2>1 DEF Get, Init
    <2> QED BY <2>2 DEF View
  <1>2. {View(c) : c \in unsynced} = {} BY DEF Init
  <1>3. (dbState = "opened") = FALSE BY DEF Init
  <1> QED BY <1>1, <1>2, <1>3 DEF Stores!Init

(* A batch through the handle of n is a write on the store of n. The stores*)
(* of the other names stay because no level key of theirs is written.      *)
LEMMA WriteOfStores ==
  ASSUME NEW n \in Name, NEW kvs \in UpdateBatch, NEW sync \in BOOLEAN,
         data \in Contents, Write(n, kvs, sync)
  PROVE  Stores!Write(n, sync)
  <1>1. data' \in Contents BY WriteContents
  <1>2. View(data')[n] \in [Key -> Value \cup {None}] BY <1>1, ViewTyped
  <1>3. View(data') = [View(data) EXCEPT ![n] = View(data')[n]]
    <2>1. View(data) = [m \in Name |-> View(data)[m]] BY DEF View
    <2>2. View(data') = [m \in Name |-> View(data')[m]] BY DEF View
    <2> QED BY <2>1, <2>2, OthersUnwritten
  <1>4. {View(c) : c \in unsynced'} =
           IF sync THEN {} ELSE {View(c) : c \in unsynced} \cup {View(data)}
    <2>1. unsynced' = IF sync THEN {} ELSE unsynced \cup {data} BY DEF Write
    <2> QED BY <2>1
  <1>5. dbState = "opened" /\ dbState' = dbState BY DEF Write
  <1> QED BY <1>2, <1>3, <1>4, <1>5 DEF Stores!Write

(* A crash brings all stores back to one of the earlier contents, the same *)
(* for all names.                                                          *)
LEMMA CrashOfStores ==
  ASSUME Crash
  PROVE  Stores!Crash
  <1>1. View(data') \in {View(c) : c \in unsynced} \cup {View(data)} BY DEF Crash
  <1>2. {View(c) : c \in unsynced'} = {} BY DEF Crash
  <1>3. (dbState' = "opened") = FALSE BY DEF Crash
  <1> QED BY <1>1, <1>2, <1>3 DEF Stores!Crash

(* A step that leaves the contents leaves the stores.                      *)
LEMMA UnseenByStores ==
  ASSUME UNCHANGED <<data, unsynced>>
  PROVE  /\ UNCHANGED View(data)
         /\ UNCHANGED {View(c) : c \in unsynced}
  OBVIOUS

(* Many names in one leveldb are as many databases (provider.go): a Write  *)
(* of one handle is a write on its own store alone, a crash brings back    *)
(* what all stores were at one earlier time, and opening, closing and the  *)
(* lock change no contents.                                                *)
THEOREM NamedStoresImplemented == Spec => ImplementsNamedStores
  <1>1. Init => Stores!Init BY InitOfStores
  <1>2. ASSUME Inv, [Next]_vars PROVE [Stores!Next]_(Stores!vars)
    <2>0. data \in Contents /\ dbState \in {"closed", "opening", "creating", "opened"}
      BY <1>2 DEF Inv, TypeOK
    <2>1. CASE OpenDir
      <3>1. UNCHANGED <<data, unsynced>> /\ (dbState' = "opened") = (dbState = "opened")
        BY <2>1 DEF OpenDir
      <3> QED BY <3>1, UnseenByStores DEF Stores!vars
    <2>2. CASE OpenFile \/ CreateDB
      <3>1. UNCHANGED <<data, unsynced>> /\ dbState \in {"opening", "creating"}
            /\ dbState' \in {"closed", "creating", "opened"}
        BY <2>2 DEF OpenFile, CreateDB
      <3>2. CASE dbState' # "opened"
        <4>1. (dbState' = "opened") = (dbState = "opened") BY <3>1, <3>2
        <4> QED BY <3>1, <4>1, UnseenByStores DEF Stores!vars
      <3>3. CASE dbState' = "opened"
        <4>1. (dbState' = "opened") = ~(dbState = "opened") BY <3>1, <3>3
        <4> QED BY <3>1, <4>1, UnseenByStores DEF Stores!Next, Stores!Toggle
      <3> QED BY <3>1, <3>2, <3>3
    <2>3. CASE Close
      <3>1. UNCHANGED <<data, unsynced>> /\ (dbState' = "opened") = ~(dbState = "opened")
        BY <2>3 DEF Close
      <3> QED BY <3>1, UnseenByStores DEF Stores!Next, Stores!Toggle
    <2>4. CASE Crash
      BY <2>4, CrashOfStores DEF Stores!Next
    <2>5. ASSUME NEW n \in Name, NEW kvs \in UpdateBatch, NEW sync \in BOOLEAN,
                 Write(n, kvs, sync)
          PROVE  Stores!Next
      BY <2>0, <2>5, WriteOfStores DEF Stores!Next
    <2>6. CASE UNCHANGED dbVars
      <3>1. UNCHANGED <<data, unsynced, dbState>> BY <2>6 DEF dbVars
      <3>2. (dbState' = "opened") = (dbState = "opened") BY <3>1
      <3> QED BY <3>1, <3>2, UnseenByStores DEF Stores!vars
    <2>7. ASSUME NEW f \in Lock, LockStep(f) PROVE UNCHANGED dbVars
      BY <2>7 DEF LockStep, LockDir, LockFile, CreateLockDB, FUnlock, Die
    <2>8. UNCHANGED vars => UNCHANGED dbVars BY DEF vars
    <2> QED BY <1>2, <2>1, <2>2, <2>3, <2>4, <2>5, <2>6, <2>7, <2>8, NextCases
  <1> QED BY <1>1, <1>2, Invariance, PTL DEF Spec, ImplementsNamedStores, Stores!Spec
=============================================================================
