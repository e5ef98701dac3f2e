-------------------------- MODULE SignaturesProofs --------------------------
(***************************************************************************)
(* Proofs about Signatures, for every odd prime order, every key, digest   *)
(* and pair of numbers, and any number of replicas and signatures.         *)
(*                                                                         *)
(* That Verify accepts exactly what Sign returns is arithmetic modulo the  *)
(* order: every scalar has an inverse because the order is prime, division *)
(* is unique, and the twin of a signature belongs to the opposite point,   *)
(* which has the same x coordinate.  VerifyQuorumCert then counts, and     *)
(* the invariant says what it has counted at each moment.                  *)
(***************************************************************************)
EXTENDS Signatures, FiniteSetTheorems, WellFoundedInduction, TLAPS

-----------------------------------------------------------------------------
(* Arithmetic modulo the order.                                            *)

Cong(a, b) == \E q \in Int : a = b + q * Order

(* The remainder is congruent to the number.                               *)
LEMMA CongMod ==
  ASSUME NEW a \in Int
  PROVE  a % Order \in 0..(Order - 1) /\ Cong(a, a % Order)
  <1>1. a % Order \in 0..(Order - 1) BY OrderAssumption
  <1>2. a = (a % Order) + (a \div Order) * Order BY OrderAssumption
  <1>3. a \div Order \in Int BY OrderAssumption
  <1> QED BY <1>1, <1>2, <1>3 DEF Cong

(* Congruence is symmetric.                                                *)
LEMMA CongSym ==
  ASSUME NEW a \in Int, NEW b \in Int, Cong(a, b)
  PROVE  Cong(b, a)
  <1>1. PICK q \in Int : a = b + q * Order BY DEF Cong
  <1>2. b = a + (-q) * Order BY <1>1, OrderAssumption
  <1> QED BY <1>2 DEF Cong

(* Congruence is transitive.                                               *)
LEMMA CongTrans ==
  ASSUME NEW a \in Int, NEW b \in Int, NEW c \in Int, Cong(a, b), Cong(b, c)
  PROVE  Cong(a, c)
  <1>1. PICK q \in Int : a = b + q * Order BY DEF Cong
  <1>2. PICK p \in Int : b = c + p * Order BY DEF Cong
  <1>3. a = c + (p + q) * Order BY <1>1, <1>2, OrderAssumption
  <1> QED BY <1>3 DEF Cong

(* Congruence is kept by multiplication.                                   *)
LEMMA CongTimes ==
  ASSUME NEW a \in Int, NEW b \in Int, NEW c \in Int, Cong(a, b)
  PROVE  Cong(c * a, c * b)
  <1>1. PICK q \in Int : a = b + q * Order BY DEF Cong
  <1>2. c * a = c * b + (c * q) * Order BY <1>1, OrderAssumption
  <1> QED BY <1>2 DEF Cong

(* Congruent remainders are equal.                                         *)
LEMMA CongEqual ==
  ASSUME NEW a \in 0..(Order - 1), NEW b \in 0..(Order - 1), Cong(a, b)
  PROVE  a = b
  <1>1. PICK q \in Int : a = b + q * Order BY DEF Cong
  <1>2. CASE q >= 1
    <2>1. q * Order >= Order BY <1>2, OrderAssumption
    <2> QED BY <1>1, <2>1, OrderAssumption
  <1>3. CASE q <= -1
    <2>1. q * Order <= -Order BY <1>3, OrderAssumption
    <2> QED BY <1>1, <2>1, OrderAssumption
  <1>4. CASE q = 0 BY <1>1, <1>4, OrderAssumption
  <1> QED BY <1>2, <1>3, <1>4

(* A set of naturals that has an element has a least one.                  *)
LEMMA LeastElement ==
  ASSUME NEW T \in SUBSET Nat, T # {}
  PROVE  \E n \in T : \A m \in T : ~(m < n)
  <1>1. PICK n \in T : \A m \in T : ~(<<m, n>> \in OpToRel(<, Nat))
    BY NatLessThanWellFounded, WFMin
  <1>2. \A x, y \in Nat : x < y => <<x, y>> \in OpToRel(<, Nat)
    BY SMT DEF OpToRel
  <1> QED BY <1>1, <1>2

(* Every scalar has an inverse.  The least positive number that is         *)
(* congruent to a multiple of a divides the order: its remainder would be a*)
(* smaller one.  As the order is prime, it is 1.                           *)
Multiples(a) == {m \in Nat : m > 0 /\ \E x \in Int : Cong(m, a * x)}

LEMMA HasInverse ==
  ASSUME NEW a \in Scalar
  PROVE  \E b \in Scalar : (a * b) % Order = 1
  <1>0. /\ Order \in Nat /\ Order > 2 /\ a \in Nat /\ a > 0 /\ a < Order
        /\ \A i \in 2..(Order - 1) : Order % i # 0
    BY OrderAssumption DEF Scalar
  <1>1. a \in Multiples(a)
    <2>1. a = a * 1 + 0 * Order BY <1>0
    <2>2. Cong(a, a * 1) BY <2>1 DEF Cong
    <2>3. \E x \in Int : Cong(a, a * x) BY <2>2
    <2> QED BY <1>0, <2>3 DEF Multiples
  <1>2. PICK m \in Multiples(a) : \A k \in Multiples(a) : ~(k < m)
    <2>1. Multiples(a) \in SUBSET Nat BY DEF Multiples
    <2> QED BY <1>1, <2>1, LeastElement
  <1>3. m \in Nat /\ m > 0 /\ m < Order
    <2>1. ~(a < m) BY <1>1, <1>2
    <2>2. m \in Nat /\ m > 0 BY DEF Multiples
    <2> QED BY <1>0, <2>1, <2>2
  <1>4. PICK x \in Int : Cong(m, a * x) BY DEF Multiples
  <1>5. Order % m = 0
    <2> DEFINE d == Order \div m
               e == Order % m
    <2>1. d \in Int /\ e \in Nat /\ e < m /\ Order = d * m + e BY <1>0, <1>3
    <2>2. PICK q \in Int : m = a * x + q * Order BY <1>4 DEF Cong
    <2> HIDE DEF d, e
    <2>3. e = a * (-(d * x)) + (1 - d * q) * Order
      <3>1. d * m = d * (a * x) + d * (q * Order) BY <1>0, <2>1, <2>2
      <3>2. d * (a * x) = -(a * (-(d * x))) BY <1>0, <2>1
      <3>3. (1 - d * q) * Order = Order - d * (q * Order) BY <1>0, <2>1
      <3> QED BY <1>0, <2>1, <3>1, <3>2, <3>3
    <2>4. Cong(e, a * (-(d * x)))
      <3>1. 1 - d * q \in Int BY <2>1
      <3> QED BY <2>3, <3>1 DEF Cong
    <2>5. -(d * x) \in Int BY <2>1
    <2>6. e > 0 => e \in Multiples(a) BY <2>1, <2>4, <2>5 DEF Multiples
    <2>7. e = 0 BY <1>2, <2>1, <2>6
    <2> QED BY <2>7 DEF e
  <1>6. m = 1
    <2>1. m \notin 2..(Order - 1) BY <1>0, <1>5
    <2> QED BY <1>0, <1>3, <2>1
  <1> DEFINE b == x % Order
  <1>7. b \in 0..(Order - 1) /\ Cong(x, b) BY CongMod
  <1> HIDE DEF b
  <1>8. Cong(a * b, 1)
    <2>1. Cong(a * x, a * b) BY <1>0, <1>7, CongTimes
    <2>2. Cong(1, a * x) BY <1>4, <1>6
    <2>3. a * x \in Int /\ a * b \in Int BY <1>0, <1>7
    <2>4. Cong(1, a * b) BY <2>1, <2>2, <2>3, CongTrans
    <2> QED BY <2>3, <2>4, CongSym
  <1>9. (a * b) % Order = 1
    <2>1. a * b \in Int BY <1>0, <1>7
    <2>2. (a * b) % Order \in 0..(Order - 1) /\ Cong(a * b, (a * b) % Order)
      BY <2>1, CongMod
    <2> DEFINE c == (a * b) % Order
    <2> HIDE DEF c
    <2>3. c \in 0..(Order - 1) /\ Cong(a * b, c) BY <2>2 DEF c
    <2>4. c \in Int BY <2>3
    <2>5. Cong(c, a * b) BY <2>1, <2>3, <2>4, CongSym
    <2>6. Cong(c, 1) BY <1>8, <2>1, <2>4, <2>5, CongTrans
    <2>7. 1 \in 0..(Order - 1) BY <1>0
    <2>8. c = 1 BY <2>3, <2>6, <2>7, CongEqual
    <2> QED BY <2>8 DEF c
  <1>10. b # 0
    <2>1. ASSUME b = 0 PROVE FALSE
      <3>1. a * b = 0 BY <1>0, <2>1
      <3>2. 0 % Order = 0 BY <1>0
      <3> QED BY <1>9, <3>1, <3>2
    <2> QED BY <2>1
  <1> QED BY <1>0, <1>7, <1>9, <1>10 DEF Scalar

(* Inv chooses an inverse.                                                 *)
LEMMA InvIsInverse ==
  ASSUME NEW a \in Scalar
  PROVE  Inv(a) \in Scalar /\ Cong(a * Inv(a), 1)
  <1>1. Inv(a) \in Scalar /\ (a * Inv(a)) % Order = 1 BY HasInverse DEF Inv
  <1> DEFINE b == Inv(a)
  <1> HIDE DEF b
  <1>2. b \in Scalar /\ (a * b) % Order = 1 BY <1>1 DEF b
  <1>3. a * b \in Int BY <1>2, OrderAssumption DEF Scalar
  <1>4. Cong(a * b, 1) BY <1>2, <1>3, CongMod
  <1> QED BY <1>2, <1>4 DEF b

(* Division by a scalar.                                                   *)
Quotient(a, x) == (Inv(a) * x) % Order

(* The quotient times the divisor is the dividend ...                      *)
LEMMA Divides ==
  ASSUME NEW a \in Scalar, NEW x \in Int
  PROVE  Quotient(a, x) \in 0..(Order - 1) /\ Cong(a * Quotient(a, x), x)
  <1> DEFINE b == Inv(a)
             y == (b * x) % Order
  <1>0. b \in Scalar /\ Cong(a * b, 1) BY InvIsInverse
  <1>1. a \in Int /\ b \in Int BY <1>0, OrderAssumption DEF Scalar
  <1> HIDE DEF b
  <1>2. b * x \in Int BY <1>1
  <1>3. y \in 0..(Order - 1) /\ Cong(b * x, y) BY <1>2, CongMod
  <1>4. y = Quotient(a, x) BY DEF Quotient, b
  <1> HIDE DEF y
  <1>5. y \in Int BY <1>3
  <1>6. Cong(y, b * x) BY <1>2, <1>3, <1>5, CongSym
  <1>7. Cong(a * y, a * (b * x)) BY <1>1, <1>2, <1>5, <1>6, CongTimes
  <1>8. Cong(x * (a * b), x * 1)
    <2>1. a * b \in Int /\ 1 \in Int BY <1>1
    <2> QED BY <1>0, <2>1, CongTimes
  <1>9. x * (a * b) = a * (b * x) /\ x * 1 = x BY <1>1
  <1>10. Cong(a * (b * x), x) BY <1>8, <1>9
  <1>11. a * y \in Int /\ a * (b * x) \in Int BY <1>1, <1>2, <1>5
  <1>12. Cong(a * y, x) BY <1>7, <1>10, <1>11, CongTrans
  <1> QED BY <1>3, <1>4, <1>12

(* ... and no other remainder does this.                                   *)
LEMMA DividesUniquely ==
  ASSUME NEW a \in Scalar, NEW x \in Int, NEW y \in 0..(Order - 1), Cong(a * y, x)
  PROVE  Quotient(a, x) = y
  <1> DEFINE b == Inv(a)
             z == Quotient(a, x)
  <1>0. b \in Scalar /\ Cong(a * b, 1) BY InvIsInverse
  <1>1. a \in Int /\ b \in Int /\ y \in Int BY <1>0, OrderAssumption DEF Scalar
  <1>2. z \in 0..(Order - 1) /\ Cong(a * z, x) BY Divides
  <1> HIDE DEF b, z
  <1>3. z \in Int /\ a * z \in Int /\ a * y \in Int BY <1>1, <1>2
  <1>4. Cong(x, a * y) BY <1>3, CongSym
  <1>5. Cong(a * z, a * y) BY <1>2, <1>3, <1>4, CongTrans
  <1>6. \A w \in Int : b * (a * w) = w * (a * b) /\ w * 1 = w BY <1>1
  <1>7. ASSUME NEW w \in Int PROVE Cong(b * (a * w), w)
    <2>1. a * b \in Int /\ 1 \in Int BY <1>1
    <2>2. Cong(w * (a * b), w * 1) BY <1>0, <2>1, CongTimes
    <2> QED BY <1>6, <2>2
  <1>8. Cong(b * (a * z), b * (a * y)) BY <1>1, <1>3, <1>5, CongTimes
  <1>9. b * (a * z) \in Int /\ b * (a * y) \in Int BY <1>1, <1>3
  <1>10. Cong(z, b * (a * z)) BY <1>3, <1>7, <1>9, CongSym
  <1>11. Cong(z, b * (a * y)) BY <1>3, <1>8, <1>9, <1>10, CongTrans
  <1>12. Cong(z, y) BY <1>1, <1>3, <1>7, <1>9, <1>11, CongTrans
  <1>13. z = y BY <1>2, <1>12, CongEqual
  <1> QED BY <1>13 DEF z

-----------------------------------------------------------------------------
(* Sign and Verify.                                                        *)

(* A point and its opposite have the same x coordinate, which is a scalar. *)
LEMMA XCoordOpposite ==
  ASSUME NEW p \in Scalar
  PROVE  Order - p \in Scalar /\ XCoord(Order - p) = XCoord(p) /\ XCoord(p) \in Scalar
  <1>1. Order \in Nat /\ Order > 2 /\ Order % 2 # 0
    <2>1. 2 \in 2..(Order - 1) BY OrderAssumption
    <2> QED BY <2>1, OrderAssumption
  <1>2. p \in Nat /\ p > 0 /\ p < Order BY <1>1 DEF Scalar
  <1>3. 2 * p # Order BY <1>1, <1>2
  <1> QED BY <1>1, <1>2, <1>3 DEF Scalar, XCoord

(* toLowS gives the smaller of a number and its opposite.                  *)
LEMMA LowSIsLow ==
  ASSUME NEW s \in Scalar
  PROVE  toLowS(s) \in Scalar /\ isLowS(toLowS(s)) /\ toLowS(s) \in {s, Order - s}
  BY OrderAssumption DEF Scalar, toLowS, isLowS, curveHalfOrder

(* What both sides compute with.                                           *)
SignedNumber(d, e, r) == e + r * d

(* Verify accepts what Sign returns: when toLowS replaced s, the point that*)
(* Verify computes is the opposite of the one Sign had.                    *)
LEMMA SignedVerifies ==
  ASSUME NEW d \in Scalar, NEW e \in Nat, NEW sig \in Sign(d, e)
  PROVE  Verify(d, sig, e)
  <1>0. Order \in Nat /\ Order > 2 BY OrderAssumption
  <1>1. PICK raw \in EcdsaSign(d, e) : sig = <<raw[1], toLowS(raw[2])>> BY DEF Sign
  <1>2. PICK k \in Scalar :
          /\ raw = <<XCoord(k), (Inv(k) * (e + XCoord(k) * d)) % Order>>
          /\ raw[2] # 0
    BY DEF EcdsaSign
  <1> DEFINE r == XCoord(k)
             z == SignedNumber(d, e, r)
             s == Quotient(k, z)
             t == toLowS(s)
  <1>3. r \in Scalar /\ Order - k \in Scalar /\ XCoord(Order - k) = r
    BY XCoordOpposite
  <1>4. s = (Inv(k) * (e + r * d)) % Order BY DEF Quotient, SignedNumber
  <1>5. sig = <<r, t>> /\ s # 0 BY <1>1, <1>2, <1>4
  <1> HIDE DEF r
  <1>6. z \in Int BY <1>0, <1>3 DEF SignedNumber, Scalar
  <1> HIDE DEF z
  <1>7. s \in 0..(Order - 1) /\ Cong(k * s, z) BY <1>6, Divides
  <1> HIDE DEF s
  <1>8. s \in Scalar BY <1>0, <1>5, <1>7 DEF Scalar
  <1>9. t \in Scalar /\ isLowS(t) /\ t \in {s, Order - s} BY <1>8, LowSIsLow
  <1> HIDE DEF t
  <1>10. \E p \in Scalar : p = Quotient(t, z) /\ XCoord(p) = r
    <2>0. k \in Int /\ k \in 0..(Order - 1) /\ s \in Int /\ t \in Int
          /\ Order - k \in 0..(Order - 1)
      BY <1>0, <1>3, <1>8, <1>9 DEF Scalar
    <2>1. CASE t = s
      <3>1. t * k = k * s BY <2>0, <2>1
      <3>2. Cong(t * k, z) BY <1>7, <3>1
      <3>3. Quotient(t, z) = k BY <1>6, <1>9, <2>0, <3>2, DividesUniquely
      <3> QED BY <3>3 DEF r
    <2>2. CASE t = Order - s
      <3> DEFINE j == Order - k
      <3>1. t * j = k * s + (Order - (s + k)) * Order BY <1>0, <2>0, <2>2
      <3>2. Order - (s + k) \in Int /\ k * s \in Int /\ t * j \in Int BY <1>0, <2>0
      <3>3. Cong(t * j, k * s) BY <3>1, <3>2 DEF Cong
      <3>4. Cong(t * j, z) BY <1>6, <1>7, <3>2, <3>3, CongTrans
      <3>5. j \in 0..(Order - 1) /\ j \in Scalar /\ XCoord(j) = r BY <1>3, <2>0
      <3> HIDE DEF j
      <3>6. Quotient(t, z) = j BY <1>6, <1>9, <3>4, <3>5, DividesUniquely
      <3> QED BY <3>5, <3>6
    <2> QED BY <1>9, <2>1, <2>2
  <1>11. Quotient(t, z) = (Inv(t) * (e + r * d)) % Order
    BY DEF Quotient, z, SignedNumber
  <1>12. sig[1] = r /\ sig[2] = t BY <1>5
  <1>13. r > 0 /\ t > 0 BY <1>3, <1>9 DEF Scalar
  <1>14. EcdsaVerify(d, e, r, t)
    <2>1. PICK p \in Scalar : p = Quotient(t, z) /\ XCoord(p) = r BY <1>10
    <2>2. p # 0 BY DEF Scalar
    <2> QED BY <1>3, <1>9, <1>11, <2>1, <2>2 DEF EcdsaVerify
  <1> QED BY <1>9, <1>12, <1>13, <1>14 DEF Verify, Unmarshals

(* Verify accepts nothing else: the point it computes is a nonce with which*)
(* Sign returns the signature.                                             *)
LEMMA VerifiedSigned ==
  ASSUME NEW d \in Scalar, NEW e \in Nat, NEW sig \in Int \X Int, Verify(d, sig, e)
  PROVE  sig \in Sign(d, e)
  <1>0. Order \in Nat /\ Order > 2 BY OrderAssumption
  <1>1. PICK r \in Int, s \in Int : sig = <<r, s>> OBVIOUS
  <1>2. sig[1] = r /\ sig[2] = s BY <1>1
  <1> DEFINE z == SignedNumber(d, e, r)
             p == Quotient(s, z)
  <1>3. p = (Inv(s) * (e + r * d)) % Order BY DEF Quotient, SignedNumber
  <1>4. /\ r \in Scalar /\ s \in Scalar /\ isLowS(s)
        /\ p # 0 /\ XCoord(p) = r
    BY <1>2, <1>3 DEF Verify, EcdsaVerify
  <1>5. z \in Int BY <1>0, <1>4 DEF SignedNumber, Scalar
  <1> HIDE DEF z
  <1>6. p \in 0..(Order - 1) /\ Cong(s * p, z) BY <1>4, <1>5, Divides
  <1> HIDE DEF p
  <1>7. p \in Scalar BY <1>0, <1>4, <1>6 DEF Scalar
  <1>8. s * p = p * s BY <1>0, <1>4, <1>6 DEF Scalar
  <1>9. s \in 0..(Order - 1) /\ s # 0 BY <1>0, <1>4 DEF Scalar
  <1>10. Quotient(p, z) = s BY <1>5, <1>6, <1>7, <1>8, <1>9, DividesUniquely
  <1>11. Quotient(p, z) = (Inv(p) * (e + XCoord(p) * d)) % Order
    BY <1>4 DEF Quotient, z, SignedNumber
  <1>12. sig = <<XCoord(p), (Inv(p) * (e + XCoord(p) * d)) % Order>>
    BY <1>1, <1>4, <1>10, <1>11
  <1>13. sig \in EcdsaSign(d, e) BY <1>2, <1>7, <1>9, <1>12 DEF EcdsaSign
  <1>14. sig = <<sig[1], toLowS(sig[2])>> BY <1>1, <1>2, <1>4 DEF toLowS
  <1> QED BY <1>13, <1>14 DEF Sign

(* So the two agree on every pair of numbers.                              *)
LEMMA VerifyIffSigned ==
  ASSUME NEW d \in Scalar, NEW e \in Nat, NEW sig \in Int \X Int
  PROVE  Verify(d, sig, e) <=> sig \in Sign(d, e)
  BY SignedVerifies, VerifiedSigned

-----------------------------------------------------------------------------
(* VerifyQuorumCert.                                                       *)

(* The entries of known replicas whose signature verifies.                 *)
Known   == DOMAIN Signs \cap Replica
Good    == {id \in Known : VerifyIdentity(id, Signs[id], Digest)}
Counted == Good \ (todo \cup running)

(* What the loop and the goroutines keep: every known entry is before the  *)
(* loop, with one goroutine, or over; the WaitGroup counts the goroutines  *)
(* that have not called Done, and numVerified the good entries that were   *)
(* verified.  There is an answer only when none is left.                   *)
Counts ==
    /\ running \subseteq Known /\ verified \subseteq Known
    /\ running \cap verified = {} /\ todo \cap (running \cup verified) = {}
    /\ numVerified = Cardinality(Counted)

Answer ==
    \/ result = None
    \/ TooFew /\ result = FALSE
    \/ /\ ~TooFew /\ todo = {} /\ running = {}
       /\ result = (numVerified >= GetQuorumSize)

IInv == TypeOK /\ Counts /\ Answer

(* The constants as the steps use them.                                    *)
LEMMA CertFacts ==
  ASSUME qc \in Cert
  PROVE  /\ Digest \in Nat /\ IsFiniteSet(DOMAIN Signs)
         /\ \A id \in DOMAIN Signs : Signs[id] \in Int \X Int
  BY CertAssumption DEF Digest, Signs

(* Every entry of a known replica verifies just when it was signed.        *)
LEMMA ExactlySigned ==
  ASSUME qc \in Cert
  PROVE  VerifiesExactlySigned
  <1>1. SUFFICES ASSUME NEW id \in DOMAIN Signs \cap Replica
        PROVE  Verify(PrivKey[id], Signs[id], Digest) <=> Signs[id] \in Sign(PrivKey[id], Digest)
    BY DEF VerifiesExactlySigned
  <1>2. PrivKey[id] \in Scalar BY KeyAssumption
  <1> QED BY <1>2, CertFacts, VerifyIffSigned

(* So the good entries are the ones that were signed.                      *)
LEMMA GoodIsSigned ==
  ASSUME qc \in Cert
  PROVE  Good = {id \in DOMAIN Signs \cap Replica : Signs[id] \in Sign(PrivKey[id], Digest)}
  BY ExactlySigned DEF Good, Known, VerifyIdentity, VerifiesExactlySigned

(* All these sets are finite, and there are at most N known entries.       *)
LEMMA GoodFinite ==
  ASSUME qc \in Cert
  PROVE  /\ IsFiniteSet(Known) /\ IsFiniteSet(Good)
         /\ Cardinality(Good) \in Nat /\ Cardinality(DOMAIN Signs) \in Nat
         /\ Cardinality(Good) <= Cardinality(DOMAIN Signs)
         /\ \A S \in SUBSET Known : IsFiniteSet(S) /\ Cardinality(S) \in 0..N
  <1>0. N \in Nat /\ IsFiniteSet(DOMAIN Signs) BY KeyAssumption, CertFacts
  <1>1. IsFiniteSet(Replica) /\ Cardinality(Replica) = N
    <2>1. 0 \in Int /\ N - 1 \in Int BY <1>0
    <2>2. IsFiniteSet(0..(N - 1)) /\ Cardinality(0..(N - 1)) = IF 0 > N - 1 THEN 0 ELSE (N - 1) - 0 + 1
      BY <2>1, FS_Interval
    <2> QED BY <1>0, <2>2 DEF Replica
  <1>2. Known \in SUBSET Replica /\ Known \in SUBSET (DOMAIN Signs) /\ Good \in SUBSET Known
    BY DEF Known, Good
  <1>3. ASSUME NEW S \in SUBSET Known PROVE IsFiniteSet(S) /\ Cardinality(S) \in 0..N
    <2>1. S \in SUBSET Replica BY <1>2
    <2>2. IsFiniteSet(S) /\ Cardinality(S) <= N BY <1>1, <2>1, FS_Subset
    <2>3. Cardinality(S) \in Nat BY <2>2, FS_CardinalityType
    <2> QED BY <1>0, <2>2, <2>3
  <1>4. Good \in SUBSET (DOMAIN Signs) BY <1>2
  <1>5. Cardinality(Good) <= Cardinality(DOMAIN Signs) BY <1>0, <1>4, FS_Subset
  <1>6. Cardinality(DOMAIN Signs) \in Nat BY <1>0, FS_CardinalityType
  <1>7. Cardinality(Good) \in Nat /\ IsFiniteSet(Good) BY <1>0, <1>2, <1>3
  <1>8. IsFiniteSet(Known) BY <1>3
  <1> QED BY <1>3, <1>5, <1>6, <1>7, <1>8

(* The loop has not begun.                                                 *)
LEMMA IInvInit == Init => IInv
  <1> SUFFICES ASSUME Init PROVE IInv OBVIOUS
  <1>0. /\ qc \in Cert /\ todo = DOMAIN Signs /\ running = {} /\ verified = {}
        /\ wg = 0 /\ numVerified = 0 /\ result = None
    BY DEF Init
  <1>1. Counted = {} BY <1>0 DEF Counted, Good, Known
  <1>2. Cardinality({}) = 0 BY FS_EmptySet
  <1>3. running \cup verified = {} BY <1>0
  <1>4. N \in Nat BY KeyAssumption
  <1>5. TypeOK BY <1>0, <1>2, <1>3, <1>4 DEF TypeOK
  <1>6. Counts BY <1>0, <1>1, <1>2 DEF Counts
  <1> QED BY <1>0, <1>5, <1>6 DEF IInv, Answer

(* The loop comes to an entry: it is counted by no one yet.                *)
LEMMA SpawnKeeps ==
  ASSUME IInv, NEW id \in DOMAIN Signs, Spawn(id)
  PROVE  IInv'
  <1>0. /\ result = None /\ ~TooFew /\ id \in todo /\ todo' = todo \ {id}
        /\ running' = running \cup ({id} \cap Replica)
        /\ wg' = IF id \in Replica THEN wg + 1 ELSE wg
        /\ UNCHANGED <<qc, verified, numVerified, result>>
    BY DEF Spawn
  <1>1. /\ qc \in Cert /\ todo \subseteq DOMAIN Signs
        /\ running \subseteq Known /\ verified \subseteq Known
        /\ running \cap verified = {} /\ todo \cap (running \cup verified) = {}
        /\ wg = Cardinality(running \cup verified) /\ numVerified = Cardinality(Counted)
        /\ numVerified \in 0..N
    BY DEF IInv, TypeOK, Counts
  <1>2. Known' = Known /\ Good' = Good
    BY <1>0 DEF Known, Good, Signs, Digest
  <1>3. Counted' = Counted BY <1>0, <1>1, <1>2 DEF Counted, Good, Known
  <1>4. Known \subseteq Replica BY DEF Known
  <1>5. wg' = Cardinality(running' \cup verified')
    <2> DEFINE S == running \cup verified
    <2>1. S \in SUBSET Known BY <1>1
    <2>2. IsFiniteSet(S) BY <1>1, <2>1, GoodFinite
    <2>3. id \notin S BY <1>0, <1>1
    <2>4. Cardinality(S \cup {id}) = Cardinality(S) + 1 BY <2>2, <2>3, FS_AddElement
    <2>5. CASE id \in Replica
      <3>1. running' \cup verified' = S \cup {id} BY <1>0, <2>5
      <3> QED BY <1>0, <1>1, <2>4, <2>5, <3>1
    <2>6. CASE id \notin Replica
      <3>1. running' \cup verified' = S BY <1>0, <2>6
      <3> QED BY <1>0, <1>1, <2>6, <3>1
    <2> QED BY <2>5, <2>6
  <1>6. running' \subseteq Known BY <1>0, <1>1 DEF Known
  <1>7. Counts' BY <1>0, <1>1, <1>2, <1>3, <1>6 DEF Counts
  <1>8. DOMAIN Signs' = DOMAIN Signs BY <1>0 DEF Signs
  <1>9. TypeOK'
    BY <1>0, <1>1, <1>4, <1>5, <1>6, <1>8 DEF TypeOK
  <1> QED BY <1>0, <1>7, <1>9 DEF IInv, Answer

(* A goroutine verifies: a good entry is counted now, and only now.        *)
LEMMA CheckKeeps ==
  ASSUME IInv, NEW id \in Replica, Check(id)
  PROVE  IInv'
  <1>0. /\ id \in running /\ running' = running \ {id}
        /\ verified' = verified \cup {id}
        /\ numVerified' = IF VerifyIdentity(id, Signs[id], Digest)
                          THEN numVerified + 1 ELSE numVerified
        /\ UNCHANGED <<qc, todo, wg, result>>
    BY DEF Check
  <1>1. /\ qc \in Cert /\ todo \subseteq DOMAIN Signs
        /\ running \subseteq Known /\ verified \subseteq Known
        /\ running \cap verified = {} /\ todo \cap (running \cup verified) = {}
        /\ wg = Cardinality(running \cup verified) /\ numVerified = Cardinality(Counted)
        /\ numVerified \in 0..N /\ result \in BOOLEAN \cup {None} /\ Answer
    BY DEF IInv, TypeOK, Counts
  <1>2. Known' = Known /\ Good' = Good
    BY <1>0 DEF Known, Good, Signs, Digest
  <1>3. id \in Known /\ id \notin todo /\ id \notin Counted BY <1>0, <1>1 DEF Counted
  <1>4. numVerified' = Cardinality(Counted') /\ Counted' \in SUBSET Known
    <2>0. Counted \in SUBSET Known BY DEF Counted, Good
    <2>1. IsFiniteSet(Counted) BY <1>1, <2>0, GoodFinite
    <2>2. CASE VerifyIdentity(id, Signs[id], Digest)
      <3>1. id \in Good BY <1>3, <2>2 DEF Good
      <3>2. Counted' = Counted \cup {id} BY <1>0, <1>2, <1>3, <3>1 DEF Counted
      <3>3. Cardinality(Counted \cup {id}) = Cardinality(Counted) + 1
        BY <1>3, <2>1, FS_AddElement
      <3> QED BY <1>0, <1>1, <1>3, <2>0, <2>2, <3>2, <3>3
    <2>3. CASE ~VerifyIdentity(id, Signs[id], Digest)
      <3>1. id \notin Good BY <2>3 DEF Good
      <3>2. Counted' = Counted BY <1>0, <1>2, <3>1 DEF Counted
      <3> QED BY <1>0, <1>1, <2>0, <2>3, <3>2
    <2> QED BY <2>2, <2>3
  <1>5. numVerified' \in 0..N BY <1>1, <1>4, GoodFinite
  <1>6. running' \cup verified' = running \cup verified BY <1>0
  <1>7. Counts' BY <1>0, <1>1, <1>2, <1>3, <1>4 DEF Counts
  <1>8. DOMAIN Signs' = DOMAIN Signs BY <1>0 DEF Signs
  <1>9. Known \subseteq Replica BY DEF Known
  <1>10. TypeOK' BY <1>0, <1>1, <1>5, <1>6, <1>8, <1>9 DEF TypeOK
  <1>11. TooFew' = TooFew BY <1>0 DEF TooFew, Signs
  <1>12. Answer' BY <1>0, <1>1, <1>11 DEF Answer
  <1> QED BY <1>7, <1>10, <1>12 DEF IInv

(* A goroutine calls Done.                                                 *)
LEMMA DoneKeeps ==
  ASSUME IInv, NEW id \in Replica, Done(id)
  PROVE  IInv'
  <1>0. /\ id \in verified /\ verified' = verified \ {id} /\ wg' = wg - 1
        /\ UNCHANGED <<qc, todo, running, numVerified, result>>
    BY DEF Done
  <1>1. /\ qc \in Cert /\ todo \subseteq DOMAIN Signs
        /\ running \subseteq Known /\ verified \subseteq Known
        /\ running \cap verified = {} /\ todo \cap (running \cup verified) = {}
        /\ wg = Cardinality(running \cup verified) /\ numVerified = Cardinality(Counted)
        /\ numVerified \in 0..N /\ result \in BOOLEAN \cup {None} /\ Answer
    BY DEF IInv, TypeOK, Counts
  <1>2. Known' = Known /\ Good' = Good
    BY <1>0 DEF Known, Good, Signs, Digest
  <1>3. Counted' = Counted BY <1>0, <1>2 DEF Counted
  <1>4. wg' = Cardinality(running' \cup verified')
    <2> DEFINE S == running \cup verified
    <2>1. S \in SUBSET Known /\ id \in S BY <1>0, <1>1
    <2>2. IsFiniteSet(S) BY <1>1, <2>1, GoodFinite
    <2>3. Cardinality(S \ {id}) = Cardinality(S) - 1 BY <2>1, <2>2, FS_RemoveElement
    <2>4. running' \cup verified' = S \ {id} BY <1>0, <1>1
    <2> QED BY <1>0, <1>1, <2>3, <2>4
  <1>5. Counts' BY <1>0, <1>1, <1>2, <1>3 DEF Counts
  <1>6. DOMAIN Signs' = DOMAIN Signs /\ TooFew' = TooFew BY <1>0 DEF Signs, TooFew
  <1>7. Known \subseteq Replica BY DEF Known
  <1>8. TypeOK' BY <1>0, <1>1, <1>4, <1>6, <1>7 DEF TypeOK
  <1>9. Answer' BY <1>0, <1>1, <1>6 DEF Answer
  <1> QED BY <1>5, <1>8, <1>9 DEF IInv

(* An answer: with wg at 0 no goroutine is left.                           *)
LEMMA ReturnKeeps ==
  ASSUME IInv, ReturnTooFew \/ Return
  PROVE  IInv'
  <1>0. /\ qc \in Cert /\ todo \subseteq DOMAIN Signs /\ Counts
        /\ running \subseteq Replica /\ verified \subseteq Replica
        /\ wg = Cardinality(running \cup verified) /\ numVerified \in 0..N
    BY DEF IInv, TypeOK
  <1>1. UNCHANGED <<qc, todo, running, verified, wg, numVerified>>
    BY DEF ReturnTooFew, Return
  <1>2. result' \in BOOLEAN
    <2>1. numVerified \in Int /\ GetQuorumSize \in Int
      BY <1>0, KeyAssumption DEF GetQuorumSize
    <2>2. (numVerified >= GetQuorumSize) \in BOOLEAN BY <2>1
    <2>3. result' = FALSE \/ result' = (numVerified >= GetQuorumSize)
      BY DEF ReturnTooFew, Return
    <2> QED BY <2>2, <2>3
  <1>3. DOMAIN Signs' = DOMAIN Signs /\ TooFew' = TooFew /\ Known' = Known /\ Counted' = Counted
    BY <1>1 DEF Signs, Digest, TooFew, Known, Counted, Good
  <1>4. Counts' BY <1>0, <1>1, <1>3 DEF Counts
  <1>5. TypeOK' BY <1>0, <1>1, <1>2, <1>3 DEF TypeOK
  <1>6. Answer'
    <2>1. CASE ReturnTooFew BY <1>3, <2>1 DEF ReturnTooFew, Answer
    <2>2. CASE Return
      <3>1. running \cup verified \in SUBSET Known BY <1>0 DEF Counts
      <3>2. IsFiniteSet(running \cup verified) BY <1>0, <3>1, GoodFinite
      <3>3. wg = 0 BY <2>2 DEF Return
      <3>4. running \cup verified = {} BY <1>0, <3>2, <3>3, FS_EmptySet
      <3> QED BY <1>1, <1>3, <2>2, <3>4 DEF Return, Answer
    <2> QED BY <2>1, <2>2
  <1> QED BY <1>4, <1>5, <1>6 DEF IInv

(* Every step keeps the invariant.                                         *)
LEMMA IInvNext == IInv /\ [Next]_vars => IInv'
  <1> SUFFICES ASSUME IInv, [Next]_vars PROVE IInv' OBVIOUS
  <1>1. CASE ReturnTooFew \/ Return BY <1>1, ReturnKeeps
  <1>2. CASE \E id \in DOMAIN Signs : Spawn(id) BY <1>2, SpawnKeeps
  <1>3. CASE \E id \in Replica : Check(id) \/ Done(id) BY <1>3, CheckKeeps, DoneKeeps
  <1>4. CASE UNCHANGED vars
    BY <1>4 DEF vars, IInv, TypeOK, Counts, Answer, TooFew, Counted, Good, Known, Signs, Digest
  <1> QED BY <1>1, <1>2, <1>3, <1>4 DEF Next

(* So every reachable state of VerifyQuorumCert satisfies it.              *)
LEMMA Invariance == Spec => []IInv
  BY IInvInit, IInvNext, PTL DEF Spec

(* The answer is right when there is one: too few entries hold too few     *)
(* good ones, and otherwise every good entry was counted.                  *)
LEMMA AnswerRight ==
  ASSUME IInv
  PROVE  QuorumAnswered
  <1>0. qc \in Cert /\ numVerified = Cardinality(Counted) /\ Answer
    BY DEF IInv, TypeOK, Counts
  <1>1. N \in Nat /\ F \in Nat /\ GetQuorumSize = N - F
    BY KeyAssumption DEF GetQuorumSize
  <1>2. /\ Cardinality(Good) \in Nat /\ Cardinality(DOMAIN Signs) \in Nat
        /\ Cardinality(Good) <= Cardinality(DOMAIN Signs)
    BY <1>0, GoodFinite
  <1>3. result # None => result = (Cardinality(Good) >= N - F)
    <2>1. CASE TooFew /\ result = FALSE
      <3>1. (Cardinality(Good) >= N - F) = FALSE BY <1>1, <1>2, <2>1 DEF TooFew
      <3> QED BY <2>1, <3>1
    <2>2. CASE todo = {} /\ running = {} /\ result = (numVerified >= GetQuorumSize)
      <3>1. Counted = Good BY <2>2 DEF Counted
      <3> QED BY <1>0, <1>1, <2>2, <3>1
    <2> QED BY <1>0, <2>1, <2>2 DEF Answer
  <1> QED BY <1>0, <1>3, GoodIsSigned DEF QuorumAnswered

(* Every variable of VerifyQuorumCert keeps its type; the WaitGroup counts *)
(* the goroutines that have not called Done.                               *)
THEOREM TypeCorrect == Spec => []TypeOK
  <1>1. IInv => TypeOK BY DEF IInv
  <1> QED BY <1>1, Invariance, PTL

(* ECDSASigner with low-S signatures, ecdsa.go: Verify accepts a pair of   *)
(* numbers just when Sign can return it for this key and digest.           *)
THEOREM AcceptsExactlySigned == Spec => []VerifiesExactlySigned
  <1>1. IInv => VerifiesExactlySigned BY ExactlySigned DEF IInv, TypeOK
  <1> QED BY <1>1, Invariance, PTL

(* VerifyQuorumCert answers yes just when N - F known replicas signed, in  *)
(* whatever order the goroutines verify and end.                           *)
THEOREM AnswersForQuorum == Spec => []QuorumAnswered
  <1>1. IInv => QuorumAnswered BY AnswerRight
  <1> QED BY <1>1, Invariance, PTL
=============================================================================
