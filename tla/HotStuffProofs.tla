--------------------------- MODULE HotStuffProofs ---------------------------
(***************************************************************************)
(* Proofs about HotStuff: the four invariants of the protocol, for every   *)
(* number of replicas with 3F < N, every tree of blocks, every order in    *)
(* which messages, timers and commands come, and every restart.            *)
(*                                                                         *)
(* QcBacked is about what one replica holds and what the others did, and is*)
(* not inductive.  The invariant that is, Good, follows a vote from the    *)
(* replica that casts it, through the message, into the votes that a leader*)
(* counts or keeps, to the QC it makes of them and the blocks, messages and*)
(* locks that carry the QC on.  Good(V, s) is a predicate of the state s of*)
(* one replica and of the votes V that were cast, so that each handler, an *)
(* operator from states to states, has a lemma of its own (Keeps for the   *)
(* handlers that do not vote, Outcome for those that may); votes are never *)
(* taken back, so that what is sound at the other replicas stays so.       *)
(*                                                                         *)
(* Agreement under VotedOnce is then quorum intersection along a branch of *)
(* the tree.  Branches are defined by a recursive function, and need       *)
(* induction: SetInduction states it for sets, and AncestorDef shows that  *)
(* the recursive definition has a solution.                                *)
(***************************************************************************)
EXTENDS HotStuff, FiniteSetTheorems, WellFoundedInduction, TLAPS

-----------------------------------------------------------------------------
(* Induction.  The library's induction theorems have a predicate for a     *)
(* parameter; for a set, induction follows from the least element.         *)
LEMMA LessRel == \A x, y \in Nat : x < y => <<x, y>> \in OpToRel(<, Nat)
  BY SMT DEF OpToRel

(* A set with 0, and with n + 1 for each of its n, has all the naturals.   *)
LEMMA SetInduction ==
  ASSUME NEW S, 0 \in S, \A n \in Nat : n \in S => n + 1 \in S
  PROVE  Nat \subseteq S
  <1> DEFINE T == {n \in Nat : n \notin S}
  <1> SUFFICES ASSUME T # {} PROVE FALSE
    OBVIOUS
  <1>1. T \subseteq Nat OBVIOUS
  <1>2. PICK n \in T : \A m \in T : ~(<<m, n>> \in OpToRel(<, Nat))
    <2> HIDE DEF T
    <2> QED BY <1>1, NatLessThanWellFounded, WFMin
  <1>3. \A m \in T : ~(m < n)
    BY <1>2, LessRel
  <1>4. n \in Nat /\ n # 0 OBVIOUS
  <1>5. n - 1 \in Nat /\ n - 1 < n BY <1>4
  <1>6. n - 1 \in S BY <1>3, <1>5
  <1>7. n \in S BY <1>5, <1>6, <1>4
  <1> QED BY <1>7

-----------------------------------------------------------------------------
(* The branches of the tree of blocks.                                     *)

Identity == [b \in Block |-> b]
ParentOf(g) == [b \in Block |-> Parent[g[b]]]

(* The initial pieces of AncestorFrom, up to distance n.                   *)
Pieces(n) ==
    {g \in [0..n -> [Block -> Block]] :
        /\ g[0] = Identity
        /\ \A i \in 1..n : g[i] = ParentOf(g[i - 1])}

(* There is a piece up to every distance ...                               *)
LEMMA PieceExists == \A n \in Nat : Pieces(n) # {}
  <1> DEFINE S == {n \in Nat : Pieces(n) # {}}
  <1>1. 0 \in S
    <2> DEFINE g == [i \in 0..0 |-> Identity]
    <2>1. Identity \in [Block -> Block] BY DEF Identity
    <2>2. g \in Pieces(0) BY <2>1 DEF Pieces
    <2> QED BY <2>2
  <1>2. ASSUME NEW n \in Nat, n \in S PROVE n + 1 \in S
    <2>1. PICK g \in Pieces(n) : TRUE BY <1>2
    <2> DEFINE h == [i \in 0..(n + 1) |-> IF i = n + 1 THEN ParentOf(g[n]) ELSE g[i]]
    <2>2. /\ g \in [0..n -> [Block -> Block]]
          /\ g[0] = Identity
          /\ \A i \in 1..n : g[i] = ParentOf(g[i - 1])
      BY <2>1 DEF Pieces
    <2>3. n \in 0..n /\ g[n] \in [Block -> Block] BY <2>2
    <2>4. ParentOf(g[n]) \in [Block -> Block]
      BY <2>3, TreeAssumption DEF ParentOf
    <2>5. ASSUME NEW i \in 0..(n + 1) PROVE h[i] \in [Block -> Block]
      BY <2>2, <2>4
    <2>6. h \in [0..(n + 1) -> [Block -> Block]] BY <2>5
    <2>7. h[0] = Identity BY <2>2
    <2>8. ASSUME NEW i \in 1..(n + 1) PROVE h[i] = ParentOf(h[i - 1])
      <3>1. CASE i = n + 1 BY <3>1
      <3>2. CASE i # n + 1 BY <3>2, <2>2
      <3> QED BY <3>1, <3>2
    <2> HIDE DEF h
    <2>9. h \in Pieces(n + 1) BY <2>6, <2>7, <2>8 DEF Pieces
    <2> QED BY <2>9
  <1> HIDE DEF S
  <1>3. Nat \subseteq S BY <1>1, <1>2, SetInduction
  <1> QED BY <1>3 DEF S

(* ... and two pieces agree as far as both go.                             *)
LEMMA PiecesAgree ==
  ASSUME NEW m \in Nat, NEW n \in Nat, m <= n,
         NEW g \in Pieces(m), NEW h \in Pieces(n)
  PROVE  \A i \in 0..m : g[i] = h[i]
  <1> DEFINE S == {i \in Nat : i <= m => g[i] = h[i]}
  <1>1. 0 \in S BY DEF Pieces
  <1>2. ASSUME NEW i \in Nat, i \in S PROVE i + 1 \in S
    <2>1. CASE i + 1 <= m
      <3>1. g[i] = h[i] BY <1>2, <2>1
      <3>2. i + 1 \in 1..m /\ i + 1 \in 1..n BY <2>1
      <3>3. g[i + 1] = ParentOf(g[(i + 1) - 1]) /\ h[i + 1] = ParentOf(h[(i + 1) - 1])
        BY <3>2 DEF Pieces
      <3>4. (i + 1) - 1 = i OBVIOUS
      <3> QED BY <3>1, <3>3, <3>4
    <2> QED BY <2>1
  <1> HIDE DEF S
  <1>3. Nat \subseteq S BY <1>1, <1>2, SetInduction
  <1> QED BY <1>3 DEF S

(* AncestorFrom is what its recursive definition says.                     *)
LEMMA AncestorDef ==
  AncestorFrom = [i \in Nat |-> IF i = 0 THEN [b \in Block |-> b]
                                ELSE [b \in Block |-> Parent[AncestorFrom[i - 1][b]]]]
  <1> DEFINE Rec(f) == [i \in Nat |-> IF i = 0 THEN [b \in Block |-> b]
                                      ELSE [b \in Block |-> Parent[f[i - 1][b]]]]
             P(n) == CHOOSE g : g \in Pieces(n)
             f == [n \in Nat |-> P(n)[n]]
  <1>1. \A n \in Nat : P(n) \in Pieces(n) BY PieceExists
  <1> HIDE DEF P
  <1>2. ASSUME NEW n \in Nat PROVE f[n] = Rec(f)[n]
    <2>1. CASE n = 0
      <3>1. P(0)[0] = Identity BY <1>1 DEF Pieces
      <3> QED BY <2>1, <3>1 DEF Identity
    <2>2. CASE n # 0
      <3>1. n - 1 \in Nat /\ n - 1 <= n /\ n \in 1..n /\ n - 1 \in 0..(n - 1)
        BY <2>2
      <3>2. P(n)[n] = ParentOf(P(n)[n - 1])
        BY <1>1, <3>1 DEF Pieces
      <3>3. P(n - 1)[n - 1] = P(n)[n - 1]
        BY <1>1, <3>1, PiecesAgree
      <3>4. f[n] = ParentOf(f[n - 1])
        BY <3>1, <3>2, <3>3
      <3> QED BY <2>2, <3>4 DEF ParentOf
    <2> QED BY <2>1, <2>2
  <1>3. f = Rec(f)
    <2> HIDE DEF f
    <2>1. f = [n \in Nat |-> f[n]] BY DEF f
    <2> QED BY <1>2, <2>1
  <1>4. \E x : x = Rec(x)
    <2> HIDE DEF f, Rec
    <2> QED BY <1>3
  <1>5. AncestorFrom = CHOOSE x : x = Rec(x)
    BY DEF AncestorFrom
  <1>6. AncestorFrom = Rec(AncestorFrom)
    <2> HIDE DEF Rec
    <2> QED BY <1>4, <1>5
  <1> QED BY <1>6

(* The ancestor at distance 0 is the block, the next one is the parent.    *)
LEMMA AncestorSteps ==
  ASSUME NEW b \in Block
  PROVE  /\ AncestorFrom[0][b] = b
         /\ \A i \in Nat : AncestorFrom[i + 1][b] = Parent[AncestorFrom[i][b]]
  <1>1. AncestorFrom[0] = [c \in Block |-> c]
    BY AncestorDef
  <1>2. ASSUME NEW i \in Nat
        PROVE  AncestorFrom[i + 1] = [c \in Block |-> Parent[AncestorFrom[i][c]]]
    <2>1. i + 1 \in Nat /\ i + 1 # 0 /\ (i + 1) - 1 = i OBVIOUS
    <2> QED BY <2>1, AncestorDef
  <1>3. AncestorFrom[0][b] = b BY <1>1
  <1>4. ASSUME NEW i \in Nat PROVE AncestorFrom[i + 1][b] = Parent[AncestorFrom[i][b]]
    BY <1>2
  <1> QED BY <1>3, <1>4

(* Down a branch the height falls by one at each step.                     *)
LEMMA AncestorHeight ==
  ASSUME NEW b \in Block
  PROVE  \A i \in 0..Height[b] :
            AncestorFrom[i][b] \in Block /\ Height[AncestorFrom[i][b]] = Height[b] - i
  <1> DEFINE A(i) == AncestorFrom[i][b]
             S == {i \in Nat : i <= Height[b] => A(i) \in Block /\ Height[A(i)] = Height[b] - i}
  <1>h. Height[b] \in Nat BY TreeAssumption
  <1>1. 0 \in S BY <1>h, AncestorSteps
  <1>2. ASSUME NEW i \in Nat, i \in S PROVE i + 1 \in S
    <2> SUFFICES ASSUME i + 1 <= Height[b]
                 PROVE  A(i + 1) \in Block /\ Height[A(i + 1)] = Height[b] - (i + 1)
      OBVIOUS
    <2>1. A(i) \in Block /\ Height[A(i)] = Height[b] - i BY <1>h, <1>2
    <2>2. A(i) # Genesis BY <2>1, <1>h, TreeAssumption
    <2>3. /\ Height[A(i)] = Height[Parent[A(i)]] + 1
          /\ Parent[A(i)] \in Block /\ Height[Parent[A(i)]] \in Nat
      BY <2>1, <2>2, TreeAssumption
    <2>4. A(i + 1) = Parent[A(i)] BY AncestorSteps
    <2> QED BY <2>1, <2>3, <2>4, <1>h
  <1> HIDE DEF S
  <1>3. Nat \subseteq S BY <1>1, <1>2, SetInduction
  <1> QED BY <1>3, <1>h DEF S

(* A branch has its block, and one block of each height below.             *)
LEMMA BranchHeights ==
  ASSUME NEW b \in Block
  PROVE  /\ b \in Branch[b]
         /\ Branch[b] \subseteq Block
         /\ \A h \in 0..Height[b] : \E a \in Branch[b] : Height[a] = h
  <1>h. Height[b] \in Nat BY TreeAssumption
  <1>1. Branch[b] = {AncestorFrom[i][b] : i \in 0..Height[b]} BY DEF Branch
  <1>2. b \in Branch[b] BY <1>1, <1>h, AncestorSteps
  <1>3. Branch[b] \subseteq Block BY <1>1, AncestorHeight
  <1>4. ASSUME NEW h \in 0..Height[b] PROVE \E a \in Branch[b] : Height[a] = h
    <2>1. Height[b] - h \in 0..Height[b] /\ Height[b] - (Height[b] - h) = h BY <1>h
    <2> QED BY <1>1, <2>1, AncestorHeight
  <1> QED BY <1>2, <1>3, <1>4

(* A set of blocks that has the parent of each of its blocks, but of the   *)
(* genesis block, has the whole branch of each.                            *)
LEMMA BranchClosed ==
  ASSUME NEW C, NEW b \in Block, b \in C,
         \A c \in C \cap Block : c # Genesis => Parent[c] \in C
  PROVE  Branch[b] \subseteq C
  <1> DEFINE A(i) == AncestorFrom[i][b]
             S == {i \in Nat : i <= Height[b] => A(i) \in C}
  <1>h. Height[b] \in Nat BY TreeAssumption
  <1>1. 0 \in S BY AncestorSteps
  <1>2. ASSUME NEW i \in Nat, i \in S PROVE i + 1 \in S
    <2> SUFFICES ASSUME i + 1 <= Height[b] PROVE A(i + 1) \in C
      OBVIOUS
    <2>1. A(i) \in C BY <1>2, <1>h
    <2>2. A(i) \in Block /\ Height[A(i)] = Height[b] - i BY <1>h, AncestorHeight
    <2>3. A(i) # Genesis BY <2>2, <1>h, TreeAssumption
    <2>4. A(i + 1) = Parent[A(i)] BY AncestorSteps
    <2> QED BY <2>1, <2>2, <2>3, <2>4
  <1> HIDE DEF S
  <1>3. Nat \subseteq S BY <1>1, <1>2, SetInduction
  <1> QED BY <1>3, <1>h DEF S, Branch

-----------------------------------------------------------------------------
(* There are N replicas.                                                   *)
LEMMA ReplicaFinite == IsFiniteSet(Replica) /\ Cardinality(Replica) = N
  <1>1. 0 \in Int /\ N - 1 \in Int /\ ~(0 > N - 1) /\ (N - 1) - 0 + 1 = N
    BY ConfAssumption
  <1> QED BY <1>1, FS_Interval DEF Replica

(* Two sets of N - F replicas have a replica in common.                    *)
LEMMA QuorumsIntersect ==
  ASSUME NEW A \in SUBSET Replica, NEW B \in SUBSET Replica,
         HasQuorum(A), HasQuorum(B)
  PROVE  A \cap B # {}
  <1>1. IsFiniteSet(Replica) /\ Cardinality(Replica) = N
    BY ReplicaFinite
  <1>2. IsFiniteSet(A) /\ IsFiniteSet(B) /\ IsFiniteSet(A \cup B)
    BY <1>1, FS_Subset
  <1>3. Cardinality(A \cup B) <= N BY <1>1, FS_Subset
  <1>4. Cardinality(A \cup B) = Cardinality(A) + Cardinality(B) - Cardinality(A \cap B)
    BY <1>2, FS_Union
  <1>5. /\ Cardinality(A) \in Nat /\ Cardinality(B) \in Nat
        /\ Cardinality(A \cap B) \in Nat
    BY <1>2, FS_CardinalityType, FS_Subset
  <1>6. Cardinality(A) >= N - F /\ Cardinality(B) >= N - F
    BY DEF HasQuorum, QuorumSize
  <1>7. Cardinality(A \cap B) # 0
    BY <1>3, <1>4, <1>5, <1>6, ConfAssumption
  <1> QED BY <1>7, FS_EmptySet

(* A set of replicas that grows keeps its quorum.                          *)
LEMMA QuorumGrows ==
  ASSUME NEW A \in SUBSET Replica, NEW B \in SUBSET Replica, A \subseteq B, HasQuorum(A)
  PROVE  HasQuorum(B)
  <1>1. IsFiniteSet(B)
    BY ReplicaFinite, FS_Subset
  <1>2. Cardinality(A) <= Cardinality(B) /\ Cardinality(A) \in Nat /\ Cardinality(B) \in Nat
    BY <1>1, FS_Subset, FS_CardinalityType
  <1> QED BY <1>2, ConfAssumption DEF HasQuorum, QuorumSize

-----------------------------------------------------------------------------
(* Types.                                                                  *)

(* The leaders of all views, and so the proposers, are replicas.           *)
LEMMA LeaderType ==
  /\ \A v \in Int : GetLeader(v) \in Replica /\ GetCurLeader(v) \in Replica
  /\ \A b \in Block : Proposer(b) \in Replica
  <1>1. \A v \in Int : GetLeader(v) \in Replica /\ GetCurLeader(v) \in Replica
    BY ConfAssumption DEF GetLeader, GetCurLeader, Replica
  <1> QED BY <1>1, TreeAssumption DEF Proposer

(* The fields of a block.                                                  *)
LEMMA TreeType ==
  /\ Genesis \in Block
  /\ \A b \in Block : /\ Height[b] \in Nat /\ View[b] \in Int
                      /\ Parent[b] \in Block /\ Justify[b] \in Block
  BY TreeAssumption

-----------------------------------------------------------------------------
(* What a replica knows is sound.  V[b] are the replicas that voted for b. *)

(* b is the genesis block or has a quorum of votes.                        *)
Backed(V, b) == b = Genesis \/ HasQuorum(V[b])

(* b is at or below the foot of a three-chain of backed blocks.            *)
Chained(V, b) ==
    \E c \in Block :
        /\ Extends(Parent[Parent[c]], b)
        /\ Link(c) /\ Link(Parent[c])
        /\ Backed(V, c) /\ Backed(V, Parent[c]) /\ Backed(V, Parent[Parent[c]])

(* The two QCs that went into a leaf, for its parent and for its justify,  *)
(* were both the highest one of its proposer, though not at one time.      *)
Grounded(V, b) == Backed(V, Parent[b]) /\ Backed(V, Justify[b])

(* A proposal carries its proposer's vote and its two QCs are backed, a    *)
(* vote was cast by its sender, and a new-view message has a QC.           *)
Sound(V, m) ==
    /\ m.type = "proposal" => /\ Proposer(m.block) \in V[m.block]
                              /\ Grounded(V, m.block)
    /\ m.type = "vote" => m.from \in V[m.block]
    /\ m.type = "newview" => Backed(V, m.block)

(* The votes a replica has counted or keeps were cast; its QCs, and those  *)
(* in the blocks it has stored or voted for, are backed; the messages it   *)
(* has sent, and those that wait, are sound; a leaf it has begun is its own*)
(* and its parent is backed.                                               *)
VotesCast(V, s)   == \A b \in Block : s.signs[b] \subseteq V[b] /\ s.voteSet[b] \subseteq V[b]
HighStored(s)     == s.genericQC \in s.store
QcsBacked(V, s)   == Backed(V, s.genericQC) /\ Backed(V, s.lockedQC) /\ Backed(V, s.execQC)
StoreBacked(V, s) == \A b \in s.store : b # Genesis => Grounded(V, b)
VotedBacked(V, s) == \A b \in s.voted : s.id \in V[b] /\ Grounded(V, b)
MailSound(V, s)   == /\ \A m \in s.sent \cup s.waiting \cup s.woken : Sound(V, m)
                     /\ \A m \in s.waiting \cup s.woken : m.type # "vote"
DecidedChained(V, s) == \A b \in s.executed : Chained(V, b)
LeafBacked(V, s)  == \A b \in s.leaf : Proposer(b) = s.id /\ Backed(V, Parent[b])

Good(V, s) ==
    /\ VotesCast(V, s)
    /\ HighStored(s)
    /\ QcsBacked(V, s)
    /\ StoreBacked(V, s)
    /\ VotedBacked(V, s)
    /\ MailSound(V, s)
    /\ DecidedChained(V, s)
    /\ LeafBacked(V, s)

Ballots == [Block -> SUBSET Replica]

(* A handler that does not vote: it keeps the types, the votes, and what is*)
(* sound.                                                                  *)
Typed(s, t) == t \in State /\ t.id = s.id /\ t.voted = s.voted

Keeps(V, s, t) == Typed(s, t) /\ (Good(V, s) => Good(V, t))

(* One that touches only what soundness is not about keeps everything.     *)
Alike(s, t) ==
    /\ t \in State
    /\ t.id = s.id /\ t.voted = s.voted
    /\ t.store = s.store /\ t.signs = s.signs /\ t.voteSet = s.voteSet
    /\ t.genericQC = s.genericQC /\ t.lockedQC = s.lockedQC /\ t.execQC = s.execQC
    /\ t.waiting = s.waiting /\ t.woken = s.woken /\ t.sent = s.sent
    /\ t.executed = s.executed /\ t.leaf = s.leaf

(* Were everyone to have voted for everything, all would be sound; a lemma *)
(* about any V then gives what does not depend on the votes.               *)
Everyone == [b \in Block |-> Replica]

(* ... every block would be backed and every message sound.                *)
LEMMA EveryoneSound ==
  /\ Everyone \in Ballots
  /\ \A b \in Block : Backed(Everyone, b) /\ Everyone[b] = Replica
  /\ \A m \in Message : Sound(Everyone, m)
  <1>1. Everyone \in Ballots BY DEF Ballots, Everyone
  <1>2. ASSUME NEW b \in Block PROVE Backed(Everyone, b) /\ Everyone[b] = Replica
    <2>1. Everyone[b] = Replica BY DEF Everyone
    <2>2. HasQuorum(Replica) BY ReplicaFinite, ConfAssumption DEF HasQuorum, QuorumSize
    <2> QED BY <2>1, <2>2 DEF Backed
  <1>3. ASSUME NEW m \in Message PROVE Sound(Everyone, m)
    <2>1. m.block \in Block /\ m.from \in Replica BY DEF Message
    <2>2. /\ Proposer(m.block) \in Replica
          /\ Parent[m.block] \in Block /\ Justify[m.block] \in Block
      BY <2>1, LeaderType, TreeType
    <2> QED BY <1>2, <2>1, <2>2 DEF Sound, Grounded
  <1> QED BY <1>1, <1>2, <1>3

(* Soundness does not depend on the other fields.                          *)
LEMMA KeepsAlike ==
  ASSUME NEW V, NEW s, NEW t, Alike(s, t)
  PROVE  Keeps(V, s, t)
  BY DEF Alike, Keeps, Typed, Good, VotesCast, HighStored, QcsBacked, StoreBacked,
         VotedBacked, MailSound, DecidedChained, LeafBacked

(* Handlers compose.                                                       *)
LEMMA KeepsTrans ==
  ASSUME NEW V, NEW s, NEW t, NEW u, Keeps(V, s, t), Keeps(V, t, u)
  PROVE  Keeps(V, s, u)
  BY DEF Keeps, Typed

(* A handler that returns early changes nothing.                           *)
LEMMA KeepsRefl ==
  ASSUME NEW V, NEW s \in State
  PROVE  Keeps(V, s, s)
  BY DEF Keeps, Typed

-----------------------------------------------------------------------------
(* The handlers that do not vote.                                          *)

(* The timers, the OnBeat goroutines and the view.                         *)
LEMMA SmallSteps ==
  ASSUME NEW s \in State
  PROVE  /\ Alike(s, StartTimer(s)) /\ Alike(s, StopTimer(s)) /\ Alike(s, Beat(s))
         /\ \A v \in Int : Alike(s, UpdateQcHigh(s, v)) /\ Alike(s, [s EXCEPT !.curView = v])
         /\ \A h \in Nat : Alike(s, [s EXCEPT !.voteHeight = h])
         /\ \A x \in [0..MaxView -> SUBSET Replica] : Alike(s, [s EXCEPT !.views = x])
         /\ \A x \in SUBSET Message : Alike(s, [s EXCEPT !.seen = x])
  <1>1. Alike(s, StartTimer(s)) BY DEF State, Alike, StartTimer
  <1>2. Alike(s, StopTimer(s)) BY DEF State, Alike, StopTimer
  <1>3. Alike(s, Beat(s)) BY DEF State, Alike, Beat
  <1>4. ASSUME NEW v \in Int PROVE Alike(s, [s EXCEPT !.curView = v])
    BY DEF State, Alike
  <1>5. ASSUME NEW v \in Int PROVE Alike(s, UpdateQcHigh(s, v))
    <2>1. Larger(s.curView, v) \in Int BY DEF State, Larger
    <2> QED BY <2>1, <1>4 DEF UpdateQcHigh
  <1>6. ASSUME NEW h \in Nat PROVE Alike(s, [s EXCEPT !.voteHeight = h])
    BY DEF State, Alike
  <1>7. ASSUME NEW x \in [0..MaxView -> SUBSET Replica] PROVE Alike(s, [s EXCEPT !.views = x])
    BY DEF State, Alike
  <1>8. ASSUME NEW x \in SUBSET Message PROVE Alike(s, [s EXCEPT !.seen = x])
    BY DEF State, Alike
  <1> QED BY <1>1, <1>2, <1>3, <1>4, <1>5, <1>6, <1>7, <1>8

(* The view alone.                                                         *)
LEMMA SetView ==
  ASSUME NEW V, NEW s \in State, NEW v \in Int
  PROVE  /\ Keeps(V, s, [s EXCEPT !.curView = v])
         /\ [s EXCEPT !.curView = v] \in State
         /\ [s EXCEPT !.curView = v].genericQC = s.genericQC
  <1> DEFINE t == [s EXCEPT !.curView = v]
  <1>1. Alike(s, t) BY SmallSteps
  <1> HIDE DEF t
  <1>2. Keeps(V, s, t) BY <1>1, KeepsAlike
  <1>3. t \in State /\ t.genericQC = s.genericQC BY <1>1 DEF Alike
  <1> QED BY <1>2, <1>3 DEF t

(* UpdateHighestQC, for a block that is stored and backed.                 *)
LEMMA KeepsHighestQC ==
  ASSUME NEW V, NEW s \in State, NEW b \in Block,
         Good(V, s) => b \in s.store /\ Backed(V, b)
  PROVE  Keeps(V, s, UpdateHighestQC(s, b))
  <1> DEFINE t == [s EXCEPT !.genericQC = b]
  <1>1. /\ t \in State /\ t.id = s.id /\ t.voted = s.voted
        /\ t.store = s.store /\ t.signs = s.signs /\ t.voteSet = s.voteSet
        /\ t.genericQC = b /\ t.lockedQC = s.lockedQC /\ t.execQC = s.execQC
        /\ t.waiting = s.waiting /\ t.woken = s.woken /\ t.sent = s.sent
        /\ t.executed = s.executed /\ t.leaf = s.leaf
    BY DEF State
  <1> HIDE DEF t
  <1>2. Keeps(V, s, t)
    BY <1>1 DEF Keeps, Typed, Good, VotesCast, HighStored, QcsBacked, StoreBacked,
                VotedBacked, MailSound, DecidedChained, LeafBacked
  <1>3. Keeps(V, t, UpdateQcHigh(t, View[b]))
    BY <1>1, TreeType, SmallSteps, KeepsAlike
  <1> QED BY <1>2, <1>3, KeepsTrans, KeepsRefl DEF UpdateHighestQC, t

(* updateLockedQC, for a block that is backed.                             *)
LEMMA KeepsLockedQC ==
  ASSUME NEW V, NEW s \in State, NEW b \in Block, Good(V, s) => Backed(V, b)
  PROVE  Keeps(V, s, UpdateLockedQC(s, b))
  <1> DEFINE t == [s EXCEPT !.lockedQC = b]
  <1>1. /\ t \in State /\ t.id = s.id /\ t.voted = s.voted
        /\ t.store = s.store /\ t.signs = s.signs /\ t.voteSet = s.voteSet
        /\ t.genericQC = s.genericQC /\ t.lockedQC = b /\ t.execQC = s.execQC
        /\ t.waiting = s.waiting /\ t.woken = s.woken /\ t.sent = s.sent
        /\ t.executed = s.executed /\ t.leaf = s.leaf
    BY DEF State
  <1> HIDE DEF t
  <1>2. Keeps(V, s, t)
    BY <1>1 DEF Keeps, Typed, Good, VotesCast, HighStored, QcsBacked, StoreBacked,
                VotedBacked, MailSound, DecidedChained, LeafBacked
  <1> QED BY <1>2, KeepsRefl DEF UpdateLockedQC, t

(* The DECIDE phase, for the foot of a three-chain.                        *)
LEMMA KeepsDecide ==
  ASSUME NEW V, NEW s \in State, NEW c \in Block, Link(c), Link(Parent[c]),
         Good(V, s) => /\ Backed(V, c) /\ Backed(V, Parent[c])
                       /\ Backed(V, Parent[Parent[c]])
  PROVE  Keeps(V, s, Decide(s, Parent[Parent[c]]))
  <1> DEFINE b == Parent[Parent[c]]
             t == Decide(s, b)
  <1>1. b \in Block BY TreeType
  <1>2. Decided(s, b) \subseteq Branch[b] /\ Branch[b] \subseteq Block
    BY <1>1, BranchHeights DEF Decided
  <1>3. /\ t \in State /\ t.id = s.id /\ t.voted = s.voted
        /\ t.store = s.store /\ t.signs = s.signs /\ t.voteSet = s.voteSet
        /\ t.genericQC = s.genericQC /\ t.lockedQC = s.lockedQC /\ t.execQC = b
        /\ t.waiting = s.waiting /\ t.woken = s.woken /\ t.sent = s.sent
        /\ t.executed = s.executed \cup Decided(s, b) /\ t.leaf = s.leaf
    BY <1>1, <1>2 DEF State, Decide
  <1>4. ASSUME Good(V, s) PROVE \A a \in Decided(s, b) : Chained(V, a)
    BY <1>2, <1>4 DEF Chained, Extends
  <1> HIDE DEF t
  <1>5. ASSUME Good(V, s) PROVE DecidedChained(V, t)
    BY <1>3, <1>4, <1>5 DEF Good, DecidedChained, LeafBacked
  <1>6. ASSUME Good(V, s) PROVE QcsBacked(V, t)
    BY <1>3, <1>6 DEF Good, QcsBacked
  <1>7. Keeps(V, s, t)
    BY <1>3, <1>5, <1>6
    DEF Keeps, Typed, Good, VotesCast, HighStored, StoreBacked, VotedBacked, MailSound,
        LeafBacked
  <1> QED BY <1>7 DEF t

(* update, for a block whose justify is stored and backed: the justify of  *)
(* a stored block is backed, so that each phase finds a backed block, and  *)
(* the DECIDE phase a direct chain of them.                                *)
LEMMA KeepsUpdate ==
  ASSUME NEW V, NEW s \in State, NEW b \in Block,
         Good(V, s) => Justify[b] \in s.store /\ Backed(V, Justify[b])
  PROVE  Keeps(V, s, Update(s, b))
  <1> DEFINE b2 == Justify[b]
             b1 == Justify[b2]
             b0 == Justify[b1]
             s1 == UpdateHighestQC(s, b2)
             s2 == UpdateLockedQC(s1, b1)
  <1>1. b2 \in Block /\ b1 \in Block /\ b0 \in Block BY TreeType
  <1>2. Keeps(V, s, s1) BY <1>1, KeepsHighestQC
  <1>3. ASSUME HasJustify(s, b2), Good(V, s) PROVE Backed(V, b1) /\ b1 \in s.store
    BY <1>3 DEF HasJustify, Good, StoreBacked, Grounded
  <1>4. ASSUME HasJustify(s, b2), HasJustify(s, b1), Good(V, s) PROVE Backed(V, b0)
    BY <1>3, <1>4 DEF HasJustify, Good, StoreBacked, Grounded
  <1> HIDE DEF s1
  <1>5. CASE ~HasJustify(s, b2)
    BY <1>2, <1>5 DEF Update, s1
  <1>6. CASE HasJustify(s, b2) /\ Good(V, s)
    <2>1. s1 \in State BY <1>2 DEF Keeps, Typed
    <2>2. Keeps(V, s1, s2) BY <1>1, <1>3, <1>6, <2>1, KeepsLockedQC
    <2> HIDE DEF s2
    <2>3. Keeps(V, s, s2) BY <1>2, <2>2, KeepsTrans
    <2>4. CASE ~Decides(s, b)
      BY <1>6, <2>3, <2>4 DEF Update, s1, s2
    <2>5. CASE Decides(s, b)
      <3>1. s2 \in State BY <2>3 DEF Keeps, Typed
      <3>2. /\ HasJustify(s, b1) /\ Link(b2) /\ Link(b1)
            /\ Parent[b2] = b1 /\ Parent[b1] = b0
        BY <2>5 DEF Decides, DirectChain, Link
      <3>3. Backed(V, b2) /\ Backed(V, b1) /\ Backed(V, b0)
        BY <1>3, <1>4, <1>6, <3>2
      <3> HIDE DEF b2, b1, b0
      <3>4. Keeps(V, s2, Decide(s2, Parent[Parent[b2]]))
        BY <1>1, <3>1, <3>2, <3>3, KeepsDecide
      <3>5. Keeps(V, s, Decide(s2, b0)) BY <2>3, <3>2, <3>4, KeepsTrans
      <3> QED BY <1>6, <2>5, <3>5 DEF Update, s1, s2, b2, b1, b0
    <2> QED BY <2>4, <2>5
  <1>7. CASE ~Good(V, s)
    <2>1. s1 \in State /\ s1.id = s.id /\ s1.voted = s.voted BY <1>2 DEF Keeps, Typed
    <2>2. Typed(s1, s2)
      BY <2>1, <1>1 DEF UpdateLockedQC, Typed, State
    <2> HIDE DEF s2
    <2>3. ASSUME NEW c \in Block PROVE Typed(s2, Decide(s2, c))
      <3>1. Decided(s2, c) \subseteq Block BY BranchHeights DEF Decided
      <3> QED BY <2>2, <3>1 DEF Decide, Typed, State
    <2>4. Typed(s, Update(s, b))
      BY <2>1, <2>2, <2>3, <1>1 DEF Update, Typed, s1, s2
    <2> QED BY <1>7, <2>4 DEF Keeps
  <1> QED BY <1>5, <1>6, <1>7

-----------------------------------------------------------------------------
(* Sending sound messages.                                                 *)
LEMMA KeepsSend ==
  ASSUME NEW V, NEW s \in State, NEW type \in {"proposal", "vote", "newview"},
         NEW b \in Block, NEW v \in Int, NEW dest \in Replica,
         Good(V, s) => \A q \in Replica :
             Sound(V, [type |-> type, from |-> s.id, to |-> q, block |-> b, view |-> v])
  PROVE  /\ Keeps(V, s, Unicast(s, type, b, v, dest))
         /\ Keeps(V, s, Broadcast(s, type, b, v))
  <1> DEFINE M == {[type |-> type, from |-> s.id, to |-> q,
                    block |-> b, view |-> v] : q \in Replica}
  <1>1. ASSUME NEW X \in SUBSET M PROVE Keeps(V, s, [s EXCEPT !.sent = @ \cup X])
    <2> DEFINE t == [s EXCEPT !.sent = @ \cup X]
    <2>1. X \subseteq Message BY DEF State, Message
    <2>2. ASSUME Good(V, s), NEW m \in X PROVE Sound(V, m)
      BY <2>2
    <2>3. /\ t \in State /\ t.id = s.id /\ t.voted = s.voted
          /\ t.store = s.store /\ t.signs = s.signs /\ t.voteSet = s.voteSet
          /\ t.genericQC = s.genericQC /\ t.lockedQC = s.lockedQC /\ t.execQC = s.execQC
          /\ t.waiting = s.waiting /\ t.woken = s.woken /\ t.sent = s.sent \cup X
          /\ t.executed = s.executed /\ t.leaf = s.leaf
      BY <2>1 DEF State
    <2> HIDE DEF t, M
    <2>4. Keeps(V, s, t)
      BY <2>2, <2>3 DEF Keeps, Typed, Good, VotesCast, HighStored, QcsBacked, StoreBacked,
                  VotedBacked, MailSound, DecidedChained, LeafBacked
    <2> QED BY <2>4 DEF t
  <1>2. Keeps(V, s, Unicast(s, type, b, v, dest))
    BY <1>1 DEF Unicast
  <1>3. Keeps(V, s, Broadcast(s, type, b, v))
    BY <1>1 DEF Broadcast
  <1> QED BY <1>2, <1>3

(* A new-view message names the block of the sender's highest QC.          *)
LEMMA KeepsSendNewView ==
  ASSUME NEW V, NEW s \in State, NEW v \in Int, NEW dest \in Replica
  PROVE  /\ Keeps(V, s, Unicast(s, "newview", s.genericQC, v, dest))
         /\ Keeps(V, s, Broadcast(s, "newview", s.genericQC, v))
  <1>1. s.genericQC \in Block BY DEF State
  <1>2. ASSUME Good(V, s), NEW q \in Replica
        PROVE  Sound(V, [type |-> "newview", from |-> s.id, to |-> q,
                         block |-> s.genericQC, view |-> v])
    BY <1>2 DEF Good, QcsBacked, Sound
  <1> QED BY <1>1, <1>2, KeepsSend

(* The tail of OnReceiveNewView.                                           *)
LEMMA KeepsAddNewView ==
  ASSUME NEW V, NEW s \in State, NEW from \in Replica, NEW v \in Int, NEW qc \in Block,
         Good(V, s) => qc \in s.store /\ Backed(V, qc)
  PROVE  Keeps(V, s, AddNewView(s, from, v, qc))
  <1> DEFINE s1 == [s EXCEPT !.views[v] = @ \cup {from}]
             h  == UpdateHighestQC(s1, qc)
             s2 == UpdateQcHigh(h, v)
  <1>1. Alike(s, s1) /\ s1 \in State BY DEF State, Alike
  <1>2. Keeps(V, s, s1) BY <1>1, KeepsAlike
  <1>3. Good(V, s1) => qc \in s1.store /\ Backed(V, qc)
    BY <1>1 DEF Alike, Good, VotesCast, HighStored, QcsBacked, StoreBacked, VotedBacked,
                MailSound, DecidedChained, LeafBacked
  <1> HIDE DEF s1
  <1>4. Keeps(V, s1, h) BY <1>1, <1>3, KeepsHighestQC
  <1>5. h \in State BY <1>4 DEF Keeps, Typed
  <1> HIDE DEF h
  <1>6. Keeps(V, h, s2) /\ s2 \in State
    BY <1>5, SmallSteps, KeepsAlike DEF Keeps, Typed
  <1> HIDE DEF s2
  <1>7. Keeps(V, s2, StartTimer(s2)) BY <1>6, SmallSteps, KeepsAlike
  <1>8. Keeps(V, s2, StopTimer(s2)) /\ StopTimer(s2) \in State
    BY <1>6, SmallSteps, KeepsAlike DEF Alike
  <1>9. Keeps(V, StopTimer(s2), Beat(StopTimer(s2))) BY <1>8, SmallSteps, KeepsAlike
  <1>10. Keeps(V, s, s2) BY <1>2, <1>4, <1>6, KeepsTrans
  <1>11. Keeps(V, s, StartTimer(s2)) /\ Keeps(V, s, Beat(StopTimer(s2)))
    BY <1>7, <1>8, <1>9, <1>10, KeepsTrans
  <1> QED BY <1>2, <1>11, KeepsRefl DEF AddNewView, s1, s2, h

(* clearViews forgets the messages of earlier views.                       *)
LEMMA KeepsClearViews ==
  ASSUME NEW V, NEW s \in State
  PROVE  Keeps(V, s, ClearViews(s))
  <1> DEFINE x == [v \in 0..MaxView |-> IF v < s.curView THEN {} ELSE s.views[v]]
  <1>1. x \in [0..MaxView -> SUBSET Replica] BY DEF State
  <1>2. ClearViews(s) = [s EXCEPT !.views = x] BY DEF ClearViews
  <1> HIDE DEF x
  <1> QED BY <1>1, <1>2, SmallSteps, KeepsAlike

(* OnNextSyncView.                                                         *)
LEMMA KeepsNextSyncView ==
  ASSUME NEW V, NEW s \in State
  PROVE  Keeps(V, s, OnNextSyncView(s))
  <1> DEFINE leader == GetLeader(s.curView)
             s1 == [s EXCEPT !.curView = @ + 1]
             u1 == Unicast(StartTimer(s1), "newview", s1.genericQC, s1.curView, leader)
             u2 == AddNewView(s1, s.id, s1.curView, s1.genericQC)
             u  == IF leader # s.id THEN u1 ELSE IF Busy(s) THEN u2 ELSE StartTimer(s1)
  <1>1. s.curView \in Int /\ s.id \in Replica BY DEF State
  <1>2. leader \in Replica BY <1>1, LeaderType
  <1>3. Keeps(V, s, s1) /\ s1 \in State
    <2>1. s.curView + 1 \in Int BY <1>1
    <2> QED BY <2>1, SetView
  <1> HIDE DEF s1, leader
  <1>4. Keeps(V, s1, StartTimer(s1)) /\ StartTimer(s1) \in State
        /\ StartTimer(s1).genericQC = s1.genericQC
    BY <1>3, SmallSteps, KeepsAlike DEF Alike
  <1>5. s1.curView \in Int /\ s1.genericQC \in Block BY <1>3 DEF State
  <1>6. Keeps(V, StartTimer(s1), u1) BY <1>2, <1>4, <1>5, KeepsSendNewView
  <1>7. Keeps(V, s1, u2)
    BY <1>1, <1>3, <1>5, KeepsAddNewView DEF Good, HighStored, QcsBacked
  <1> HIDE DEF u1, u2
  <1>8. Keeps(V, s, u1) /\ Keeps(V, s, u2) /\ Keeps(V, s, StartTimer(s1))
    BY <1>3, <1>4, <1>6, <1>7, KeepsTrans
  <1>9. Keeps(V, s, u) BY <1>8
  <1>10. OnNextSyncView(s) = ClearViews(u)
    BY DEF OnNextSyncView, u1, u2, s1, leader
  <1> HIDE DEF u
  <1>11. u \in State BY <1>9 DEF Keeps, Typed
  <1>12. Keeps(V, u, ClearViews(u)) BY <1>11, KeepsClearViews
  <1> QED BY <1>9, <1>10, <1>12, KeepsTrans

(* OnReceiveNewView, once the block is stored.                             *)
LEMMA KeepsNewView ==
  ASSUME NEW V, NEW s \in State, NEW m \in Message,
         Good(V, s) => m.block \in s.store /\ Backed(V, m.block)
  PROVE  Keeps(V, s, ApplyNewView(s, m))
  <1> DEFINE h  == UpdateHighestQC(s, m.block)
             s1 == UpdateQcHigh(h, m.view)
             c  == [s EXCEPT !.curView = m.view]
             w  == Broadcast(StartTimer(c), "newview", s.genericQC, m.view)
  <1>1. m.block \in Block /\ m.view \in Int /\ m.from \in Replica BY DEF Message
  <1>2. Keeps(V, s, h) /\ h \in State BY <1>1, KeepsHighestQC DEF Keeps, Typed
  <1> HIDE DEF h
  <1>3. Keeps(V, h, s1) /\ s1 \in State
    BY <1>1, <1>2, SmallSteps, KeepsAlike DEF Alike
  <1> HIDE DEF s1
  <1>4. Keeps(V, s1, Beat(s1)) /\ Keeps(V, s1, OnNextSyncView(s1))
    BY <1>3, SmallSteps, KeepsAlike, KeepsNextSyncView
  <1>5. Keeps(V, s, c) /\ c \in State /\ c.genericQC = s.genericQC
    BY <1>1, SetView
  <1> HIDE DEF c
  <1>6. Keeps(V, c, StartTimer(c)) /\ StartTimer(c) \in State
        /\ StartTimer(c).genericQC = s.genericQC
    BY <1>5, SmallSteps, KeepsAlike DEF Alike
  <1>7. Keeps(V, StartTimer(c), w)
    <2>1. 0 \in Replica BY ConfAssumption DEF Replica
    <2> QED BY <1>1, <1>6, <2>1, KeepsSendNewView
  <1> HIDE DEF w
  <1>8. Keeps(V, s, AddNewView(s, m.from, m.view, m.block))
    BY <1>1, KeepsAddNewView
  <1>9. /\ Keeps(V, s, Beat(s1)) /\ Keeps(V, s, OnNextSyncView(s1))
        /\ Keeps(V, s, w)
    BY <1>2, <1>3, <1>4, <1>5, <1>6, <1>7, KeepsTrans
  <1> QED BY <1>8, <1>9 DEF ApplyNewView, s1, h, w, c

(* OnQcFinishEvent.                                                        *)
LEMMA KeepsQcFinish ==
  ASSUME NEW V, NEW s \in State, NEW v \in Int
  PROVE  Keeps(V, s, OnQcFinishEvent(s, v))
  <1> DEFINE s1 == UpdateQcHigh(s, v)
             s2 == [s1 EXCEPT !.curView = @ + 1]
  <1>1. Keeps(V, s, s1) /\ s1 \in State BY SmallSteps, KeepsAlike DEF Alike
  <1> HIDE DEF s1
  <1>2. s1.curView + 1 \in Int BY <1>1 DEF State
  <1>3. Keeps(V, s1, s2) /\ s2 \in State BY <1>1, <1>2, SetView
  <1> HIDE DEF s2
  <1>4. /\ Keeps(V, s1, OnNextSyncView(s1)) /\ Keeps(V, s2, OnNextSyncView(s2))
        /\ Keeps(V, s2, Beat(s2))
    BY <1>1, <1>3, SmallSteps, KeepsAlike, KeepsNextSyncView
  <1>5. /\ Keeps(V, s, OnNextSyncView(s1)) /\ Keeps(V, s, OnNextSyncView(s2))
        /\ Keeps(V, s, Beat(s2))
    BY <1>1, <1>3, <1>4, KeepsTrans
  <1> QED BY <1>5 DEF OnQcFinishEvent, s1, s2

(* OnProposalVote, for a vote that was cast: a quorum of counted votes     *)
(* backs the block.                                                        *)
LEMMA KeepsVote ==
  ASSUME NEW V \in Ballots, NEW s \in State, NEW b \in Block, NEW voter \in Replica,
         Good(V, s) => voter \in V[b]
  PROVE  Keeps(V, s, OnProposalVote(s, b, voter))
  <1> DEFINE e == [s EXCEPT !.voteSet[b] = @ \cup {voter}]
             C == Collect(s, b, voter)
             s1 == [s EXCEPT !.signs[b] = C, !.voteSet[b] = {}]
             h == UpdateHighestQC(s1, b)
  <1>1. Keeps(V, s, e)
    <2>1. /\ e \in State /\ e.id = s.id /\ e.voted = s.voted
          /\ e.store = s.store /\ e.signs = s.signs
          /\ e.voteSet = [s.voteSet EXCEPT ![b] = @ \cup {voter}]
          /\ e.genericQC = s.genericQC /\ e.lockedQC = s.lockedQC /\ e.execQC = s.execQC
          /\ e.waiting = s.waiting /\ e.woken = s.woken /\ e.sent = s.sent
          /\ e.executed = s.executed /\ e.leaf = s.leaf
      BY DEF State
    <2>2. s.voteSet \in [Block -> SUBSET Replica] BY DEF State
    <2> HIDE DEF e
    <2>3. Good(V, s) => VotesCast(V, e)
      BY <2>1, <2>2 DEF Good, VotesCast
    <2> QED
      BY <2>1, <2>3 DEF Keeps, Typed, Good, HighStored, QcsBacked, StoreBacked,
                        VotedBacked, MailSound, DecidedChained, LeafBacked
  <1>2. C \in SUBSET Replica BY DEF State, Collect
  <1>3. Good(V, s) => C \subseteq V[b] BY DEF Good, VotesCast, Collect
  <1> HIDE DEF C
  <1>4. /\ s1 \in State /\ s1.id = s.id /\ s1.voted = s.voted
        /\ s1.store = s.store /\ s1.signs = [s.signs EXCEPT ![b] = C]
        /\ s1.voteSet = [s.voteSet EXCEPT ![b] = {}]
        /\ s1.genericQC = s.genericQC /\ s1.lockedQC = s.lockedQC /\ s1.execQC = s.execQC
        /\ s1.waiting = s.waiting /\ s1.woken = s.woken /\ s1.sent = s.sent
        /\ s1.executed = s.executed /\ s1.leaf = s.leaf
    BY <1>2 DEF State
  <1>5. s.voteSet \in [Block -> SUBSET Replica] /\ s.signs \in [Block -> SUBSET Replica]
    BY DEF State
  <1> HIDE DEF s1
  <1>6. Good(V, s) => VotesCast(V, s1)
    BY <1>3, <1>4, <1>5 DEF Good, VotesCast
  <1>7. Keeps(V, s, s1)
    BY <1>4, <1>6 DEF Keeps, Typed, Good, HighStored, QcsBacked, StoreBacked,
                      VotedBacked, MailSound, DecidedChained, LeafBacked
  <1>8. CASE b \in s.store /\ HasQuorum(s1.signs[b])
    <2>1. s1.signs[b] = C BY <1>4, <1>5
    <2>2. V[b] \in SUBSET Replica BY DEF Ballots
    <2>3. Good(V, s1) => s1.signs[b] \subseteq V[b] BY DEF Good, VotesCast
    <2>4. Good(V, s1) => b \in s1.store /\ Backed(V, b)
      BY <1>2, <1>4, <1>8, <2>1, <2>2, <2>3, QuorumGrows DEF Backed
    <2>5. Keeps(V, s1, h) /\ h \in State BY <1>4, <2>4, KeepsHighestQC DEF Keeps, Typed
    <2> HIDE DEF h
    <2>6. Keeps(V, h, OnQcFinishEvent(h, View[b])) BY <2>5, TreeType, KeepsQcFinish
    <2>7. Keeps(V, s, OnQcFinishEvent(h, View[b])) BY <1>7, <2>5, <2>6, KeepsTrans
    <2> QED BY <1>7, <1>8, <2>7, KeepsRefl DEF OnProposalVote, s1, h, C
  <1>9. CASE ~(b \in s.store /\ HasQuorum(s1.signs[b]))
    BY <1>1, <1>7, <1>9, KeepsRefl DEF OnProposalVote, s1, e, C
  <1> QED BY <1>8, <1>9

-----------------------------------------------------------------------------
(* The handlers that vote.                                                 *)

(* A handler may add votes, and what is sound stays so if they are counted.*)
Outcome(V, s, t) ==
    /\ t \in State /\ t.id = s.id /\ s.voted \subseteq t.voted
    /\ Good(V, s) /\ (\A b \in t.voted : s.id \in V[b]) => Good(V, t)

(* A handler that does not vote has such an outcome.                       *)
LEMMA OutcomeKeeps ==
  ASSUME NEW V, NEW s, NEW t, Keeps(V, s, t)
  PROVE  Outcome(V, s, t)
  BY DEF Keeps, Typed, Outcome

(* Outcomes compose.                                                       *)
LEMMA OutcomeTrans ==
  ASSUME NEW V, NEW s, NEW t, NEW u, Outcome(V, s, t), Outcome(V, t, u)
  PROVE  Outcome(V, s, u)
  BY DEF Outcome

(* The vote itself.                                                        *)
LEMMA OutcomeCast ==
  ASSUME NEW V, NEW s \in State, NEW b \in Block, NEW h \in Nat,
         Good(V, s) => Grounded(V, b)
  PROVE  /\ Outcome(V, s, [s EXCEPT !.voted = @ \cup {b}])
         /\ Outcome(V, s, [s EXCEPT !.voteHeight = h, !.voted = @ \cup {b}])
  <1>1. ASSUME NEW t \in State, t.id = s.id, t.voted = s.voted \cup {b},
               t.store = s.store, t.signs = s.signs, t.voteSet = s.voteSet,
               t.genericQC = s.genericQC, t.lockedQC = s.lockedQC, t.execQC = s.execQC,
               t.waiting = s.waiting, t.woken = s.woken, t.sent = s.sent,
               t.executed = s.executed, t.leaf = s.leaf
        PROVE  Outcome(V, s, t)
    BY <1>1 DEF Outcome, Good, VotesCast, HighStored, QcsBacked, StoreBacked,
                VotedBacked, MailSound, DecidedChained, LeafBacked
  <1>2. Outcome(V, s, [s EXCEPT !.voted = @ \cup {b}])
    <2> DEFINE t == [s EXCEPT !.voted = @ \cup {b}]
    <2>1. /\ t \in State /\ t.id = s.id /\ t.voted = s.voted \cup {b}
          /\ t.store = s.store /\ t.signs = s.signs /\ t.voteSet = s.voteSet
          /\ t.genericQC = s.genericQC /\ t.lockedQC = s.lockedQC /\ t.execQC = s.execQC
          /\ t.waiting = s.waiting /\ t.woken = s.woken /\ t.sent = s.sent
          /\ t.executed = s.executed /\ t.leaf = s.leaf
      BY DEF State
    <2> HIDE DEF t
    <2>2. Outcome(V, s, t) BY <1>1, <2>1
    <2> QED BY <2>2 DEF t
  <1>3. Outcome(V, s, [s EXCEPT !.voteHeight = h, !.voted = @ \cup {b}])
    <2> DEFINE t == [s EXCEPT !.voteHeight = h, !.voted = @ \cup {b}]
    <2>1. /\ t \in State /\ t.id = s.id /\ t.voted = s.voted \cup {b}
          /\ t.store = s.store /\ t.signs = s.signs /\ t.voteSet = s.voteSet
          /\ t.genericQC = s.genericQC /\ t.lockedQC = s.lockedQC /\ t.execQC = s.execQC
          /\ t.waiting = s.waiting /\ t.woken = s.woken /\ t.sent = s.sent
          /\ t.executed = s.executed /\ t.leaf = s.leaf
      BY DEF State
    <2> HIDE DEF t
    <2>2. Outcome(V, s, t) BY <1>1, <2>1
    <2> QED BY <2>2 DEF t
  <1> QED BY <1>2, <1>3

(* The vote for a proposal, counted here or sent to the next leader.       *)
LEMMA OutcomeSendVote ==
  ASSUME NEW V \in Ballots, NEW s \in State, NEW b \in Block,
         Good(V, s) => Grounded(V, b)
  PROVE  Outcome(V, s, SendVote(s, b))
  <1> DEFINE s0 == [s EXCEPT !.voted = @ \cup {b}]
             s1 == UpdateQcHigh(s0, View[b])
             s2 == IF GetLeader(s1.curView) = s.id THEN StopTimer(s1) ELSE s1
  <1>1. Outcome(V, s, s0) BY OutcomeCast, TreeType
  <1>2. s0 \in State /\ s0.id = s.id /\ b \in s0.voted
    BY DEF State
  <1> HIDE DEF s0
  <1>3. Keeps(V, s0, s1) /\ s1 \in State
    <2>1. Alike(s0, s1) BY <1>2, TreeType, SmallSteps
    <2> QED BY <2>1, KeepsAlike DEF Alike
  <1> HIDE DEF s1
  <1>4. Keeps(V, s1, s2) /\ s2 \in State
    BY <1>3, SmallSteps, KeepsAlike, KeepsRefl DEF Alike
  <1> HIDE DEF s2
  <1>5. Keeps(V, s0, s2) BY <1>3, <1>4, KeepsTrans
  <1>6. s2.id = s.id /\ b \in s2.voted /\ s.id \in Replica
    BY <1>2, <1>5 DEF Keeps, Typed, State
  <1>7. Good(V, s2) => s.id \in V[b] BY <1>6 DEF Good, VotedBacked
  <1>8. Keeps(V, s2, OnProposalVote(s2, b, s.id)) BY <1>4, <1>6, <1>7, KeepsVote
  <1>9. Keeps(V, s2, Unicast(s2, "vote", b, View[b], GetLeader(View[b])))
    <2>1. View[b] \in Int /\ GetLeader(View[b]) \in Replica BY TreeType, LeaderType
    <2>2. ASSUME Good(V, s2), NEW q \in Replica
          PROVE  Sound(V, [type |-> "vote", from |-> s2.id, to |-> q,
                           block |-> b, view |-> View[b]])
      BY <1>6, <1>7, <2>2 DEF Sound
    <2> QED BY <1>4, <2>1, <2>2, KeepsSend
  <1>10. SendVote(s, b) = IF GetLeader(View[b]) = s.id
                          THEN OnProposalVote(s2, b, s.id)
                          ELSE Unicast(s2, "vote", b, View[b], GetLeader(View[b]))
    BY DEF SendVote, s0, s1, s2
  <1>11. Keeps(V, s0, SendVote(s, b)) BY <1>5, <1>8, <1>9, <1>10, KeepsTrans
  <1> QED BY <1>1, <1>11, OutcomeKeeps, OutcomeTrans

(* OnReceiveProposal, once the justify is stored.                          *)
LEMMA OutcomeProposal ==
  ASSUME NEW V \in Ballots, NEW s \in State, NEW b \in Block,
         Good(V, s) => Justify[b] \in s.store /\ Grounded(V, b)
  PROVE  Outcome(V, s, ApplyProposal(s, b))
  <1> DEFINE s1 == Update(s, b)
             s2 == RaiseVoteHeight(s1, b)
  <1>1. Keeps(V, s, s1) /\ s1 \in State BY KeepsUpdate DEF Keeps, Typed, Grounded
  <1> HIDE DEF s1
  <1>2. Keeps(V, s1, s2) /\ s2 \in State
    <2>1. Alike(s1, [s1 EXCEPT !.voteHeight = Height[b]]) BY <1>1, TreeType, SmallSteps
    <2>2. Keeps(V, s1, [s1 EXCEPT !.voteHeight = Height[b]]) BY <2>1, KeepsAlike
    <2>3. Keeps(V, s1, s2) BY <1>1, <2>2, KeepsRefl DEF RaiseVoteHeight
    <2> QED BY <2>3 DEF Keeps, Typed
  <1> HIDE DEF s2
  <1>3. CASE Good(V, s)
    <2>1. Outcome(V, s2, SendVote(s2, b)) BY <1>2, <1>3, OutcomeSendVote
    <2> QED BY <1>1, <1>2, <2>1, OutcomeKeeps, OutcomeTrans DEF ApplyProposal, s1, s2
  <1>4. CASE ~Good(V, s)
    <2>1. Outcome(Everyone, s2, SendVote(s2, b))
      BY <1>2, EveryoneSound, TreeType, OutcomeSendVote DEF Grounded
    <2> QED BY <1>1, <1>2, <1>4, <2>1 DEF Keeps, Typed, Outcome, ApplyProposal, s1, s2
  <1> QED BY <1>3, <1>4

(* A sound message whose block is stored is handled.                       *)
LEMMA OutcomeApply ==
  ASSUME NEW V \in Ballots, NEW s \in State, NEW m \in Message,
         m.type \in {"proposal", "newview"}, Needed(m) \in s.store,
         Sound(V, m)
  PROVE  Outcome(V, s, Apply(s, m))
  <1>1. m.block \in Block BY DEF Message
  <1>2. CASE m.type = "proposal"
    <2>1. Justify[m.block] \in s.store /\ Grounded(V, m.block)
      BY <1>2 DEF Needed, Sound
    <2> QED BY <1>1, <1>2, <2>1, OutcomeProposal DEF Apply
  <1>3. CASE m.type = "newview"
    <2>1. m.block \in s.store /\ Backed(V, m.block)
      BY <1>3 DEF Needed, Sound
    <2> QED BY <1>3, <2>1, KeepsNewView, OutcomeKeeps DEF Apply
  <1> QED BY <1>2, <1>3

(* ... or it waits.                                                        *)
LEMMA OutcomeAwait ==
  ASSUME NEW V \in Ballots, NEW s \in State, NEW m \in Message,
         m.type \in {"proposal", "newview"}, Sound(V, m)
  PROVE  Outcome(V, s, Await(s, m))
  <1> DEFINE t == [s EXCEPT !.waiting = @ \cup {m}]
  <1>1. /\ t \in State /\ t.id = s.id /\ t.voted = s.voted
        /\ t.store = s.store /\ t.signs = s.signs /\ t.voteSet = s.voteSet
        /\ t.genericQC = s.genericQC /\ t.lockedQC = s.lockedQC /\ t.execQC = s.execQC
        /\ t.waiting = s.waiting \cup {m} /\ t.woken = s.woken /\ t.sent = s.sent
        /\ t.executed = s.executed /\ t.leaf = s.leaf
    BY DEF State
  <1> HIDE DEF t
  <1>2. Keeps(V, s, t)
    BY <1>1 DEF Keeps, Typed, Good, VotesCast, HighStored, QcsBacked, StoreBacked,
                VotedBacked, MailSound, DecidedChained, LeafBacked
  <1>3. Outcome(V, s, t) BY <1>2, OutcomeKeeps
  <1> QED BY <1>3, OutcomeApply DEF Await, t

(* StoreBlock, for a proposal that carries its proposer's vote and backed  *)
(* QCs.                                                                    *)
LEMMA KeepsStoreBlock ==
  ASSUME NEW V, NEW s \in State, NEW b \in Block,
         Proposer(b) \in V[b], Grounded(V, b)
  PROVE  Keeps(V, s, StoreBlock(s, b))
  <1> DEFINE t == StoreBlock(s, b)
  <1>1. Proposer(b) \in Replica BY LeaderType
  <1>2. /\ t \in State /\ t.id = s.id /\ t.voted = s.voted
        /\ t.store = s.store \cup {b}
        /\ t.signs = [s.signs EXCEPT ![b] = {Proposer(b)}] /\ t.voteSet = s.voteSet
        /\ t.genericQC = s.genericQC /\ t.lockedQC = s.lockedQC /\ t.execQC = s.execQC
        /\ t.waiting = {} /\ t.woken = s.woken \cup s.waiting /\ t.sent = s.sent
        /\ t.executed = s.executed /\ t.leaf = s.leaf
    BY <1>1 DEF State, StoreBlock
  <1>3. s.signs \in [Block -> SUBSET Replica] BY DEF State
  <1> HIDE DEF t
  <1>4. Good(V, s) => VotesCast(V, t) BY <1>2, <1>3 DEF Good, VotesCast
  <1>5. Keeps(V, s, t)
    BY <1>2, <1>4 DEF Keeps, Typed, Good, HighStored, QcsBacked, StoreBacked,
                      VotedBacked, MailSound, DecidedChained, LeafBacked
  <1> QED BY <1>5 DEF t

(* OnPropose: the parent of the leaf was backed when OnBeat read it, and   *)
(* its justify is the highest QC.                                          *)
LEMMA OutcomePropose ==
  ASSUME NEW V \in Ballots, NEW s \in State, NEW b \in Block,
         Justify[b] = s.genericQC, Proposer(b) = s.id,
         Good(V, s) => Backed(V, Parent[b])
  PROVE  Outcome(V, s, OnPropose(s, b))
  <1> DEFINE s0 == [s EXCEPT !.store = @ \cup {b}]
             s1 == Update(s0, b)
             s2 == [s1 EXCEPT !.voteHeight = Height[b], !.voted = @ \cup {b}]
             p  == OnProposalVote(s2, b, s.id)
             s3 == Broadcast(p, "proposal", b, View[b])
  <1>t. Height[b] \in Nat /\ View[b] \in Int /\ s.id \in Replica
    BY TreeType DEF State
  <1>1. Keeps(V, s, s0) /\ s0 \in State /\ s0.genericQC = s.genericQC
    <2>1. /\ s0 \in State /\ s0.id = s.id /\ s0.voted = s.voted
          /\ s0.store = s.store \cup {b} /\ s0.signs = s.signs /\ s0.voteSet = s.voteSet
          /\ s0.genericQC = s.genericQC /\ s0.lockedQC = s.lockedQC
          /\ s0.execQC = s.execQC
          /\ s0.waiting = s.waiting /\ s0.woken = s.woken /\ s0.sent = s.sent
          /\ s0.executed = s.executed /\ s0.leaf = s.leaf
      BY DEF State
    <2> HIDE DEF s0
    <2>2. Good(V, s) => StoreBacked(V, s0)
      BY <2>1 DEF Good, StoreBacked, QcsBacked, Grounded
    <2> QED
      BY <2>1, <2>2 DEF Keeps, Typed, Good, VotesCast, HighStored, QcsBacked,
                        VotedBacked, MailSound, DecidedChained, LeafBacked
  <1> HIDE DEF s0
  <1>2. Good(V, s0) => Justify[b] \in s0.store /\ Backed(V, Justify[b])
    BY <1>1 DEF Good, HighStored, QcsBacked
  <1>3. Keeps(V, s0, s1) /\ s1 \in State BY <1>1, <1>2, KeepsUpdate DEF Keeps, Typed
  <1>4. Keeps(V, s, s1) BY <1>1, <1>3, KeepsTrans
  <1> HIDE DEF s1
  <1>8. Outcome(V, s, s) /\ Outcome(V, s, s1) BY <1>4, KeepsRefl, OutcomeKeeps
  <1>5. CASE Good(V, s)
    <2>1. Grounded(V, b) BY <1>5, <1>2, <1>1 DEF Keeps, Grounded
    <2>2. Outcome(V, s1, s2) /\ s2 \in State
      <3>1. Outcome(V, s1, s2) BY <1>3, <1>t, <2>1, OutcomeCast
      <3> QED BY <3>1 DEF Outcome
    <2>3. s2.id = s.id /\ b \in s2.voted
      BY <1>3, <1>4 DEF Keeps, Typed, State
    <2> HIDE DEF s2
    <2>4. Good(V, s2) => s.id \in V[b] BY <2>3 DEF Good, VotedBacked
    <2>5. Keeps(V, s2, p) /\ p \in State
      BY <1>t, <2>2, <2>4, KeepsVote DEF Keeps, Typed
    <2>6. p.id = s.id /\ b \in p.voted BY <2>3, <2>5 DEF Keeps, Typed
    <2> HIDE DEF p
    <2>7. ASSUME Good(V, p), NEW q \in Replica
          PROVE  Sound(V, [type |-> "proposal", from |-> p.id, to |-> q,
                           block |-> b, view |-> View[b]])
      BY <2>1, <2>6, <2>7 DEF Sound, Good, VotedBacked
    <2>8. Keeps(V, p, s3) /\ s3 \in State
      BY <1>t, <2>5, <2>7, KeepsSend DEF Keeps, Typed
    <2> HIDE DEF s3
    <2>9. Keeps(V, s3, StartTimer(s3)) BY <2>8, SmallSteps, KeepsAlike
    <2>10. Outcome(V, s, s2) BY <1>4, <2>2, OutcomeKeeps, OutcomeTrans
    <2>11. Keeps(V, s2, s3) BY <2>5, <2>8, KeepsTrans
    <2>12. Keeps(V, s2, StartTimer(s3)) BY <2>9, <2>11, KeepsTrans
    <2>13. Outcome(V, s, s3) /\ Outcome(V, s, StartTimer(s3))
      BY <2>10, <2>11, <2>12, OutcomeKeeps, OutcomeTrans
    <2> QED BY <1>8, <2>13 DEF OnPropose, s0, s1, s2, s3, p
  <1>6. CASE ~Good(V, s)
    <2>1. Everyone \in Ballots /\ s.id \in Everyone[b] BY <1>t, EveryoneSound
    <2>2. /\ s2 \in State /\ s2.id = s.id /\ s.voted \subseteq s2.voted
      BY <1>3, <1>4, <1>t DEF Keeps, Typed, State
    <2> HIDE DEF s2
    <2>3. Keeps(Everyone, s2, p) BY <1>t, <2>1, <2>2, KeepsVote
    <2>4. p \in State /\ p.id = s.id /\ s.voted \subseteq p.voted
      BY <2>2, <2>3 DEF Keeps, Typed
    <2> HIDE DEF p
    <2>5. s3 \in State /\ s3.id = s.id /\ s3.voted = p.voted
      BY <1>t, <2>4 DEF Broadcast, State, Message
    <2> HIDE DEF s3
    <2>6. Alike(s3, StartTimer(s3)) BY <2>5, SmallSteps
    <2>7. Outcome(V, s, s3) /\ Outcome(V, s, StartTimer(s3))
      BY <1>6, <2>4, <2>5, <2>6 DEF Outcome, Alike
    <2> QED BY <1>8, <2>7 DEF OnPropose, s0, s1, s2, s3, p
  <1> QED BY <1>5, <1>6

-----------------------------------------------------------------------------
(* The whole system.                                                       *)

Cast == [b \in Block |-> Voters(b)]

Inv ==
    /\ rep \in [Replica -> State]
    /\ \A r \in Replica : rep[r].id = r /\ Good(Cast, rep[r])

(* What is sound stays sound as more votes are cast.                       *)
LEMMA SoundGrows ==
  ASSUME NEW V \in Ballots, NEW W \in Ballots, \A b \in Block : V[b] \subseteq W[b]
  PROVE  /\ \A b \in Block : Backed(V, b) => Backed(W, b)
         /\ \A m \in Message : Sound(V, m) => Sound(W, m)
         /\ \A s \in State : Good(V, s) => Good(W, s)
  <1>1. ASSUME NEW b \in Block, Backed(V, b) PROVE Backed(W, b)
    <2>1. V[b] \in SUBSET Replica /\ W[b] \in SUBSET Replica BY DEF Ballots
    <2> QED BY <1>1, <2>1, QuorumGrows DEF Backed
  <1>2. ASSUME NEW m \in Message, Sound(V, m) PROVE Sound(W, m)
    <2>1. /\ m.block \in Block
          /\ Parent[m.block] \in Block /\ Justify[m.block] \in Block
      BY TreeType DEF Message
    <2> QED BY <1>1, <1>2, <2>1 DEF Sound, Grounded
  <1>3. ASSUME NEW s \in State, Good(V, s) PROVE Good(W, s)
    <2>1. /\ s.store \subseteq Block /\ s.voted \subseteq Block /\ s.leaf \subseteq Block
          /\ s.genericQC \in Block /\ s.lockedQC \in Block /\ s.execQC \in Block
          /\ s.sent \cup s.waiting \cup s.woken \subseteq Message
      BY DEF State
    <2>2. VotesCast(W, s) BY <1>3 DEF Good, VotesCast
    <2>3. HighStored(s) BY <1>3 DEF Good
    <2>4. QcsBacked(W, s) BY <1>1, <1>3, <2>1 DEF Good, QcsBacked
    <2>5. StoreBacked(W, s) BY <1>1, <1>3, <2>1, TreeType DEF Good, StoreBacked, Grounded
    <2>6. VotedBacked(W, s) BY <1>1, <1>3, <2>1, TreeType DEF Good, VotedBacked, Grounded
    <2>7. MailSound(W, s) BY <1>2, <1>3, <2>1 DEF Good, MailSound
    <2>8. DecidedChained(W, s)
      BY <1>1, <1>3, TreeType DEF Good, DecidedChained, Chained
    <2>9. LeafBacked(W, s) BY <1>1, <1>3, <2>1, TreeType DEF Good, LeafBacked
    <2> QED BY <2>2, <2>3, <2>4, <2>5, <2>6, <2>7, <2>8, <2>9 DEF Good
  <1> QED BY <1>1, <1>2, <1>3

(* The votes that were cast are sets of replicas.                          *)
LEMMA CastType == Cast \in Ballots /\ Cast' \in Ballots
  BY DEF Cast, Ballots, Voters

(* A step of one replica only adds votes.                                  *)
LEMMA CastGrows ==
  ASSUME Inv, NEW r \in Replica, NEW t \in State, rep[r].voted \subseteq t.voted,
         rep' = [rep EXCEPT ![r] = t]
  PROVE  /\ \A b \in Block : Cast[b] \subseteq Cast'[b]
         /\ \A b \in t.voted : r \in Cast'[b]
  <1>1. t.voted \subseteq Block BY DEF State
  <1> QED BY <1>1 DEF Inv, Cast, Voters

(* So a step of one replica with a good outcome keeps the invariant.       *)
LEMMA StepInv ==
  ASSUME Inv, NEW r \in Replica, NEW t, Outcome(Cast', rep[r], t),
         rep' = [rep EXCEPT ![r] = t]
  PROVE  Inv'
  <1>1. t \in State /\ t.id = r /\ rep[r].voted \subseteq t.voted
    BY DEF Outcome, Inv
  <1>2. rep' \in [Replica -> State] /\ \A q \in Replica : rep'[q].id = q
    BY <1>1 DEF Inv
  <1>3. ASSUME NEW q \in Replica PROVE Good(Cast', rep[q])
    BY CastType, CastGrows, SoundGrows, <1>1 DEF Inv
  <1>4. \A b \in t.voted : rep[r].id \in Cast'[b] BY <1>1, CastGrows DEF Inv
  <1>5. Good(Cast', t) BY <1>3, <1>4 DEF Outcome
  <1>6. ASSUME NEW q \in Replica PROVE Good(Cast', rep'[q])
    <2>1. CASE q = r BY <2>1, <1>5 DEF Inv
    <2>2. CASE q # r BY <2>2, <1>3 DEF Inv
    <2> QED BY <2>1, <2>2
  <1> QED BY <1>2, <1>6 DEF Inv

-----------------------------------------------------------------------------
(* The actions.                                                            *)

(* A replica that starts has stored, voted for and sent nothing.           *)
LEMMA StartFacts ==
  ASSUME NEW r \in Replica
  PROVE  LET s == Start(r) IN
         /\ s \in State /\ s.id = r /\ s.voted = {}
         /\ s.store = {Genesis}
         /\ s.signs = [b \in Block |-> {}] /\ s.voteSet = [b \in Block |-> {}]
         /\ s.genericQC = Genesis /\ s.lockedQC = Genesis /\ s.execQC = Genesis
         /\ s.waiting = {} /\ s.woken = {} /\ s.sent = {} /\ s.executed = {} /\ s.leaf = {}
  BY TreeType DEF State, Start

(* The invariant holds when the replicas start.                            *)
LEMMA InitInv == Init => Inv
  <1> SUFFICES ASSUME Init PROVE Inv
    OBVIOUS
  <1>1. ASSUME NEW r \in Replica
        PROVE  /\ Start(r) \in State /\ Start(r).id = r
               /\ Good(Cast, Start(r))
    <2> DEFINE s == Start(r)
    <2>1. /\ s \in State /\ s.id = r /\ s.voted = {}
          /\ s.store = {Genesis}
          /\ s.signs = [b \in Block |-> {}] /\ s.voteSet = [b \in Block |-> {}]
          /\ s.genericQC = Genesis /\ s.lockedQC = Genesis /\ s.execQC = Genesis
          /\ s.waiting = {} /\ s.woken = {} /\ s.sent = {} /\ s.executed = {} /\ s.leaf = {}
      BY StartFacts
    <2> HIDE DEF s
    <2>2. Good(Cast, s)
      BY <2>1 DEF Good, VotesCast, HighStored, QcsBacked, StoreBacked, VotedBacked,
                  MailSound, DecidedChained, LeafBacked, Backed
    <2> QED BY <2>1, <2>2 DEF s
  <1>2. rep = [r \in Replica |-> Start(r)] BY DEF Init
  <1> QED BY <1>1, <1>2 DEF Inv

(* A client's command: the parent of a leaf is read, or the timer starts.  *)
LEMMA OnBeatInv ==
  ASSUME Inv, NEW r \in Replica, OnBeat(r)
  PROVE  Inv'
  <1> DEFINE s == [rep[r] EXCEPT !.beats = @ - 1]
             V == Cast'
  <1>1. rep[r] \in State /\ rep[r].id = r /\ rep[r].beats > 0 BY DEF Inv, OnBeat
  <1>2. Alike(rep[r], s) /\ s \in State /\ s.id = r
    <2>1. rep[r].beats - 1 \in Nat BY <1>1 DEF State
    <2> QED BY <1>1, <2>1 DEF Alike, State
  <1>3. Outcome(V, rep[r], s) BY <1>2, KeepsAlike, OutcomeKeeps
  <1>4. \/ Step(r, StartTimer(s))
        \/ \E b \in Block :
              /\ Parent[b] = s.genericQC
              /\ Proposer(b) = r
              /\ Step(r, [s EXCEPT !.leaf = @ \cup {b}])
    BY DEF OnBeat
  <1> HIDE DEF s, V
  <1>5. ASSUME NEW t, Outcome(V, s, t), Step(r, t) PROVE Inv'
    <2>1. Outcome(V, rep[r], t) BY <1>3, <1>5, OutcomeTrans
    <2>2. rep' = [rep EXCEPT ![r] = t] BY <1>5 DEF Step
    <2> QED BY <2>1, <2>2, StepInv DEF V
  <1>6. CASE Step(r, StartTimer(s))
    BY <1>2, <1>5, <1>6, SmallSteps, KeepsAlike, OutcomeKeeps
  <1>7. ASSUME NEW b \in Block, Parent[b] = s.genericQC, Proposer(b) = r,
               Step(r, [s EXCEPT !.leaf = @ \cup {b}])
        PROVE  Inv'
    <2> DEFINE t == [s EXCEPT !.leaf = @ \cup {b}]
    <2>1. /\ t \in State /\ t.id = s.id /\ t.voted = s.voted
          /\ t.store = s.store /\ t.signs = s.signs /\ t.voteSet = s.voteSet
          /\ t.genericQC = s.genericQC /\ t.lockedQC = s.lockedQC /\ t.execQC = s.execQC
          /\ t.waiting = s.waiting /\ t.woken = s.woken /\ t.sent = s.sent
          /\ t.executed = s.executed /\ t.leaf = s.leaf \cup {b}
      BY <1>2 DEF State
    <2>2. Step(r, t) BY <1>7
    <2> HIDE DEF t
    <2>3. Good(V, s) => LeafBacked(V, t)
      BY <1>2, <1>7, <2>1 DEF Good, LeafBacked, QcsBacked
    <2>4. Keeps(V, s, t)
      BY <2>1, <2>3 DEF Keeps, Typed, Good, VotesCast, HighStored, QcsBacked, StoreBacked,
                        VotedBacked, MailSound, DecidedChained
    <2> QED BY <1>5, <2>2, <2>4, OutcomeKeeps
  <1> QED BY <1>4, <1>6, <1>7

(* createLeaf reads the QC again: both were backed when they were read.    *)
LEMMA CreateLeafInv ==
  ASSUME Inv, NEW r \in Replica, NEW b \in rep[r].leaf, CreateLeaf(r, b)
  PROVE  Inv'
  <1> DEFINE o == rep[r]
             s == [o EXCEPT !.leaf = @ \ {b}]
             t == OnPropose(s, b)
             V == Cast'
  <1>1. o \in State /\ o.id = r /\ Good(Cast, o) BY DEF Inv
  <1>2. b \in Block /\ Proposer(b) = r /\ Backed(Cast, Parent[b])
    BY <1>1 DEF State, Good, LeafBacked
  <1>3. /\ s \in State /\ s.id = o.id /\ s.voted = o.voted
        /\ s.store = o.store /\ s.signs = o.signs /\ s.voteSet = o.voteSet
        /\ s.genericQC = o.genericQC /\ s.lockedQC = o.lockedQC /\ s.execQC = o.execQC
        /\ s.waiting = o.waiting /\ s.woken = o.woken /\ s.sent = o.sent
        /\ s.executed = o.executed /\ s.leaf = o.leaf \ {b}
    BY <1>1 DEF State
  <1>4. Justify[b] = s.genericQC /\ rep' = [rep EXCEPT ![r] = t]
    BY DEF CreateLeaf, Step
  <1> HIDE DEF s, o
  <1>5. ASSUME NEW W \in Ballots PROVE Keeps(W, o, s)
    BY <1>3 DEF Keeps, Typed, Good, VotesCast, HighStored, QcsBacked, StoreBacked,
                VotedBacked, MailSound, DecidedChained, LeafBacked
  <1>6. Good(V, o) => Good(V, s) BY <1>5, CastType DEF Keeps
  <1>7. t \in State /\ o.voted \subseteq t.voted
    <2>1. Backed(Everyone, Parent[b]) BY <1>2, TreeType, EveryoneSound
    <2>2. Outcome(Everyone, s, t)
      BY <1>1, <1>2, <1>3, <1>4, <2>1, EveryoneSound, OutcomePropose
    <2> QED BY <1>3, <2>2 DEF Outcome
  <1> HIDE DEF V
  <1>8. V \in Ballots /\ Backed(V, Parent[b])
    <2>1. \A c \in Block : Cast[c] \subseteq V[c] BY <1>4, <1>7, CastGrows DEF V, o
    <2>2. V \in Ballots /\ Cast \in Ballots BY CastType DEF V
    <2> QED BY <1>2, <2>1, <2>2, TreeType, SoundGrows
  <1>9. Outcome(V, s, t)
    BY <1>1, <1>2, <1>3, <1>4, <1>8, OutcomePropose
  <1>10. Outcome(V, o, t) BY <1>5, <1>8, <1>9, OutcomeKeeps, OutcomeTrans
  <1> HIDE DEF t
  <1> QED BY <1>4, <1>10, StepInv DEF V, o

(* A handler with a sound outcome for a sound message keeps the invariant. *)
LEMMA HandleInv ==
  ASSUME Inv, NEW r \in Replica, NEW m \in Message, Sound(Cast, m),
         NEW s, \A W \in Ballots : Keeps(W, rep[r], s),
         NEW t, \A W \in Ballots : Sound(W, m) => Outcome(W, s, t),
         Step(r, t)
  PROVE  Inv'
  <1>1. rep' = [rep EXCEPT ![r] = t] BY DEF Step
  <1>2. ASSUME NEW W \in Ballots, Sound(W, m) PROVE Outcome(W, rep[r], t)
    BY <1>2, OutcomeKeeps, OutcomeTrans
  <1>3. t \in State /\ rep[r].voted \subseteq t.voted
    BY <1>2, EveryoneSound DEF Outcome
  <1>4. \A b \in Block : Cast[b] \subseteq Cast'[b] BY <1>1, <1>3, CastGrows
  <1>5. Sound(Cast', m) BY <1>4, CastType, SoundGrows
  <1>6. Outcome(Cast', rep[r], t) BY <1>2, <1>5, CastType
  <1> QED BY <1>1, <1>6, StepInv

(* A message is delivered, however late and in whatever order.             *)
LEMMA DeliverInv ==
  ASSUME Inv, NEW r \in Replica, NEW q \in Replica, NEW m \in rep[q].sent, Deliver(r, m)
  PROVE  Inv'
  <1> DEFINE s == [rep[r] EXCEPT !.seen = @ \cup {m}]
  <1>1. rep[r] \in State /\ rep[q] \in State BY DEF Inv
  <1>2. m \in Message /\ Sound(Cast, m)
    BY <1>1 DEF State, Inv, Good, MailSound
  <1>3. m.block \in Block /\ m.from \in Replica BY <1>2 DEF Message
  <1>4. Alike(rep[r], s)
    <2>1. rep[r].seen \cup {m} \in SUBSET Message BY <1>1, <1>2 DEF State
    <2> QED BY <1>1, <2>1, SmallSteps
  <1>5. \/ m.type = "proposal" /\ Step(r, Await(StoreBlock(s, m.block), m))
        \/ m.type = "vote" /\ Step(r, OnProposalVote(s, m.block, m.from))
        \/ m.type = "newview" /\ Step(r, IF m.view < s.curView THEN s ELSE Await(s, m))
    BY DEF Deliver
  <1> HIDE DEF s
  <1>6. s \in State /\ \A W \in Ballots : Keeps(W, rep[r], s)
    BY <1>4, KeepsAlike DEF Alike
  <1>7. CASE m.type = "proposal" /\ Step(r, Await(StoreBlock(s, m.block), m))
    <2> DEFINE u == StoreBlock(s, m.block)
    <2>1. ASSUME NEW W \in Ballots, Sound(W, m) PROVE Outcome(W, s, Await(u, m))
      <3>1. Proposer(m.block) \in W[m.block] /\ Grounded(W, m.block)
        BY <1>7, <2>1 DEF Sound
      <3>2. Keeps(W, s, u) /\ u \in State
        BY <1>3, <1>6, <3>1, KeepsStoreBlock DEF Keeps, Typed
      <3> HIDE DEF u
      <3>3. Outcome(W, u, Await(u, m)) BY <1>2, <1>7, <2>1, <3>2, OutcomeAwait
      <3> QED BY <3>2, <3>3, OutcomeKeeps, OutcomeTrans
    <2> QED BY <1>2, <1>6, <1>7, <2>1, HandleInv
  <1>8. CASE m.type = "vote" /\ Step(r, OnProposalVote(s, m.block, m.from))
    <2>1. ASSUME NEW W \in Ballots, Sound(W, m)
          PROVE  Outcome(W, s, OnProposalVote(s, m.block, m.from))
      <3>1. m.from \in W[m.block] BY <1>8, <2>1 DEF Sound
      <3> QED BY <1>3, <1>6, <3>1, KeepsVote, OutcomeKeeps
    <2> QED BY <1>2, <1>6, <1>8, <2>1, HandleInv
  <1>9. CASE m.type = "newview" /\ Step(r, IF m.view < s.curView THEN s ELSE Await(s, m))
    <2> DEFINE t == IF m.view < s.curView THEN s ELSE Await(s, m)
    <2>1. ASSUME NEW W \in Ballots, Sound(W, m) PROVE Outcome(W, s, t)
      BY <1>2, <1>6, <1>9, <2>1, OutcomeAwait, KeepsRefl, OutcomeKeeps
    <2>2. Step(r, t) BY <1>9
    <2> HIDE DEF t
    <2> QED BY <1>2, <1>6, <2>1, <2>2, HandleInv
  <1> QED BY <1>5, <1>7, <1>8, <1>9

(* A handler that waited for its block is woken.                           *)
LEMMA ResumeInv ==
  ASSUME Inv, NEW r \in Replica, NEW m \in rep[r].woken, Resume(r, m)
  PROVE  Inv'
  <1> DEFINE o == rep[r]
             s == [o EXCEPT !.woken = @ \ {m}]
             t == IF Needed(m) \in s.store THEN Apply(s, m) ELSE s
  <1>1. o \in State BY DEF Inv
  <1>2. /\ m \in Message /\ Sound(Cast, m)
        /\ m.type \in {"proposal", "newview"}
    BY <1>1 DEF State, Message, Inv, Good, MailSound
  <1>3. /\ s \in State /\ s.id = o.id /\ s.voted = o.voted
        /\ s.store = o.store /\ s.signs = o.signs /\ s.voteSet = o.voteSet
        /\ s.genericQC = o.genericQC /\ s.lockedQC = o.lockedQC /\ s.execQC = o.execQC
        /\ s.waiting = o.waiting /\ s.woken = o.woken \ {m} /\ s.sent = o.sent
        /\ s.executed = o.executed /\ s.leaf = o.leaf
    BY <1>1 DEF State
  <1>4. Step(r, t) BY DEF Resume
  <1> HIDE DEF s, o
  <1>5. ASSUME NEW W \in Ballots PROVE Keeps(W, o, s)
    BY <1>3 DEF Keeps, Typed, Good, VotesCast, HighStored, QcsBacked, StoreBacked,
                VotedBacked, MailSound, DecidedChained, LeafBacked
  <1>6. ASSUME NEW W \in Ballots, Sound(W, m) PROVE Outcome(W, s, t)
    BY <1>2, <1>3, <1>6, OutcomeApply, KeepsRefl, OutcomeKeeps
  <1> HIDE DEF t
  <1> QED BY <1>2, <1>4, <1>5, <1>6, HandleInv DEF o

(* The timer of a view runs out.                                           *)
LEMMA TimeoutInv ==
  ASSUME Inv, NEW r \in Replica, Timeout(r)
  PROVE  Inv'
  <1> DEFINE s == StopTimer(rep[r])
             t == OnNextSyncView(s)
  <1>1. rep[r] \in State BY DEF Inv
  <1>2. Keeps(Cast', rep[r], s) /\ s \in State
    BY <1>1, SmallSteps, KeepsAlike DEF Alike
  <1>3. rep' = [rep EXCEPT ![r] = t] BY DEF Timeout, Step
  <1> HIDE DEF s
  <1>4. Keeps(Cast', s, t) BY <1>2, KeepsNextSyncView
  <1> HIDE DEF t
  <1>5. Outcome(Cast', rep[r], t) BY <1>2, <1>4, KeepsTrans, OutcomeKeeps
  <1> QED BY <1>3, <1>5, StepInv

(* A replica is killed and started again: its votes, its messages and what *)
(* it executed stay.                                                       *)
LEMMA RestartInv ==
  ASSUME Inv, NEW r \in Replica, Restart(r)
  PROVE  Inv'
  <1> DEFINE o == rep[r]
             t == [Start(r) EXCEPT !.restarted = TRUE, !.seen = rep[r].seen,
                                   !.sent = rep[r].sent, !.voted = rep[r].voted,
                                   !.executed = rep[r].executed]
  <1>1. o \in State /\ o.id = r BY DEF Inv
  <1>2. rep' = [rep EXCEPT ![r] = t] BY DEF Restart
  <1>3. /\ t \in State /\ t.id = r /\ t.voted = o.voted
        /\ t.store = {Genesis}
        /\ t.signs = [b \in Block |-> {}] /\ t.voteSet = [b \in Block |-> {}]
        /\ t.genericQC = Genesis /\ t.lockedQC = Genesis /\ t.execQC = Genesis
        /\ t.waiting = {} /\ t.woken = {} /\ t.sent = o.sent /\ t.executed = o.executed
        /\ t.leaf = {}
    <2> DEFINE s == Start(r)
    <2>1. /\ o.seen \in SUBSET Message /\ o.sent \in SUBSET Message
          /\ o.voted \in SUBSET Block /\ o.executed \in SUBSET Block
      BY <1>1 DEF State
    <2>2. s \in State BY StartFacts
    <2> HIDE DEF o, s
    <2>3. t = [s EXCEPT !.restarted = TRUE, !.seen = o.seen, !.sent = o.sent,
                        !.voted = o.voted, !.executed = o.executed]
      BY DEF o, s
    <2> HIDE DEF t
    <2>4. /\ t \in State /\ t.id = s.id /\ t.voted = o.voted /\ t.store = s.store
          /\ t.signs = s.signs /\ t.voteSet = s.voteSet
          /\ t.genericQC = s.genericQC /\ t.lockedQC = s.lockedQC /\ t.execQC = s.execQC
          /\ t.waiting = s.waiting /\ t.woken = s.woken
          /\ t.sent = o.sent /\ t.executed = o.executed /\ t.leaf = s.leaf
      BY <2>1, <2>2, <2>3 DEF State
    <2> QED BY <2>4, StartFacts DEF s
  <1> HIDE DEF t, o
  <1>4. Keeps(Cast', o, t)
    BY <1>1, <1>3 DEF Keeps, Typed, Good, VotesCast, HighStored, QcsBacked, StoreBacked,
                VotedBacked, MailSound, DecidedChained, LeafBacked, Backed
  <1>5. Outcome(Cast', o, t) BY <1>4, OutcomeKeeps
  <1> QED BY <1>2, <1>5, StepInv DEF o

(* Every step keeps the invariant.                                         *)
LEMMA NextInv == Inv /\ [Next]_vars => Inv'
  <1> SUFFICES ASSUME Inv, [Next]_vars PROVE Inv'
    OBVIOUS
  <1>1. CASE Next
    <2>1. PICK r \in Replica :
             \/ OnBeat(r) \/ Timeout(r) \/ Restart(r)
             \/ \E q \in Replica : \E m \in rep[q].sent : m.to = r /\ Deliver(r, m)
             \/ \E m \in rep[r].woken : Resume(r, m)
             \/ \E b \in rep[r].leaf : CreateLeaf(r, b)
      BY <1>1 DEF Next
    <2>2. CASE OnBeat(r) BY <2>2, OnBeatInv
    <2>3. CASE Timeout(r) BY <2>3, TimeoutInv
    <2>4. CASE Restart(r) BY <2>4, RestartInv
    <2>5. CASE \E q \in Replica : \E m \in rep[q].sent : m.to = r /\ Deliver(r, m)
      BY <2>5, DeliverInv
    <2>6. CASE \E m \in rep[r].woken : Resume(r, m)
      BY <2>6, ResumeInv
    <2>7. CASE \E b \in rep[r].leaf : CreateLeaf(r, b)
      BY <2>7, CreateLeafInv
    <2> QED BY <2>1, <2>2, <2>3, <2>4, <2>5, <2>6, <2>7
  <1>2. CASE UNCHANGED vars
    BY <1>2 DEF vars, Inv, Cast, Voters
  <1> QED BY <1>1, <1>2

(* The invariant holds in every reachable state.                           *)
LEMMA InvHolds == Spec => []Inv
  BY InitInv, NextInv, PTL DEF Spec

-----------------------------------------------------------------------------
(* Theorems.                                                               *)

(* The state of every replica has its type after every handler.            *)
THEOREM TypeCorrect == Spec => []TypeOK
  <1>1. Inv => TypeOK BY DEF Inv, TypeOK
  <1> QED BY InvHolds, <1>1, PTL

(* In every state, a backed block is a certified one.                      *)
LEMMA BackedCertified == \A b \in Block : Backed(Cast, b) <=> Certified(b)
  BY DEF Backed, Certified, Cast, HasQuorum, QuorumSize

(* Whatever block a replica takes for the highest one, locks on or executes*)
(* to has N - F votes, for any number of replicas, any tree of blocks, any *)
(* order of the messages, and any restarts: OnProposalVote counts only     *)
(* votes that were cast, and a block that is stored or voted for has a QC. *)
THEOREM QcsAreBacked == Spec => []QcBacked
  <1>1. ASSUME Inv PROVE QcBacked
    <2>1. ASSUME NEW r \in Replica,
                 NEW b \in {rep[r].genericQC, rep[r].lockedQC, rep[r].execQC} \ {Genesis}
          PROVE  Cardinality(Voters(b)) >= N - F
      <3>1. rep[r] \in State /\ Good(Cast, rep[r]) BY <1>1 DEF Inv
      <3>2. b \in Block /\ Backed(Cast, b) BY <3>1 DEF State, Good, QcsBacked
      <3> QED BY <3>2, BackedCertified DEF Certified
    <2> QED BY <2>1 DEF QcBacked
  <1>2. Inv => QcBacked BY <1>1
  <1> QED BY InvHolds, <1>2, PTL

(* A block is executed only at or below the foot of three certified blocks,*)
(* each the parent and the justify of the next: the test of the DECIDE     *)
(* phase, for whatever leaves the proposers make with an older parent.     *)
THEOREM ExecutedThreeChain == Spec => []ThreeChainExecuted
  <1>1. ASSUME Inv PROVE ThreeChainExecuted
    <2>1. ASSUME NEW r \in Replica, NEW b \in rep[r].executed
          PROVE  \E c \in Block :
                    /\ Extends(Parent[Parent[c]], b)
                    /\ Link(c) /\ Link(Parent[c])
                    /\ Certified(c) /\ Certified(Parent[c])
                    /\ Certified(Parent[Parent[c]])
      <3>1. Chained(Cast, b) BY <1>1 DEF Inv, Good, DecidedChained, LeafBacked
      <3> QED BY <3>1, BackedCertified, TreeType DEF Chained
    <2> QED BY <2>1 DEF ThreeChainExecuted
  <1>2. Inv => ThreeChainExecuted BY <1>1
  <1> QED BY InvHolds, <1>2, PTL

(* The parents of a backed block are backed, down its branch: whoever voted*)
(* for a block had it from a proposer that held the QC of its parent.      *)
LEMMA BranchBacked ==
  ASSUME Inv, NEW b \in Block, Backed(Cast, b)
  PROVE  \A a \in Branch[b] : Backed(Cast, a)
  <1> DEFINE C == {c \in Block : Backed(Cast, c)}
  <1>1. ASSUME NEW c \in C, c # Genesis PROVE Parent[c] \in C
    <2>1. c \in Block /\ HasQuorum(Voters(c)) BY <1>1 DEF Backed, Cast
    <2>2. Voters(c) \in SUBSET Replica BY DEF Voters
    <2>3. Voters(c) # {} BY <2>1, <2>2, QuorumsIntersect
    <2>4. PICK r \in Replica : c \in rep[r].voted BY <2>3 DEF Voters
    <2>5. Backed(Cast, Parent[c]) BY <2>4 DEF Inv, Good, VotedBacked, Grounded
    <2> QED BY <2>1, <2>5, TreeType
  <1>2. b \in C OBVIOUS
  <1> HIDE DEF C
  <1>3. Branch[b] \subseteq C BY <1>1, <1>2, BranchClosed
  <1> QED BY <1>3 DEF C

(* Two backed blocks of one height are equal if nobody voted twice there.  *)
LEMMA OneBackedPerHeight ==
  ASSUME Inv, VotedOnce, NEW a \in Block, NEW b \in Block,
         Backed(Cast, a), Backed(Cast, b), Height[a] = Height[b]
  PROVE  a = b
  <1>1. CASE a = Genesis \/ b = Genesis BY <1>1, TreeAssumption
  <1>2. CASE a # Genesis /\ b # Genesis
    <2>1. HasQuorum(Voters(a)) /\ HasQuorum(Voters(b)) BY <1>2 DEF Backed, Cast
    <2>2. Voters(a) \in SUBSET Replica /\ Voters(b) \in SUBSET Replica BY DEF Voters
    <2>3. PICK r \in Replica : r \in Voters(a) /\ r \in Voters(b)
      BY <2>1, <2>2, QuorumsIntersect
    <2>4. a \in rep[r].voted /\ b \in rep[r].voted BY <2>3 DEF Voters
    <2> QED BY <2>4 DEF VotedOnce
  <1> QED BY <1>1, <1>2

(* Two backed blocks lie on one branch if nobody voted twice at a height.  *)
LEMMA BackedOneBranch ==
  ASSUME Inv, VotedOnce, NEW a \in Block, NEW b \in Block,
         Backed(Cast, a), Backed(Cast, b), Height[a] <= Height[b]
  PROVE  Extends(b, a)
  <1>1. Height[a] \in 0..Height[b] BY TreeType
  <1>2. PICK c \in Branch[b] : Height[c] = Height[a] BY <1>1, BranchHeights
  <1>3. c \in Block /\ Backed(Cast, c) BY BranchHeights, BranchBacked
  <1>4. c = a BY <1>2, <1>3, OneBackedPerHeight
  <1> QED BY <1>2, <1>4 DEF Extends

(* Agreement, as far as the code's voting rule carries: as long as nobody  *)
(* votes for two blocks of one height, all that replicas hold a QC for or  *)
(* execute lies on one branch, for any number of replicas with 3F < N.     *)
THEOREM OneBranch == Spec => []OneBranchIfVotedOnce
  <1>1. ASSUME Inv PROVE OneBranchIfVotedOnce
    <2> SUFFICES ASSUME VotedOnce, NEW q \in Replica, NEW r \in Replica,
                        NEW a \in Held(q), NEW b \in Held(r)
                 PROVE  Extends(a, b) \/ Extends(b, a)
      BY DEF OneBranchIfVotedOnce
    <2>1. ASSUME NEW p \in Replica, NEW x \in Held(p)
          PROVE  x \in Block /\ Backed(Cast, x)
      <3>1. rep[p] \in State /\ Good(Cast, rep[p]) BY <1>1 DEF Inv
      <3>2. CASE x \in {rep[p].genericQC, rep[p].lockedQC, rep[p].execQC}
        BY <3>1, <3>2 DEF State, Good, QcsBacked
      <3>3. CASE x \in rep[p].executed
        <4>1. x \in Block /\ Chained(Cast, x)
          BY <3>1, <3>3 DEF State, Good, DecidedChained, LeafBacked
        <4>2. PICK c \in Block : /\ Extends(Parent[Parent[c]], x)
                                 /\ Backed(Cast, Parent[Parent[c]])
          BY <4>1 DEF Chained
        <4>3. Parent[Parent[c]] \in Block BY TreeType
        <4> QED BY <1>1, <4>1, <4>2, <4>3, BranchBacked DEF Extends
      <3> QED BY <2>1, <3>2, <3>3 DEF Held
    <2>2. /\ a \in Block /\ Backed(Cast, a) /\ b \in Block /\ Backed(Cast, b)
          /\ Height[a] \in Nat /\ Height[b] \in Nat
      BY <2>1, TreeType
    <2>3. CASE Height[a] <= Height[b] BY <1>1, <2>2, <2>3, BackedOneBranch
    <2>4. CASE Height[b] <= Height[a] BY <1>1, <2>2, <2>4, BackedOneBranch
    <2> QED BY <2>2, <2>3, <2>4
  <1>2. Inv => OneBranchIfVotedOnce BY <1>1
  <1> QED BY InvHolds, <1>2, PTL
=============================================================================
