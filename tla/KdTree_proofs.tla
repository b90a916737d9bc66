----------------------------- MODULE KdTree_proofs -----------------------------
(***************************************************************************)
(* A kd-tree holds exactly the points put into it and not erased, and its  *)
(* queries find them, for any sizes, any points without ties, and any      *)
(* interleaving of the tasks of a bulk erase.                              *)
(*                                                                         *)
(* The argument is about the slices of the nodes, which no erase changes.  *)
(* A child's slice is a smaller part of its parent's, those of two         *)
(* children are apart, and what is present in a node is present in its     *)
(* children, whatever has been cut out.  Two calls of a bulk erase are     *)
(* apart, or one is below what the other has forked: so nobody touches     *)
(* what a call has returned.                                               *)
(***************************************************************************)
EXTENDS KdTree, Counting_proofs

\* No two points share a coordinate, in a tree that splits at the object median.
NoTies ==
  \A x \in DOMAIN Kinds :
    Kinds[x].median = "object" =>
      \A p, q \in Kinds[x].points : \A d \in Dims : p[d] = q[d] => p = q

-----------------------------------------------------------------------------
(* Sizes *)

LEMMA Pow2Grows ==
  \A j \in 0..LOG2_SIZE : \A i \in 0..LOG2_SIZE :
    /\ i <= j => Pow2[i] <= Pow2[j]
    /\ i < j => 2 * Pow2[i] <= Pow2[j]
<1> DEFINE N == {j \in Nat : j \in 0..LOG2_SIZE =>
                   \A i \in 0..LOG2_SIZE :
                     /\ i <= j => Pow2[i] <= Pow2[j]
                     /\ i < j => 2 * Pow2[i] <= Pow2[j]}
<1>1. 0 \in N
  BY Pow2Assumption
<1>2. ASSUME NEW j \in Nat, j \in N, j + 1 \in 0..LOG2_SIZE, NEW i \in 0..LOG2_SIZE
      PROVE  /\ i <= j + 1 => Pow2[i] <= Pow2[j + 1]
             /\ i < j + 1 => 2 * Pow2[i] <= Pow2[j + 1]
  <2>1. Pow2[j + 1] = 2 * Pow2[j] /\ Pow2[j] \in Nat \ {0} /\ Pow2[i] \in Nat \ {0}
    BY <1>2, Pow2Assumption
  <2>2. i <= j => Pow2[i] <= Pow2[j]
    BY <1>2, Pow2Assumption
  <2> QED
    BY <2>1, <2>2, <1>2
<1>3. ASSUME NEW j \in Nat, j \in N  PROVE j + 1 \in N
  BY <1>2, <1>3
<1>4. Nat \subseteq N
  <2> HIDE DEF N
  <2> QED
    BY <1>1, <1>3, NatSetInduction
<1> QED
  BY <1>4, Pow2Assumption

LEMMA IdsAre ==
  /\ NodeIds \subseteq Nat /\ 0 \in NodeIds /\ IsFiniteSet(NodeIds)
  /\ NULL \in Int /\ NULL \notin NodeIds
  /\ Positions \subseteq Nat /\ IsFiniteSet(Positions)
<1>1. Pow2[LOG2_SIZE] \in Nat \ {0}
  BY Pow2Assumption
<1>2. /\ 2 * Pow2[LOG2_SIZE] - 2 \in Nat /\ Pow2[LOG2_SIZE] - 1 \in Nat
  BY <1>1
<1>3. \A n \in Nat : 0..n \subseteq Nat /\ 0 \in 0..n /\ IsFiniteSet(0..n) /\ -1 \notin 0..n
  BY FS_Interval
<1> QED
  BY <1>2, <1>3 DEF NodeIds, NULL, Positions

SizesAre ==
  /\ use \in {"static", "buffer", "alone"} /\ median \in {"object", "spatial"}
  /\ leaf_size \in Nat \ {0}
  /\ max_size \in Nat \ {0} /\ max_size <= Pow2[LOG2_SIZE]
  /\ \A s \in Nat : s <= max_size => s \div 2 <= max_size \div 2 /\ s - s \div 2 <= (max_size + 1) \div 2
  /\ max_size = 1 \/ max_size % 2 = 0
  /\ IsFiniteSet(Points)
  /\ \A p \in Points : p \in [Dims -> Int] /\ \A d \in Dims : p[d] % 2 = 0

LEMMA SizesHold ==
  ASSUME kind \in DOMAIN Kinds
  PROVE  SizesAre
<1> DEFINE K == Kinds[kind]
           l == K.log2size
<1>1. l \in 0..LOG2_SIZE /\ LOG2_SIZE \in Nat
  BY KindsAssumption, Pow2Assumption
<1>2. max_size = Pow2[l]
  BY DEF max_size
<1>3. Pow2[l] \in Nat \ {0} /\ Pow2[l] <= Pow2[LOG2_SIZE]
  <2> HIDE DEF l
  <2> QED
    BY <1>1, Pow2Assumption, Pow2Grows
<1>4. Pow2[l] = 1 \/ Pow2[l] % 2 = 0
  <2> HIDE DEF l
  <2>1. CASE l = 0
    BY <2>1, Pow2Assumption
  <2>2. CASE l # 0
    <3>1. Pow2[l] = 2 * Pow2[l - 1] /\ Pow2[l - 1] \in Nat
      <4>1. l - 1 \in 0..(LOG2_SIZE - 1) /\ (l - 1) + 1 = l /\ l - 1 \in 0..LOG2_SIZE
        BY <1>1, <2>2
      <4> QED
        BY <4>1, Pow2Assumption
    <3> QED
      BY <3>1
  <2> QED
    BY <2>1, <2>2
<1>5. /\ use \in {"static", "buffer", "alone"} /\ median \in {"object", "spatial"}
      /\ leaf_size \in Nat \ {0} /\ IsFiniteSet(Points)
      /\ \A p \in Points : p \in [Dims -> Int] /\ \A d \in Dims : p[d] % 2 = 0
  BY KindsAssumption DEF use, median, leaf_size, Points
<1>6. max_size \in Nat \ {0} /\ max_size <= Pow2[LOG2_SIZE] /\ (max_size = 1 \/ max_size % 2 = 0)
  BY <1>2, <1>3, <1>4, Zenon
<1>7. \A s \in Nat : s <= max_size => s \div 2 <= max_size \div 2 /\ s - s \div 2 <= (max_size + 1) \div 2
  <2>1. \A m \in Nat, s \in Nat : s <= m => s \div 2 <= m \div 2 /\ s - s \div 2 <= (m + 1) \div 2
    OBVIOUS
  <2> QED
    BY <1>6, <2>1
<1> QED
  BY <1>5, <1>6, <1>7 DEF SizesAre

\* The tree stays of the same kind.
SameKind ==
  /\ kind' = kind
  /\ use' = use /\ LOG_TREE' = LOG_TREE /\ median' = median
  /\ leaf_size' = leaf_size /\ max_size' = max_size /\ Points' = Points

LEMMA KindStays ==
  ASSUME kind' = kind
  PROVE  SameKind
BY DEF SameKind, use, LOG_TREE, median, leaf_size, max_size, Points

-----------------------------------------------------------------------------
(* Boxes and splits *)

Boxes == [min : [Dims -> Int], max : [Dims -> Int]]

\* Points as they are given to a build
Given(S) ==
  /\ IsFiniteSet(S)
  /\ \A p \in S : p \in [Dims -> Int] /\ \A d \in Dims : p[d] % 2 = 0
  /\ median \in {"object", "spatial"}
  /\ median = "object" => \A p, q \in S : \A d \in Dims : p[d] = q[d] => p = q

LEMMA GivenPart ==
  ASSUME NEW S, Given(S), NEW T \in SUBSET S
  PROVE  Given(T)
BY FS_Subset DEF Given

LEMMA BoxIs ==
  ASSUME NEW S, IsFiniteSet(S), S # {}, \A p \in S : p \in [Dims -> Int]
  PROVE  BoxOf(S) \in Boxes /\ \A p \in S : InBox(BoxOf(S), p)
<1>1. ASSUME NEW d \in Dims
      PROVE  /\ Min({p[d] : p \in S}) \in Int /\ Max({p[d] : p \in S}) \in Int
             /\ \A p \in S : Min({r[d] : r \in S}) <= p[d] /\ p[d] <= Max({r[d] : r \in S})
  <2> DEFINE C == {p[d] : p \in S}
  <2>1. C \in SUBSET Int /\ IsFiniteSet(C) /\ C # {}
    <3>1. \A p \in S : p[d] \in Int
      OBVIOUS
    <3> QED
      BY <3>1, CoordinatesAre
  <2>2. \A p \in S : p[d] \in C
    OBVIOUS
  <2>3. /\ Min(C) \in C /\ \A y \in C : Min(C) <= y
        /\ Max(C) \in C /\ \A y \in C : Max(C) >= y
    <3> HIDE DEF C
    <3> QED
      BY <2>1, MinIs, MaxIs
  <2> HIDE DEF C
  <2>4. /\ Min(C) \in Int /\ Max(C) \in Int
        /\ \A p \in S : Min(C) <= p[d] /\ p[d] <= Max(C)
    BY <2>1, <2>2, <2>3
  <2> QED
    BY <2>4 DEF C
<1> DEFINE low == [d \in Dims |-> Min({p[d] : p \in S})]
           high == [d \in Dims |-> Max({p[d] : p \in S})]
<1>2. BoxOf(S) = [min |-> low, max |-> high]
  BY DEF BoxOf
<1>3. low \in [Dims -> Int] /\ high \in [Dims -> Int]
  BY <1>1
<1>4. \A p \in S : \A d \in Dims : low[d] <= p[d] /\ p[d] <= high[d]
  BY <1>1
<1> HIDE DEF low, high
<1> QED
  BY <1>2, <1>3, <1>4 DEF Boxes, InBox

\* The two parts of S, none of them empty
Halves(S, L) ==
  /\ L \in SUBSET S /\ S \ L \in SUBSET S /\ L # {} /\ S \ L # {}
  /\ Cardinality(L) \in Nat /\ Cardinality(S \ L) \in Nat
  /\ Cardinality(L) > 0 /\ Cardinality(S \ L) > 0
  /\ Cardinality(L) + Cardinality(S \ L) = Cardinality(S)

ByObject(S, d, L) ==
  Cardinality(L) = Cardinality(S) \div 2 /\ \A p \in L, q \in S \ L : p[d] <= q[d]

BySpace(S, d, L) ==
  LET C == {p[d] : p \in S}
  IN  /\ L = {p \in S : 2 * p[d] < Min(C) + Max(C)}
      /\ \E q \in S \ L : q[d] = Max(C)
      /\ \E q \in L : q[d] = Min(C)

LEMMA PartsAre ==
  ASSUME NEW S, Given(S), Cardinality(S) > 1, NEW d \in Dims, NEW L \in LeftParts(S, d)
  PROVE  /\ Halves(S, L)
         /\ median = "object" => ByObject(S, d, L)
         /\ median = "spatial" => BySpace(S, d, L)
<1> DEFINE C == {p[d] : p \in S}
<1>1. /\ IsFiniteSet(S) /\ \A p \in S : p[d] \in Int
      /\ median \in {"object", "spatial"}
  BY DEF Given
<1>2. Cardinality(S) \in Nat /\ S # {}
  BY <1>1, FS_CardinalityType, FS_EmptySet
<1>3. C \in SUBSET Int /\ IsFiniteSet(C) /\ C # {}
  BY <1>1, <1>2, CoordinatesAre
<1>4. /\ Min(C) \in C /\ \A y \in C : Min(C) <= y
      /\ Max(C) \in C /\ \A y \in C : Max(C) >= y
  <2> HIDE DEF C
  <2> QED
    BY <1>3, MinIs, MaxIs
<1>5. PICK least \in S : least[d] = Min(C)
  BY <1>4
<1>6. PICK greatest \in S : greatest[d] = Max(C)
  BY <1>4
<1>7. Min(C) \in Int /\ Max(C) \in Int /\ Min(C) <= Max(C)
  <2> HIDE DEF C
  <2> QED
    BY <1>3, <1>4
<1>8. \A T \in SUBSET S : /\ IsFiniteSet(T) /\ Cardinality(T) \in Nat
                          /\ Cardinality(T) = 0 <=> T = {}
                          /\ Cardinality(T) + Cardinality(S \ T) = Cardinality(S)
  <2> SUFFICES ASSUME NEW T \in SUBSET S
               PROVE  /\ IsFiniteSet(T) /\ Cardinality(T) \in Nat
                      /\ Cardinality(T) = 0 <=> T = {}
                      /\ Cardinality(T) + Cardinality(S \ T) = Cardinality(S)
    OBVIOUS
  <2>1. IsFiniteSet(T) /\ IsFiniteSet(S \ T)
    BY <1>1, FS_Subset
  <2>2. T \cap (S \ T) = {} /\ T \cup (S \ T) = S
    OBVIOUS
  <2> QED
    BY <2>1, <2>2, DisjointSize, FS_CardinalityType, FS_EmptySet
<1>11. \A T \in SUBSET S : T # {} /\ S \ T # {} =>
         /\ Cardinality(T) \in Nat /\ Cardinality(S \ T) \in Nat
         /\ Cardinality(T) > 0 /\ Cardinality(S \ T) > 0
         /\ Cardinality(T) + Cardinality(S \ T) = Cardinality(S)
  <2> SUFFICES ASSUME NEW T \in SUBSET S, T # {}, S \ T # {}
               PROVE  /\ Cardinality(T) \in Nat /\ Cardinality(S \ T) \in Nat
                      /\ Cardinality(T) > 0 /\ Cardinality(S \ T) > 0
                      /\ Cardinality(T) + Cardinality(S \ T) = Cardinality(S)
    OBVIOUS
  <2>1. S \ T \in SUBSET S
    OBVIOUS
  <2>2. /\ Cardinality(T) \in Nat /\ Cardinality(T) # 0
        /\ Cardinality(S \ T) \in Nat /\ Cardinality(S \ T) # 0
        /\ Cardinality(T) + Cardinality(S \ T) = Cardinality(S)
    BY <2>1, <1>8, Zenon
  <2> QED
    BY <2>2
<1>9. CASE median = "spatial"
  <2>1. L = {p \in S : 2 * p[d] < Min(C) + Max(C)} /\ L # {}
    BY <1>9 DEF LeftParts
  <2>2. greatest \in S \ L
    <3>1. ~(2 * Max(C) < Min(C) + Max(C))
      <4> HIDE DEF C
      <4> QED
        BY <1>7
    <3> QED
      BY <1>6, <2>1, <3>1
  <2>3. least \in L
    <3>1. PICK p \in L : 2 * p[d] < Min(C) + Max(C)
      BY <2>1
    <3>2. p[d] \in C /\ p[d] \in Int
      BY <2>1, <3>1, <1>1
    <3>3. 2 * Min(C) < Min(C) + Max(C)
      <4> HIDE DEF C
      <4> QED
        BY <3>1, <3>2, <1>4, <1>7
    <3> QED
      BY <2>1, <3>3, <1>5
  <2>4. L \in SUBSET S /\ L # {} /\ S \ L # {}
    BY <2>1, <2>2
  <2>5. /\ \E q \in S \ L : q[d] = Max(C)
        /\ \E q \in L : q[d] = Min(C)
    BY <2>2, <2>3, <1>5, <1>6
  <2> QED
    BY <2>1, <2>4, <2>5, <1>9, <1>11 DEF Halves, BySpace
<1>10. CASE median = "object"
  <2>1. L \in SUBSET S /\ Cardinality(L) = Cardinality(S) \div 2
        /\ \A p \in L, q \in S \ L : p[d] <= q[d]
    BY <1>10 DEF LeftParts, kSubset
  <2>2. Cardinality(L) > 0 /\ Cardinality(L) < Cardinality(S)
    BY <2>1, <1>2
  <2>3. L # {} /\ S \ L # {}
    <3>1. Cardinality(L) # 0 /\ Cardinality(S \ L) # 0
      BY <2>1, <2>2, <1>2, <1>8
    <3> QED
      BY <2>1, <3>1, <1>8
  <2> QED
    BY <2>1, <2>3, <1>10, <1>11 DEF Halves, ByObject
<1> QED
  BY <1>1, <1>9, <1>10

\* What is left of the split value is on the left, and nothing else is.
LEMMA SplitIs ==
  ASSUME NEW S, Given(S), Cardinality(S) > 1, NEW d \in Dims, NEW L \in LeftParts(S, d)
  PROVE  /\ SplitValue(L, S \ L, d) \in Int
         /\ \A p \in L : p[d] < SplitValue(L, S \ L, d)
         /\ \A p \in S \ L : ~(p[d] < SplitValue(L, S \ L, d))
<1> DEFINE OfLeft == {p[d] : p \in L}
           OfRight == {p[d] : p \in S \ L}
           C == {p[d] : p \in S}
<1>1. /\ \A p \in S : p[d] \in Int /\ p[d] % 2 = 0
      /\ median \in {"object", "spatial"}
      /\ median = "object" => \A p, q \in S : p[d] = q[d] => p = q
  BY DEF Given
<1>2. L \in SUBSET S /\ S \ L \in SUBSET S /\ L # {} /\ S \ L # {} /\ S # {}
  <2>1. L \in SUBSET S /\ S \ L \in SUBSET S /\ L # {} /\ S \ L # {}
    <3>1. Halves(S, L)
      BY PartsAre
    <3> QED
      BY <3>1 DEF Halves
  <2> QED
    BY <2>1
<1>3. IsFiniteSet(L) /\ IsFiniteSet(S \ L) /\ IsFiniteSet(S)
  BY <1>2, FS_Subset DEF Given
<1>4. /\ OfLeft \in SUBSET Int /\ IsFiniteSet(OfLeft) /\ OfLeft # {}
      /\ OfRight \in SUBSET Int /\ IsFiniteSet(OfRight) /\ OfRight # {}
      /\ C \in SUBSET Int /\ IsFiniteSet(C) /\ C # {}
  <2>1. \A T \in SUBSET S : \A p \in T : p[d] \in Int
    BY <1>1
  <2> QED
    BY <1>2, <1>3, <2>1, CoordinatesAre
<1>5. /\ Min(OfLeft) \in OfLeft /\ \A y \in OfLeft : Min(OfLeft) <= y
      /\ Max(OfLeft) \in OfLeft /\ \A y \in OfLeft : Max(OfLeft) >= y
      /\ Min(OfRight) \in OfRight /\ \A y \in OfRight : Min(OfRight) <= y
      /\ Max(OfRight) \in OfRight /\ \A y \in OfRight : Max(OfRight) >= y
      /\ Min(C) \in C /\ \A y \in C : Min(C) <= y
      /\ Max(C) \in C /\ \A y \in C : Max(C) >= y
  <2> HIDE DEF OfLeft, OfRight, C
  <2> QED
    BY <1>4, MinIs, MaxIs
<1>6. /\ \A p \in L : p[d] \in OfLeft
      /\ \A p \in S \ L : p[d] \in OfRight
      /\ OfLeft \subseteq C /\ OfRight \subseteq C
      /\ \A y \in OfLeft : \E p \in L : y = p[d]
      /\ \A y \in OfRight : \E p \in S \ L : y = p[d]
  BY <1>2
<1>7. \A y \in C : y \in Int /\ y % 2 = 0
  BY <1>1
<1>8. CASE median = "spatial"
  <2>1. SplitValue(L, S \ L, d) = (Min(OfLeft) + Max(OfRight)) \div 2
    BY <1>8 DEF SplitValue
  <2>2. /\ L = {p \in S : 2 * p[d] < Min(C) + Max(C)}
        /\ Max(C) \in OfRight /\ Min(C) \in OfLeft
    <3>1. /\ L = {p \in S : 2 * p[d] < Min(C) + Max(C)}
          /\ \E q \in S \ L : q[d] = Max(C)
          /\ \E q \in L : q[d] = Min(C)
      <4>1. BySpace(S, d, L)
        BY <1>8, PartsAre
      <4> QED
        BY <4>1 DEF BySpace
    <3> QED
      BY <3>1
  <2>3. \A p \in S : p[d] \in C
    OBVIOUS
  <2> HIDE DEF OfLeft, OfRight, C
  <2>4. Min(OfLeft) = Min(C) /\ Max(OfRight) = Max(C)
    <3>1. \A x, y \in Int : x <= y /\ y <= x => x = y
      OBVIOUS
    <3>2. /\ Min(OfLeft) \in Int /\ Min(C) \in Int /\ Min(OfLeft) \in C
          /\ Max(OfRight) \in Int /\ Max(C) \in Int /\ Max(OfRight) \in C
      BY <1>4, <1>5, <1>6
    <3>3. Min(OfLeft) <= Min(C) /\ Min(C) <= Min(OfLeft)
      BY <1>5, <2>2, <3>2
    <3>4. Max(OfRight) >= Max(C) /\ Max(C) >= Max(OfRight)
      BY <1>5, <2>2, <3>2
    <3> QED
      BY <3>2, <3>3, <3>4
  <2>5. /\ Min(C) \in Int /\ Min(C) % 2 = 0 /\ Max(C) \in Int /\ Max(C) % 2 = 0
    BY <1>5, <1>7
  <2>6. \A lo, hi, y \in Int : lo % 2 = 0 /\ hi % 2 = 0 =>
          (lo + hi) \div 2 \in Int /\ (y < (lo + hi) \div 2 <=> 2 * y < lo + hi)
    OBVIOUS
  <2>7. /\ (Min(C) + Max(C)) \div 2 \in Int
        /\ \A p \in S : p[d] < (Min(C) + Max(C)) \div 2 <=> 2 * p[d] < Min(C) + Max(C)
    BY <2>5, <2>6, <1>1
  <2> QED
    BY <2>1, <2>2, <2>4, <2>7
<1>9. CASE median = "object"
  <2>1. \A p \in L, q \in S \ L : p[d] < q[d]
    <3> SUFFICES ASSUME NEW p \in L, NEW q \in S \ L
                 PROVE  p[d] < q[d]
      OBVIOUS
    <3>1. p[d] <= q[d]
      <4>1. ByObject(S, d, L)
        BY <1>9, PartsAre
      <4> QED
        BY <4>1 DEF ByObject
    <3>2. p # q /\ p \in S /\ q \in S
      BY <1>2
    <3>3. p[d] # q[d]
      BY <1>1, <1>9, <3>2
    <3> QED
      BY <1>1, <3>1, <3>2, <3>3
  <2>2. SplitValue(L, S \ L, d) \in {Min(OfRight), (Max(OfLeft) + Min(OfRight)) \div 2}
    BY <1>9 DEF SplitValue
  <2>3. \A p \in L : p[d] \in Int /\ p[d] <= Max(OfLeft)
    BY <1>1, <1>2, <1>5, <1>6
  <2>4. \A q \in S \ L : q[d] \in Int /\ Min(OfRight) <= q[d]
    BY <1>1, <1>2, <1>5, <1>6
  <2> HIDE DEF OfLeft, OfRight, C
  <2>5. Max(OfLeft) < Min(OfRight)
    BY <1>5, <1>6, <2>1
  <2>6. /\ Max(OfLeft) \in Int /\ Max(OfLeft) % 2 = 0
        /\ Min(OfRight) \in Int /\ Min(OfRight) % 2 = 0
    BY <1>5, <1>6, <1>7
  <2>7. \A lo, hi \in Int : lo % 2 = 0 /\ hi % 2 = 0 /\ lo < hi =>
          (lo + hi) \div 2 \in Int /\ lo < (lo + hi) \div 2 /\ (lo + hi) \div 2 <= hi
    OBVIOUS
  <2>8. PICK v : v = SplitValue(L, S \ L, d)
    OBVIOUS
  <2>9. v \in Int /\ Max(OfLeft) < v /\ v <= Min(OfRight)
    BY <2>2, <2>5, <2>6, <2>7, <2>8
  <2>10. \A p \in L : p[d] < v
    BY <2>3, <2>6, <2>9
  <2>11. \A p \in S \ L : ~(p[d] < v)
    BY <2>4, <2>6, <2>9
  <2> QED
    BY <2>8, <2>9, <2>10, <2>11
<1> QED
  BY <1>1, <1>8, <1>9

-----------------------------------------------------------------------------
(* The build is a function that satisfies its equation. *)

BuildGraph(built, set) ==
  built = [S \in SUBSET set |-> [at \in Places |-> BuildKdtRecursive(built, S, at)]]

LEMMA BuildIsChosen ==
  ASSUME NEW set
  PROVE  Builds(set) = (CHOOSE built : BuildGraph(built, set))[set][[n |-> 0, first |-> 0, d |-> 1]]
BY DEF Builds, BuildGraph

LEMMA BuildAgrees ==
  ASSUME NEW S, Given(S), SizesAre, NEW at \in Places, NEW f, NEW g,
         \A T \in SUBSET S : Cardinality(T) < Cardinality(S) => f[T] = g[T]
  PROVE  BuildKdtRecursive(f, S, at) = BuildKdtRecursive(g, S, at)
<1>1. CASE Cardinality(S) <= leaf_size
  BY <1>1 DEF BuildKdtRecursive
<1>2. CASE ~(Cardinality(S) <= leaf_size)
  <2>1. Cardinality(S) > 1 /\ at.d \in Dims
    <3>1. Cardinality(S) \in Nat
      BY FS_CardinalityType DEF Given
    <3> QED
      BY <1>2, <3>1 DEF SizesAre, Places
  <2>2. \A L \in LeftParts(S, at.d) : f[L] = g[L] /\ f[S \ L] = g[S \ L]
    <3> SUFFICES ASSUME NEW L \in LeftParts(S, at.d)
                 PROVE  f[L] = g[L] /\ f[S \ L] = g[S \ L]
      OBVIOUS
    <3>1. /\ L \in SUBSET S /\ S \ L \in SUBSET S
          /\ Cardinality(L) \in Nat /\ Cardinality(S \ L) \in Nat
          /\ Cardinality(L) > 0 /\ Cardinality(S \ L) > 0
          /\ Cardinality(L) + Cardinality(S \ L) = Cardinality(S)
      <4>1. Halves(S, L)
        BY <2>1, PartsAre
      <4> QED
        BY <4>1 DEF Halves
    <3>2. Cardinality(L) < Cardinality(S) /\ Cardinality(S \ L) < Cardinality(S)
      BY <3>1
    <3> QED
      BY <3>1, <3>2
  <2> DEFINE Made(h, L) == BuiltInners(S, L, at, h[L][LeftPlace(at, L)], h[S \ L][RightPlace(at, L)])
  <2>3. \A L \in LeftParts(S, at.d) : Made(f, L) = Made(g, L)
    BY <2>2
  <2>4. \A h : BuildKdtRecursive(h, S, at) = UNION {Made(h, L) : L \in LeftParts(S, at.d)}
    BY <1>2 DEF BuildKdtRecursive
  <2> HIDE DEF Made
  <2>5. {Made(f, L) : L \in LeftParts(S, at.d)} = {Made(g, L) : L \in LeftParts(S, at.d)}
    BY <2>3
  <2> QED
    BY <2>4, <2>5
<1> QED
  BY <1>1, <1>2

LEMMA BuildExists ==
  ASSUME NEW set, Given(set), SizesAre
  PROVE  \E built : BuildGraph(built, set)
<1> DEFINE Made(f, S) == [at \in Places |-> BuildKdtRecursive(f, S, at)]
           Upto(f, n) == \A S \in SUBSET set : Cardinality(S) < n => f[S] = Made(f, S)
           N == {n \in Nat : \E f : Upto(f, n)}
<1>1. \A S \in SUBSET set : Given(S) /\ Cardinality(S) \in Nat /\ Cardinality(S) <= Cardinality(set)
  BY GivenPart, FS_Subset, FS_CardinalityType DEF Given
<1>2. ASSUME NEW S \in SUBSET set, NEW f, NEW g,
             \A T \in SUBSET S : Cardinality(T) < Cardinality(S) => f[T] = g[T]
      PROVE  Made(f, S) = Made(g, S)
  <2>1. \A at \in Places : BuildKdtRecursive(f, S, at) = BuildKdtRecursive(g, S, at)
    <3> HIDE DEF Made
    <3> QED
      BY <1>1, <1>2, BuildAgrees
  <2> QED
    BY <2>1
<1> HIDE DEF Made
<1>3. 0 \in N
  BY <1>1
<1>4. ASSUME NEW n \in Nat, n \in N  PROVE n + 1 \in N
  <2>1. PICK f : Upto(f, n)
    BY <1>4
  <2> DEFINE h == [S \in SUBSET set |-> Made(f, S)]
  <2> HIDE DEF Upto
  <2>2. ASSUME NEW S \in SUBSET set, Cardinality(S) < n + 1  PROVE h[S] = Made(h, S)
    <3>1. ASSUME NEW T \in SUBSET S, Cardinality(T) < Cardinality(S)  PROVE f[T] = h[T]
      <4>1. T \in SUBSET set /\ Cardinality(T) < n
        BY <1>1, <2>2, <3>1
      <4> QED
        BY <2>1, <4>1 DEF Upto
    <3>2. Made(f, S) = Made(h, S)
      <4> HIDE DEF h
      <4> QED
        BY <3>1, <1>2
    <3> QED
      BY <3>2
  <2>3. Upto(h, n + 1)
    <3> HIDE DEF h
    <3> QED
      BY <2>2 DEF Upto
  <2> HIDE DEF h
  <2> QED
    BY <2>3
<1>5. PICK f : Upto(f, Cardinality(set) + 1)
  <2>1. Nat \subseteq N
    <3> HIDE DEF N
    <3> QED
      BY <1>3, <1>4, NatSetInduction
  <2>2. Cardinality(set) + 1 \in Nat
    BY <1>1
  <2> QED
    BY <2>1, <2>2
<1> DEFINE g == [S \in SUBSET set |-> f[S]]
<1>6. \A S \in SUBSET set : g[S] = f[S] /\ f[S] = Made(f, S)
  BY <1>1, <1>5
<1>7. ASSUME NEW S \in SUBSET set  PROVE f[S] = Made(g, S)
  <2>1. \A T \in SUBSET S : f[T] = g[T]
    BY <1>6
  <2>2. Made(f, S) = Made(g, S)
    <3> HIDE DEF g
    <3> QED
      BY <1>2, <2>1
  <2> QED
    BY <1>6, <2>2, Zenon
<1>8. g = [S \in SUBSET set |-> Made(g, S)]
  <2>1. g = [S \in SUBSET set |-> f[S]]
    OBVIOUS
  <2> HIDE DEF g
  <2> QED
    BY <1>7, <2>1
<1> QED
  <2> HIDE DEF g
  <2> QED
    BY <1>8 DEF BuildGraph, Made

LEMMA BuiltIs ==
  ASSUME NEW set, Given(set), SizesAre
  PROVE  \E built :
           /\ Builds(set) = built[set][[n |-> 0, first |-> 0, d |-> 1]]
           /\ \A S \in SUBSET set : \A at \in Places :
                built[S][at] = BuildKdtRecursive(built, S, at)
<1> DEFINE built == CHOOSE b : BuildGraph(b, set)
<1>1. BuildGraph(built, set)
  BY BuildExists
<1>2. Builds(set) = built[set][[n |-> 0, first |-> 0, d |-> 1]]
  BY BuildIsChosen
<1>3. ASSUME NEW S \in SUBSET set, NEW at \in Places
      PROVE  built[S][at] = BuildKdtRecursive(built, S, at)
  <2>1. PICK b : b = built
    OBVIOUS
  <2>2. b = [T \in SUBSET set |-> [x \in Places |-> BuildKdtRecursive(b, T, x)]]
    BY <1>1, <2>1 DEF BuildGraph
  <2>3. b[S] = [x \in Places |-> BuildKdtRecursive(b, S, x)]
    BY <2>2
  <2>4. b[S][at] = BuildKdtRecursive(b, S, at)
    BY <2>3
  <2> QED
    BY <2>1, <2>4, Zenon
<1> QED
  BY <1>2, <1>3, Zenon

-----------------------------------------------------------------------------
(* The nodes of a subtree *)

\* The ids below the node n of a subtree over s items: in a heap, on h levels
IdsOf(n, s, h) ==
  IF median = "spatial"
    THEN n..(n + 2 * s - 2)
    ELSE {i \in Nat : \E k \in 0..h :
            (n + 1) * Pow2[k] <= i + 1 /\ i + 1 < (n + 2) * Pow2[k]}

\* They are nodes of the tree.
HasRoom(n, s, h) ==
  IF median = "spatial"
    THEN n + 2 * s <= 2 * max_size
    ELSE s <= Pow2[h] /\ (n + 2) * Pow2[h] <= 2 * max_size

LEMMA IdsFit ==
  ASSUME SizesAre, NEW n \in Nat, NEW s \in Nat \ {0}, NEW h \in 0..LOG2_SIZE, HasRoom(n, s, h)
  PROVE  n \in IdsOf(n, s, h) /\ IdsOf(n, s, h) \subseteq NodeIds
<1>1. max_size \in Nat \ {0} /\ max_size <= Pow2[LOG2_SIZE] /\ Pow2[LOG2_SIZE] \in Nat
  BY Pow2Assumption DEF SizesAre
<1>2. CASE median = "spatial"
  <2>1. n + 2 * s <= 2 * max_size
    BY <1>2 DEF HasRoom
  <2> QED
    BY <1>1, <1>2, <2>1 DEF IdsOf, NodeIds
<1>3. CASE median # "spatial"
  <2>1. (n + 2) * Pow2[h] <= 2 * max_size
    BY <1>3 DEF HasRoom
  <2>2. 0 \in 0..h /\ Pow2[0] = 1
    BY Pow2Assumption
  <2>3. n \in IdsOf(n, s, h)
    BY <1>3, <2>2 DEF IdsOf
  <2>4. ASSUME NEW i \in Nat, NEW k \in 0..h, i + 1 < (n + 2) * Pow2[k]
        PROVE  i \in NodeIds
    <3>1. k \in 0..LOG2_SIZE /\ Pow2[k] \in Nat /\ Pow2[h] \in Nat /\ Pow2[k] <= Pow2[h]
      BY Pow2Assumption, Pow2Grows
    <3>2. (n + 2) * Pow2[k] <= (n + 2) * Pow2[h]
      <4>1. \A a, x, y \in Nat : x <= y => a * x <= a * y
        OBVIOUS
      <4> QED
        BY <3>1, <4>1
    <3>3. PICK y \in Nat : y = (n + 2) * Pow2[k]
      BY <3>1
    <3>4. PICK z \in Nat : z = (n + 2) * Pow2[h]
      BY <3>1
    <3>5. i + 1 < 2 * max_size
      BY <1>1, <2>1, <2>4, <3>2, <3>3, <3>4
    <3> QED
      BY <1>1, <3>5 DEF NodeIds
  <2> QED
    BY <1>3, <2>3, <2>4 DEF IdsOf
<1> QED
  BY <1>2, <1>3

\* The node n keeps the subtrees at nl and nr apart, over l and r items.
KeepsApart(n, s, h, nl, l, nr, r, g) ==
  /\ HasRoom(nl, l, g) /\ HasRoom(nr, r, g)
  /\ IdsOf(nl, l, g) \subseteq IdsOf(n, s, h) /\ IdsOf(nr, r, g) \subseteq IdsOf(n, s, h)
  /\ n \notin IdsOf(nl, l, g) /\ n \notin IdsOf(nr, r, g)
  /\ IdsOf(nl, l, g) \cap IdsOf(nr, r, g) = {}

LEMMA IdsSplitSpatial ==
  ASSUME SizesAre, median = "spatial", NEW n \in Nat, NEW l \in Nat \ {0}, NEW r \in Nat \ {0},
         NEW h \in 0..LOG2_SIZE, HasRoom(n, l + r, h)
  PROVE  KeepsApart(n, l + r, h, n + 1, l, n + 2 * l, r, h)
<1>1. max_size \in Nat /\ n + 2 * (l + r) <= 2 * max_size
  BY DEF HasRoom, SizesAre
<1>2. /\ (n + 1) + 2 * l <= 2 * max_size /\ (n + 2 * l) + 2 * r <= 2 * max_size
  BY <1>1
<1>3. /\ (n + 1)..((n + 1) + 2 * l - 2) \subseteq n..(n + 2 * (l + r) - 2)
      /\ (n + 2 * l)..((n + 2 * l) + 2 * r - 2) \subseteq n..(n + 2 * (l + r) - 2)
      /\ n \notin (n + 1)..((n + 1) + 2 * l - 2) /\ n \notin (n + 2 * l)..((n + 2 * l) + 2 * r - 2)
      /\ (n + 1)..((n + 1) + 2 * l - 2) \cap (n + 2 * l)..((n + 2 * l) + 2 * r - 2) = {}
  OBVIOUS
<1> QED
  BY <1>2, <1>3 DEF KeepsApart, IdsOf, HasRoom

LEMMA Products ==
  /\ \A a, x, y \in Nat : x <= y => a * x <= a * y
  /\ \A n, p \in Nat : /\ (2 * n + 1 + 1) * p = (n + 1) * (2 * p)
                       /\ (2 * n + 2 + 2) * p = (n + 2) * (2 * p)
                       /\ (2 * n + 1 + 2) * p = (2 * n + 2 + 1) * p
                       /\ (2 * n + 2 + 2) * p = (2 * n + 2 + 1) * p + p
                       /\ (2 * n + 1 + 2) * p = (2 * n + 1 + 1) * p + p
  /\ \A n, p \in Nat : n * p \in Nat
OBVIOUS

\* Two levels of the subtrees of a heap's node do not meet.
LEMMA LevelsApart ==
  ASSUME NEW n \in Nat, NEW j \in 0..LOG2_SIZE, NEW k \in 0..LOG2_SIZE, NEW i \in Nat,
         (2 * n + 1 + 1) * Pow2[j] <= i + 1, i + 1 < (2 * n + 1 + 2) * Pow2[j],
         (2 * n + 2 + 1) * Pow2[k] <= i + 1, i + 1 < (2 * n + 2 + 2) * Pow2[k]
  PROVE  FALSE
<1> DEFINE p == Pow2[j]
           q == Pow2[k]
<1>1. p \in Nat \ {0} /\ q \in Nat \ {0}
  BY Pow2Assumption
<1>2. /\ j = k => p = q
      /\ j < k => 2 * p <= q
      /\ k < j => 2 * q <= p
  BY Pow2Grows
<1>3. j = k \/ j < k \/ k < j
  OBVIOUS
<1> HIDE DEF p, q
<1>4. (2 * n + 3) * q <= i + 1 /\ i + 1 < (2 * n + 3) * p
  BY <1>1 DEF p, q
<1>5. (2 * n + 2) * p <= i + 1 /\ i + 1 < (2 * n + 4) * q
  BY <1>1 DEF p, q
<1>6. CASE p <= q
  <2>1. (2 * n + 3) * p <= (2 * n + 3) * q
    BY <1>1, <1>6, Products
  <2>2. (2 * n + 3) * p \in Nat /\ (2 * n + 3) * q \in Nat
    BY <1>1, Products
  <2> QED
    BY <1>4, <2>1, <2>2
<1>7. CASE 2 * q <= p
  <2>1. (2 * n + 2) * (2 * q) <= (2 * n + 2) * p
    BY <1>1, <1>7, Products
  <2>2. (2 * n + 2) * (2 * q) = (4 * n + 4) * q /\ (4 * n + 4) * q = (2 * n + 4) * q + 2 * (n * q)
    BY <1>1
  <2>3. (2 * n + 2) * p \in Nat /\ (2 * n + 4) * q \in Nat /\ n * q \in Nat
    BY <1>1, Products
  <2> QED
    BY <1>5, <2>1, <2>2, <2>3
<1>8. p <= q \/ 2 * q <= p
  BY <1>1, <1>2, <1>3
<1> QED
  BY <1>6, <1>7, <1>8

LEMMA IdsSplitObject ==
  ASSUME SizesAre, median = "object", NEW n \in Nat, NEW s \in Nat, s > 1,
         NEW h \in 0..LOG2_SIZE, HasRoom(n, s, h)
  PROVE  /\ h - 1 \in 0..LOG2_SIZE
         /\ KeepsApart(n, s, h, 2 * n + 1, s \div 2, 2 * n + 2, s - s \div 2, h - 1)
<1>1. max_size \in Nat /\ s <= Pow2[h] /\ (n + 2) * Pow2[h] <= 2 * max_size
  BY DEF HasRoom, SizesAre
<1>2. h # 0
  BY <1>1, Pow2Assumption
<1>3. /\ h - 1 \in 0..LOG2_SIZE /\ h - 1 \in 0..(LOG2_SIZE - 1) /\ (h - 1) + 1 = h
      /\ \A k \in 0..(h - 1) : /\ k \in 0..LOG2_SIZE /\ k \in 0..(LOG2_SIZE - 1)
                               /\ k + 1 \in 0..h /\ k + 1 \in 0..LOG2_SIZE
  BY <1>2, Pow2Assumption
<1>4. \A k \in 0..(h - 1) : Pow2[k] \in Nat \ {0} /\ Pow2[k + 1] = 2 * Pow2[k]
  BY <1>3, Pow2Assumption
<1>5. h - 1 \in 0..(h - 1)
  BY <1>2
<1>6. PICK p : p = Pow2[h - 1]
  OBVIOUS
<1>7. p \in Nat \ {0} /\ Pow2[h] = 2 * p
  BY <1>3, <1>4, <1>5, <1>6
<1>8. s \div 2 <= p /\ s - s \div 2 <= p
  BY <1>1, <1>7
<1>9. (2 * n + 1 + 2) * p <= 2 * max_size /\ (2 * n + 2 + 2) * p <= 2 * max_size
  <2>1. (2 * n + 2 + 2) * p = (n + 2) * (2 * p) /\ (2 * n + 2 + 2) * p = (2 * n + 1 + 2) * p + p
    BY <1>7
  <2>2. (2 * n + 1 + 2) * p \in Nat /\ (n + 2) * (2 * p) \in Nat
    BY <1>7, Products
  <2> QED
    BY <1>1, <1>7, <2>1, <2>2
<1>10. /\ HasRoom(2 * n + 1, s \div 2, h - 1)
       /\ HasRoom(2 * n + 2, s - s \div 2, h - 1)
  BY <1>6, <1>8, <1>9 DEF HasRoom
<1>11. \A m, t, x : IdsOf(m, t, x) =
         {i \in Nat : \E k \in 0..x : (m + 1) * Pow2[k] <= i + 1 /\ i + 1 < (m + 2) * Pow2[k]}
  BY DEF IdsOf
<1>12. ASSUME NEW i \in Nat, NEW k \in 0..(h - 1),
              \/ (2 * n + 1 + 1) * Pow2[k] <= i + 1 /\ i + 1 < (2 * n + 1 + 2) * Pow2[k]
              \/ (2 * n + 2 + 1) * Pow2[k] <= i + 1 /\ i + 1 < (2 * n + 2 + 2) * Pow2[k]
       PROVE  (n + 1) * Pow2[k + 1] <= i + 1 /\ i + 1 < (n + 2) * Pow2[k + 1] /\ i # n
  <2>1. PICK q \in Nat \ {0} : q = Pow2[k]
    BY <1>4
  <2>2. Pow2[k + 1] = 2 * q
    BY <1>4, <2>1
  <2>3. /\ (2 * n + 1 + 1) * q = (n + 1) * (2 * q)
        /\ (2 * n + 2 + 1) * q = (2 * n + 1 + 1) * q + q
        /\ (2 * n + 1 + 2) * q = (2 * n + 1 + 1) * q + q
        /\ (2 * n + 2 + 2) * q = (n + 2) * (2 * q)
        /\ (2 * n + 2 + 2) * q = (2 * n + 1 + 2) * q + q
        /\ (n + 1) * (2 * q) = (n + 1) * q + (n + 1) * q
    BY <2>1
  <2>4. /\ (2 * n + 1 + 1) * q \in Nat /\ (n + 1) * (2 * q) \in Nat /\ (2 * n + 2 + 2) * q \in Nat
        /\ (2 * n + 1 + 2) * q \in Nat /\ (2 * n + 2 + 1) * q \in Nat
        /\ (n + 1) * q \in Nat /\ (n + 1) * 1 <= (n + 1) * q
    BY <2>1, Products
  <2> QED
    BY <1>12, <2>1, <2>2, <2>3, <2>4
<1>13. /\ IdsOf(2 * n + 1, s \div 2, h - 1) \subseteq IdsOf(n, s, h)
       /\ n \notin IdsOf(2 * n + 1, s \div 2, h - 1)
  <2>1. ASSUME NEW i \in IdsOf(2 * n + 1, s \div 2, h - 1)
        PROVE  i \in IdsOf(n, s, h) /\ i # n
    <3>1. PICK k \in 0..(h - 1) : /\ i \in Nat /\ (2 * n + 1 + 1) * Pow2[k] <= i + 1
                                  /\ i + 1 < (2 * n + 1 + 2) * Pow2[k]
      BY <1>11, <2>1
    <3>2. (n + 1) * Pow2[k + 1] <= i + 1 /\ i + 1 < (n + 2) * Pow2[k + 1] /\ i # n /\ k + 1 \in 0..h
      BY <1>3, <1>12, <3>1
    <3> QED
      BY <1>11, <3>1, <3>2
  <2> QED
    BY <2>1
<1>14. /\ IdsOf(2 * n + 2, s - s \div 2, h - 1) \subseteq IdsOf(n, s, h)
       /\ n \notin IdsOf(2 * n + 2, s - s \div 2, h - 1)
  <2>1. ASSUME NEW i \in IdsOf(2 * n + 2, s - s \div 2, h - 1)
        PROVE  i \in IdsOf(n, s, h) /\ i # n
    <3>1. PICK k \in 0..(h - 1) : /\ i \in Nat /\ (2 * n + 2 + 1) * Pow2[k] <= i + 1
                                  /\ i + 1 < (2 * n + 2 + 2) * Pow2[k]
      BY <1>11, <2>1
    <3>2. (n + 1) * Pow2[k + 1] <= i + 1 /\ i + 1 < (n + 2) * Pow2[k + 1] /\ i # n /\ k + 1 \in 0..h
      BY <1>3, <1>12, <3>1
    <3> QED
      BY <1>11, <3>1, <3>2
  <2> QED
    BY <2>1
<1>15. ASSUME NEW i \in IdsOf(2 * n + 1, s \div 2, h - 1), i \in IdsOf(2 * n + 2, s - s \div 2, h - 1)
       PROVE  FALSE
  <2>1. PICK j \in 0..(h - 1) : /\ i \in Nat /\ (2 * n + 1 + 1) * Pow2[j] <= i + 1
                                /\ i + 1 < (2 * n + 1 + 2) * Pow2[j]
    BY <1>11, <1>15
  <2>2. PICK k \in 0..(h - 1) : /\ (2 * n + 2 + 1) * Pow2[k] <= i + 1
                                /\ i + 1 < (2 * n + 2 + 2) * Pow2[k]
    BY <1>11, <1>15
  <2>3. j \in 0..LOG2_SIZE /\ k \in 0..LOG2_SIZE
    BY <1>3
  <2> QED
    BY <2>1, <2>2, <2>3, LevelsApart
<1> QED
  BY <1>3, <1>10, <1>13, <1>14, <1>15 DEF KeepsApart

-----------------------------------------------------------------------------
(* What is built *)

NodeRecords ==
  [left : NodeIds \cup {NULL}, right : NodeIds \cup {NULL}, num_points : -1..max_size,
   split_dimension : Dims \cup {-1}, split_value : Int,
   slice : [first : 0..max_size, end : 0..max_size], box : Boxes]

SliceAt(m) == m.slice.first..(m.slice.end - 1)

\* The items of b in the slice of m
ItemsIn(b, m) == {b.items[x] : x \in SliceAt(m)}

ChildrenAt(m) == {m.left, m.right} \ {NULL}

NodeMade(b, m) ==
  /\ m \in NodeRecords
  /\ m.slice.first < m.slice.end /\ SliceAt(m) \subseteq DOMAIN b.items
  /\ m.box = BoxOf(ItemsIn(b, m))

LeafMade(m) ==
  m.left = NULL /\ m.right = NULL /\ m.num_points = m.slice.end - m.slice.first

InnerMade(b, m) ==
  /\ m.left \in DOMAIN b.nodes /\ m.right \in DOMAIN b.nodes /\ m.left # m.right
  /\ b.nodes[m.left].slice.first = m.slice.first
  /\ b.nodes[m.left].slice.end = b.nodes[m.right].slice.first
  /\ b.nodes[m.right].slice.end = m.slice.end
  /\ m.split_dimension \in Dims
  /\ \A x \in SliceAt(b.nodes[m.left]) : b.items[x][m.split_dimension] < m.split_value
  /\ \A x \in SliceAt(b.nodes[m.right]) : ~(b.items[x][m.split_dimension] < m.split_value)

NodesMade(b) ==
  \A i \in DOMAIN b.nodes :
    NodeMade(b, b.nodes[i]) /\ (LeafMade(b.nodes[i]) \/ InnerMade(b, b.nodes[i]))

\* The items are those of S, each once.
ItemsMade(b, S, at) ==
  /\ DOMAIN b.items = at.first..(at.first + Cardinality(S) - 1)
  /\ \A x \in DOMAIN b.items : b.items[x] \in S
  /\ \A p \in S : \E x \in DOMAIN b.items : b.items[x] = p
  /\ \A x, y \in DOMAIN b.items : b.items[x] = b.items[y] => x = y

\* Leaves are apart, and no node has two parents.
ShapeMade(b) ==
  \A i, j \in DOMAIN b.nodes :
    i # j =>
      /\ b.nodes[i].left = NULL /\ b.nodes[j].left = NULL =>
           \/ b.nodes[i].slice.end <= b.nodes[j].slice.first
           \/ b.nodes[j].slice.end <= b.nodes[i].slice.first
      /\ ChildrenAt(b.nodes[i]) \cap ChildrenAt(b.nodes[j]) = {}

\* The node n is the root, over the slice sl, and the nodes are among ids.
RootMade(b, n, sl, ids) ==
  /\ n \in DOMAIN b.nodes /\ DOMAIN b.nodes \subseteq ids
  /\ b.nodes[n].slice = sl
  /\ \A i \in DOMAIN b.nodes : n \notin ChildrenAt(b.nodes[i])

\* The object median halves it.
HalvesMade(b, n) ==
  median = "object" =>
    \A c \in ChildrenAt(b.nodes[n]) :
      2 * (b.nodes[c].slice.end - b.nodes[c].slice.first)
        <= (b.nodes[n].slice.end - b.nodes[n].slice.first) + 1

TreeMade(b, S, at, ids) ==
  /\ ItemsMade(b, S, at) /\ NodesMade(b) /\ ShapeMade(b)
  /\ RootMade(b, at.n, SliceOf(S, at), ids) /\ HalvesMade(b, at.n)

Slot(S, at) == at \in Places /\ at.first + Cardinality(S) <= max_size

LEMMA RecordTypes ==
  ASSUME SizesAre, NEW S, Given(S), S # {}, NEW at, Slot(S, at), NEW d \in Dims, NEW v \in Int,
         NEW l \in NodeIds, NEW r \in NodeIds
  PROVE  /\ SliceOf(S, at) \in [first : 0..max_size, end : 0..max_size]
         /\ [left |-> NULL, right |-> NULL, num_points |-> Cardinality(S),
             split_dimension |-> -1, split_value |-> 0, slice |-> SliceOf(S, at),
             box |-> BoxOf(S)] \in NodeRecords
         /\ [left |-> l, right |-> r, num_points |-> -1,
             split_dimension |-> d, split_value |-> v, slice |-> SliceOf(S, at),
             box |-> BoxOf(S)] \in NodeRecords
<1>1. Cardinality(S) \in Nat /\ max_size \in Nat
  BY FS_CardinalityType DEF Given, SizesAre
<1>2. SliceOf(S, at) \in [first : 0..max_size, end : 0..max_size]
  BY <1>1 DEF Slot, Places, SliceOf
<1>3. BoxOf(S) \in Boxes
  BY BoxIs DEF Given
<1>4. Cardinality(S) \in -1..max_size
  BY <1>1 DEF Slot, Places
<1>5. -1 \in -1..max_size
  BY <1>1
<1> QED
  BY <1>2, <1>3, <1>4, <1>5 DEF NodeRecords

LEMMA LeafIsMade ==
  ASSUME SizesAre, NEW S, Given(S), S # {}, NEW at, Slot(S, at), NEW ids, at.n \in ids
  PROVE  TreeMade(BuiltLeaf(S, at), S, at, ids)
<1> DEFINE X == at.first..(at.first + Cardinality(S) - 1)
           order == CHOOSE f \in Bijection(X, S) : TRUE
           m == LeafNode(S, at)
           b == BuiltLeaf(S, at)
<1>1. Cardinality(S) \in Nat /\ Cardinality(S) > 0 /\ at.first \in Nat /\ IsFiniteSet(S)
  BY FS_CardinalityType, FS_EmptySet DEF Given, Slot, Places
<1>2. order \in Bijection(X, S)
  <2>1. PICK f : f \in Bijection(1..Cardinality(S), S)
    BY <1>1, FS_CardinalityType DEF ExistsBijection
  <2> DEFINE g == [x \in X |-> f[x - at.first + 1]]
  <2>2. \A x \in X : x - at.first + 1 \in 1..Cardinality(S)
    BY <1>1
  <2>3. /\ f \in [1..Cardinality(S) -> S]
        /\ \A x, y \in 1..Cardinality(S) : f[x] = f[y] => x = y
        /\ \A p \in S : \E x \in 1..Cardinality(S) : f[x] = p
    BY <2>1 DEF Bijection, Injection, Surjection, IsInjective
  <2>4. g \in [X -> S]
    BY <2>2, <2>3
  <2>5. \A x, y \in X : g[x] = g[y] => x = y
    BY <2>2, <2>3, <1>1
  <2>6. \A p \in S : \E x \in X : g[x] = p
    <3> SUFFICES ASSUME NEW p \in S  PROVE \E x \in X : g[x] = p
      OBVIOUS
    <3>1. PICK y \in 1..Cardinality(S) : f[y] = p
      BY <2>3
    <3>2. y + at.first - 1 \in X /\ (y + at.first - 1) - at.first + 1 = y
      BY <1>1
    <3> QED
      BY <3>1, <3>2
  <2> HIDE DEF g, X
  <2>7. g \in Bijection(X, S)
    BY <2>4, <2>5, <2>6 DEF Bijection, Injection, Surjection, IsInjective
  <2> QED
    BY <2>7
<1> HIDE DEF order
<1>3. b = [items |-> order, nodes |-> [n \in {at.n} |-> m]]
  BY DEF BuiltLeaf, order
<1>4. b.items = order /\ b.nodes = [n \in {at.n} |-> m]
  BY <1>3
<1> HIDE DEF b
<1>5. DOMAIN b.nodes = {at.n} /\ b.nodes[at.n] = m
  BY <1>4
<1>6. /\ DOMAIN order = X /\ \A x \in X : order[x] \in S
      /\ \A p \in S : \E x \in X : order[x] = p
      /\ \A x, y \in X : order[x] = order[y] => x = y
  BY <1>2 DEF Bijection, Injection, Surjection, IsInjective
<1>7. ItemsMade(b, S, at)
  BY <1>4, <1>6 DEF ItemsMade
<1>8. /\ m.slice = SliceOf(S, at) /\ m.box = BoxOf(S) /\ m.left = NULL /\ m.right = NULL
      /\ m.num_points = Cardinality(S)
  BY DEF LeafNode, NoNode
<1>9. m \in NodeRecords
  <2>1. PICK d \in Dims : TRUE
    BY DimAssumption DEF Dims
  <2> QED
    BY <2>1, IdsAre, RecordTypes DEF LeafNode
<1>10. m.slice.first = at.first /\ m.slice.end = at.first + Cardinality(S) /\ SliceAt(m) = X
  <2> HIDE DEF m
  <2>1. SliceOf(S, at).first = at.first /\ SliceOf(S, at).end = at.first + Cardinality(S)
    BY DEF SliceOf
  <2>2. m.slice.first = at.first /\ m.slice.end = at.first + Cardinality(S)
    BY <1>8, <2>1, Zenon
  <2> QED
    BY <1>1, <2>2 DEF SliceAt
<1>11. ItemsIn(b, m) = S
  BY <1>4, <1>6, <1>10 DEF ItemsIn
<1> HIDE DEF m
<1>12. NodeMade(b, m) /\ LeafMade(m)
  <2>1. m.slice.first < m.slice.end /\ m.slice.end - m.slice.first = Cardinality(S)
    BY <1>1, <1>10
  <2> HIDE DEF X
  <2> QED
    BY <2>1, <1>4, <1>6, <1>8, <1>9, <1>10, <1>11 DEF NodeMade, LeafMade
<1>13. NodesMade(b)
  BY <1>5, <1>12 DEF NodesMade
<1>14. ShapeMade(b)
  BY <1>5 DEF ShapeMade
<1>15. RootMade(b, at.n, SliceOf(S, at), ids)
  BY <1>5, <1>8 DEF RootMade, ChildrenAt
<1>17. HalvesMade(b, at.n)
  BY <1>5, <1>8 DEF HalvesMade, ChildrenAt
<1>16. TreeMade(b, S, at, ids)
  BY <1>7, <1>13, <1>14, <1>15, <1>17 DEF TreeMade
<1> QED
  BY <1>16 DEF b

\* What is in part stays as it is in b.
PartOf(part, b) ==
  /\ DOMAIN part.nodes \subseteq DOMAIN b.nodes /\ DOMAIN part.items \subseteq DOMAIN b.items
  /\ \A i \in DOMAIN part.nodes : b.nodes[i] = part.nodes[i]
  /\ \A x \in DOMAIN part.items : b.items[x] = part.items[x]

LEMMA PartStays ==
  ASSUME NEW part, NEW b, PartOf(part, b), NodesMade(part), NEW i \in DOMAIN part.nodes
  PROVE  /\ NodeMade(b, b.nodes[i])
         /\ LeafMade(b.nodes[i]) \/ InnerMade(b, b.nodes[i])
<1> DEFINE m == part.nodes[i]
<1>1. NodeMade(part, m) /\ b.nodes[i] = m
  BY DEF NodesMade, PartOf
<1>2. LeafMade(m) \/ InnerMade(part, m)
  BY DEF NodesMade
<1> HIDE DEF m
<1>3. \A x \in SliceAt(m) : x \in DOMAIN b.items /\ b.items[x] = part.items[x]
  BY <1>1 DEF NodeMade, PartOf
<1>4. ItemsIn(b, m) = ItemsIn(part, m)
  BY <1>3 DEF ItemsIn
<1>5. NodeMade(b, m)
  BY <1>1, <1>3, <1>4 DEF NodeMade
<1>6. ASSUME InnerMade(part, m)  PROVE InnerMade(b, m)
  <2>1. m.left \in DOMAIN part.nodes /\ m.right \in DOMAIN part.nodes
    BY <1>6 DEF InnerMade
  <2>2. b.nodes[m.left] = part.nodes[m.left] /\ b.nodes[m.right] = part.nodes[m.right]
    BY <2>1 DEF PartOf
  <2>3. m.left \in DOMAIN b.nodes /\ m.right \in DOMAIN b.nodes
    BY <2>1 DEF PartOf
  <2>4. /\ SliceAt(part.nodes[m.left]) \subseteq DOMAIN part.items
        /\ SliceAt(part.nodes[m.right]) \subseteq DOMAIN part.items
    BY <2>1 DEF NodesMade, NodeMade
  <2>5. /\ \A x \in SliceAt(part.nodes[m.left]) : b.items[x] = part.items[x]
        /\ \A x \in SliceAt(part.nodes[m.right]) : b.items[x] = part.items[x]
    BY <2>4 DEF PartOf
  <2> QED
    BY <1>6, <2>2, <2>3, <2>5 DEF InnerMade
<1> QED
  BY <1>1, <1>2, <1>5, <1>6

LEMMA InnerIsMade ==
  ASSUME SizesAre, NEW S, Given(S), Cardinality(S) > 1, NEW at, Slot(S, at),
         NEW L \in LeftParts(S, at.d), NEW lids, NEW rids, NEW ids \in SUBSET NodeIds,
         at.n \in ids, lids \subseteq ids, rids \subseteq ids,
         at.n \notin lids, at.n \notin rids, lids \cap rids = {},
         NEW l, NEW r,
         TreeMade(l, L, LeftPlace(at, L), lids), TreeMade(r, S \ L, RightPlace(at, L), rids)
  PROVE  TreeMade(BuiltInner(S, L, at, l, r), S, at, ids)
<1> DEFINE n == at.n
           m == InnerNode(S, L, at)
           b == BuiltInner(S, L, at, l, r)
           nl == LeftPlace(at, L).n
           nr == RightPlace(at, L).n
<1>1. at.d \in Dims /\ at.first \in Nat /\ at.n \in Nat
  BY DEF Slot, Places
<1>2. Halves(S, L)
  BY <1>1, PartsAre
<1>3. /\ L \in SUBSET S /\ S \ L \in SUBSET S /\ S # {}
      /\ Cardinality(L) \in Nat /\ Cardinality(S \ L) \in Nat
      /\ Cardinality(L) > 0 /\ Cardinality(S \ L) > 0
      /\ Cardinality(S) = Cardinality(L) + Cardinality(S \ L)
  BY <1>2 DEF Halves
<1>24. PICK first \in Nat, mid \in Nat, end \in Nat :
         /\ first = at.first /\ mid = at.first + Cardinality(L)
         /\ end = mid + Cardinality(S \ L)
  BY <1>1, <1>3
<1>25. first < mid /\ mid < end /\ end = at.first + Cardinality(S)
  BY <1>1, <1>3, <1>24
<1>4. /\ LeftPlace(at, L).first = first /\ RightPlace(at, L).first = mid
      /\ first + Cardinality(L) = mid
  BY <1>24 DEF LeftPlace, RightPlace
<1>5. /\ ItemsMade(l, L, LeftPlace(at, L)) /\ NodesMade(l) /\ ShapeMade(l)
      /\ RootMade(l, nl, SliceOf(L, LeftPlace(at, L)), lids)
      /\ ItemsMade(r, S \ L, RightPlace(at, L)) /\ NodesMade(r) /\ ShapeMade(r)
      /\ RootMade(r, nr, SliceOf(S \ L, RightPlace(at, L)), rids)
  BY DEF TreeMade
<1>6. /\ b.items = Joined(l.items, r.items)
      /\ b.nodes = Joined([i \in {n} |-> m], Joined(l.nodes, r.nodes))
  BY DEF BuiltInner
<1> HIDE DEF b
<1>7. DOMAIN l.items = first..(mid - 1) /\ DOMAIN r.items = mid..(end - 1)
  <2>1. /\ DOMAIN l.items = first..(first + Cardinality(L) - 1)
        /\ DOMAIN r.items = mid..(mid + Cardinality(S \ L) - 1)
    BY <1>4, <1>5, Zenon DEF ItemsMade
  <2>2. first + (Cardinality(L) - 1) = mid - 1
    BY <1>3, <1>4
  <2>3. mid + (Cardinality(S \ L) - 1) = end - 1
    BY <1>3, <1>24
  <2>4. DOMAIN l.items = first..(mid - 1)
    BY <2>1, <2>2, Zenon
  <2>5. DOMAIN r.items = mid..(end - 1)
    BY <2>1, <2>3, Zenon
  <2> QED
    BY <2>4, <2>5
<1>8. /\ DOMAIN l.items \cap DOMAIN r.items = {}
      /\ DOMAIN l.items \cup DOMAIN r.items = first..(end - 1)
  <2>1. /\ (first..(mid - 1)) \cap (mid..(end - 1)) = {}
        /\ (first..(mid - 1)) \cup (mid..(end - 1)) = first..(end - 1)
    BY <1>25
  <2> QED
    BY <1>7, <2>1, Zenon
<1>9. /\ DOMAIN b.items = DOMAIN l.items \cup DOMAIN r.items
      /\ \A x \in DOMAIN l.items : b.items[x] = l.items[x]
      /\ \A x \in DOMAIN r.items : b.items[x] = r.items[x]
  <2>1. PICK f, g : f = l.items /\ g = r.items
    OBVIOUS
  <2>2. b.items = Joined(f, g) /\ DOMAIN f \cap DOMAIN g = {}
    BY <1>6, <1>8, <2>1
  <2>3. /\ DOMAIN Joined(f, g) = DOMAIN f \cup DOMAIN g
        /\ \A x \in DOMAIN f : Joined(f, g)[x] = f[x]
        /\ \A x \in DOMAIN g : Joined(f, g)[x] = g[x]
    BY <2>2 DEF Joined
  <2>4. /\ DOMAIN b.items = DOMAIN f \cup DOMAIN g
        /\ \A x \in DOMAIN f : b.items[x] = f[x]
        /\ \A x \in DOMAIN g : b.items[x] = g[x]
    BY <2>2, <2>3
  <2> QED
    BY <2>1, <2>4
<1>10. /\ DOMAIN l.nodes \subseteq lids /\ DOMAIN r.nodes \subseteq rids
       /\ nl \in DOMAIN l.nodes /\ nr \in DOMAIN r.nodes
       /\ l.nodes[nl].slice = SliceOf(L, LeftPlace(at, L))
       /\ r.nodes[nr].slice = SliceOf(S \ L, RightPlace(at, L))
       /\ \A i \in DOMAIN l.nodes : nl \notin ChildrenAt(l.nodes[i])
       /\ \A i \in DOMAIN r.nodes : nr \notin ChildrenAt(r.nodes[i])
  BY <1>5 DEF RootMade
<1>11. /\ DOMAIN b.nodes = {n} \cup DOMAIN l.nodes \cup DOMAIN r.nodes
       /\ b.nodes[n] = m
       /\ \A i \in DOMAIN l.nodes : b.nodes[i] = l.nodes[i]
       /\ \A i \in DOMAIN r.nodes : b.nodes[i] = r.nodes[i]
  <2> DEFINE f == [i \in {n} |-> m]
             g == Joined(l.nodes, r.nodes)
  <2>1. DOMAIN f = {n} /\ f[n] = m
    OBVIOUS
  <2>2. DOMAIN l.nodes \cap DOMAIN r.nodes = {}
    BY <1>10
  <2>3. /\ DOMAIN g = DOMAIN l.nodes \cup DOMAIN r.nodes
        /\ \A i \in DOMAIN l.nodes : g[i] = l.nodes[i]
        /\ \A i \in DOMAIN r.nodes : g[i] = r.nodes[i]
    BY <2>2 DEF Joined
  <2>4. b.nodes = Joined(f, g)
    BY <1>6
  <2> HIDE DEF f, g
  <2>5. DOMAIN f \cap DOMAIN g = {}
    BY <1>10, <2>1, <2>3
  <2>6. /\ DOMAIN Joined(f, g) = DOMAIN f \cup DOMAIN g
        /\ \A x \in DOMAIN f : Joined(f, g)[x] = f[x]
        /\ \A x \in DOMAIN g : Joined(f, g)[x] = g[x]
    BY <2>5 DEF Joined
  <2>7. /\ DOMAIN b.nodes = {n} \cup DOMAIN l.nodes \cup DOMAIN r.nodes
        /\ b.nodes[n] = m
    BY <2>1, <2>3, <2>4, <2>6
  <2>8. /\ \A i \in DOMAIN l.nodes : b.nodes[i] = l.nodes[i]
        /\ \A i \in DOMAIN r.nodes : b.nodes[i] = r.nodes[i]
    BY <2>3, <2>4, <2>6
  <2> QED
    BY <2>7, <2>8
<1>12. PartOf(l, b) /\ PartOf(r, b)
  BY <1>9, <1>11 DEF PartOf
<1>13. ItemsMade(b, S, at)
  <2>1. \A x \in DOMAIN b.items : b.items[x] \in S
    BY <1>3, <1>5, <1>9 DEF ItemsMade
  <2>2. \A p \in S : \E x \in DOMAIN b.items : b.items[x] = p
    <3> SUFFICES ASSUME NEW p \in S  PROVE \E x \in DOMAIN b.items : b.items[x] = p
      OBVIOUS
    <3>1. CASE p \in L
      BY <1>5, <1>9, <3>1 DEF ItemsMade
    <3>2. CASE p \in S \ L
      BY <1>5, <1>9, <3>2 DEF ItemsMade
    <3> QED
      BY <3>1, <3>2
  <2>3. \A x \in DOMAIN l.items, y \in DOMAIN r.items : b.items[x] # b.items[y]
    <3> SUFFICES ASSUME NEW x \in DOMAIN l.items, NEW y \in DOMAIN r.items
                 PROVE  b.items[x] # b.items[y]
      OBVIOUS
    <3>1. l.items[x] \in L /\ r.items[y] \in S \ L
      BY <1>5 DEF ItemsMade
    <3> QED
      BY <1>9, <3>1
  <2>4. \A x, y \in DOMAIN b.items : b.items[x] = b.items[y] => x = y
    BY <1>5, <1>9, <2>3 DEF ItemsMade
  <2>5. DOMAIN b.items = at.first..(at.first + Cardinality(S) - 1)
    <3>1. DOMAIN b.items = first..(end - 1)
      BY <1>8, <1>9, Zenon
    <3>2. first = at.first
      BY <1>24
    <3>3. end - 1 = at.first + (Cardinality(S) - 1)
      BY <1>1, <1>3, <1>25
    <3> QED
      BY <3>1, <3>2, <3>3, Zenon
  <2> QED
    BY <2>1, <2>2, <2>4, <2>5 DEF ItemsMade
<1>14. /\ m.slice = SliceOf(S, at) /\ m.box = BoxOf(S) /\ m.left = nl /\ m.right = nr
       /\ m.split_dimension = at.d /\ m.split_value = SplitValue(L, S \ L, at.d)
  BY DEF InnerNode
<1>15. nl \in NodeIds /\ nr \in NodeIds /\ nl # nr
  BY <1>10
<1>16. m \in NodeRecords
  <2>1. SplitValue(L, S \ L, at.d) \in Int
    BY <1>1, SplitIs
  <2> QED
    BY <1>1, <1>3, <1>15, <2>1, RecordTypes DEF InnerNode
<1> HIDE DEF m, nl, nr
<1>17. /\ m.slice.first = first /\ m.slice.end = end
       /\ l.nodes[nl].slice.first = first /\ l.nodes[nl].slice.end = mid
       /\ r.nodes[nr].slice.first = mid /\ r.nodes[nr].slice.end = end
  <2>1. /\ SliceOf(S, at).first = first /\ SliceOf(S, at).end = end
        /\ SliceOf(L, LeftPlace(at, L)).first = first
        /\ SliceOf(L, LeftPlace(at, L)).end = mid
        /\ SliceOf(S \ L, RightPlace(at, L)).first = mid
        /\ SliceOf(S \ L, RightPlace(at, L)).end = end
    BY <1>4, <1>24, <1>25 DEF SliceOf
  <2> QED
    BY <1>10, <1>14, <2>1, Zenon
<1>18. NodeMade(b, m)
  <2>1. SliceAt(m) = DOMAIN b.items
    BY <1>8, <1>9, <1>17, Zenon DEF SliceAt
  <2>2. ItemsIn(b, m) = S
    BY <1>13, <2>1 DEF ItemsIn, ItemsMade
  <2>3. m.slice.first < m.slice.end
    BY <1>17, <1>25
  <2> QED
    BY <1>14, <1>16, <2>1, <2>2, <2>3 DEF NodeMade
<1>19. InnerMade(b, m)
  <2>1. /\ b.nodes[nl] = l.nodes[nl] /\ b.nodes[nr] = r.nodes[nr]
        /\ nl \in DOMAIN b.nodes /\ nr \in DOMAIN b.nodes
    BY <1>10, <1>11
  <2>2. SliceAt(b.nodes[nl]) = DOMAIN l.items /\ SliceAt(b.nodes[nr]) = DOMAIN r.items
    BY <1>7, <1>17, <2>1, Zenon DEF SliceAt
  <2>3. /\ \A p \in L : p[at.d] < m.split_value
        /\ \A p \in S \ L : ~(p[at.d] < m.split_value)
    BY <1>1, <1>14, SplitIs
  <2>4. /\ \A x \in DOMAIN l.items : b.items[x] \in L
        /\ \A x \in DOMAIN r.items : b.items[x] \in S \ L
    BY <1>5, <1>9 DEF ItemsMade
  <2>6. /\ \A x \in SliceAt(b.nodes[m.left]) : b.items[x][m.split_dimension] < m.split_value
        /\ \A x \in SliceAt(b.nodes[m.right]) : ~(b.items[x][m.split_dimension] < m.split_value)
    BY <1>14, <2>2, <2>3, <2>4
  <2> QED
    BY <1>1, <1>14, <1>15, <1>17, <2>1, <2>6 DEF InnerMade
<1>20. NodesMade(b)
  <2> SUFFICES ASSUME NEW i \in DOMAIN b.nodes
               PROVE  /\ NodeMade(b, b.nodes[i])
                      /\ LeafMade(b.nodes[i]) \/ InnerMade(b, b.nodes[i])
    BY DEF NodesMade
  <2>1. CASE i = n
    BY <1>11, <1>18, <1>19, <2>1
  <2>2. CASE i \in DOMAIN l.nodes
    BY <1>5, <1>12, <2>2, PartStays
  <2>3. CASE i \in DOMAIN r.nodes
    BY <1>5, <1>12, <2>3, PartStays
  <2> QED
    BY <1>11, <2>1, <2>2, <2>3
<1>21. \A i \in DOMAIN l.nodes : /\ i \in lids
                                 /\ l.nodes[i].slice.end <= mid
                                 /\ l.nodes[i].slice.end \in Nat
                                 /\ ChildrenAt(l.nodes[i]) \subseteq DOMAIN l.nodes \ {nl}
  <2> SUFFICES ASSUME NEW i \in DOMAIN l.nodes
               PROVE  /\ i \in lids
                      /\ l.nodes[i].slice.end <= mid
                      /\ l.nodes[i].slice.end \in Nat
                      /\ ChildrenAt(l.nodes[i]) \subseteq DOMAIN l.nodes \ {nl}
    OBVIOUS
  <2>1. /\ l.nodes[i] \in NodeRecords
        /\ l.nodes[i].slice.first < l.nodes[i].slice.end
        /\ SliceAt(l.nodes[i]) \subseteq DOMAIN l.items
    BY <1>5 DEF NodesMade, NodeMade
  <2>2. l.nodes[i].slice.first \in Nat /\ l.nodes[i].slice.end \in Nat
    BY <2>1 DEF NodeRecords
  <2>3. l.nodes[i].slice.end - 1 \in SliceAt(l.nodes[i])
    BY <2>1, <2>2 DEF SliceAt
  <2>4. l.nodes[i].slice.end - 1 <= mid - 1
    BY <1>7, <2>1, <2>3
  <2>5. ChildrenAt(l.nodes[i]) \subseteq DOMAIN l.nodes
    <3>1. LeafMade(l.nodes[i]) \/ InnerMade(l, l.nodes[i])
      BY <1>5 DEF NodesMade
    <3> QED
      BY <3>1 DEF LeafMade, InnerMade, ChildrenAt
  <2> QED
    BY <1>10, <2>2, <2>4, <2>5
<1>22. \A i \in DOMAIN r.nodes : /\ i \in rids
                                 /\ mid <= r.nodes[i].slice.first
                                 /\ r.nodes[i].slice.first \in Nat
                                 /\ ChildrenAt(r.nodes[i]) \subseteq DOMAIN r.nodes \ {nr}
  <2> SUFFICES ASSUME NEW i \in DOMAIN r.nodes
               PROVE  /\ i \in rids
                      /\ mid <= r.nodes[i].slice.first
                      /\ r.nodes[i].slice.first \in Nat
                      /\ ChildrenAt(r.nodes[i]) \subseteq DOMAIN r.nodes \ {nr}
    OBVIOUS
  <2>1. /\ r.nodes[i] \in NodeRecords
        /\ r.nodes[i].slice.first < r.nodes[i].slice.end
        /\ SliceAt(r.nodes[i]) \subseteq DOMAIN r.items
    BY <1>5 DEF NodesMade, NodeMade
  <2>2. r.nodes[i].slice.first \in Nat /\ r.nodes[i].slice.end \in Nat
    BY <2>1 DEF NodeRecords
  <2>3. r.nodes[i].slice.first \in SliceAt(r.nodes[i])
    BY <2>1, <2>2 DEF SliceAt
  <2>4. mid <= r.nodes[i].slice.first
    BY <1>7, <2>1, <2>3
  <2>5. ChildrenAt(r.nodes[i]) \subseteq DOMAIN r.nodes
    <3>1. LeafMade(r.nodes[i]) \/ InnerMade(r, r.nodes[i])
      BY <1>5 DEF NodesMade
    <3> QED
      BY <3>1 DEF LeafMade, InnerMade, ChildrenAt
  <2> QED
    BY <1>10, <2>2, <2>4, <2>5
<1>26. /\ n \notin DOMAIN l.nodes /\ n \notin DOMAIN r.nodes
       /\ DOMAIN l.nodes \cap DOMAIN r.nodes = {}
       /\ ChildrenAt(m) = {nl, nr} /\ m.left # NULL
  BY <1>10, <1>14, <1>15, IdsAre DEF ChildrenAt
<1>27. ShapeMade(b)
  <2>1. ASSUME NEW i \in DOMAIN b.nodes, NEW j \in DOMAIN b.nodes, i # j
        PROVE  ChildrenAt(b.nodes[i]) \cap ChildrenAt(b.nodes[j]) = {}
    <3>1. \A k \in DOMAIN l.nodes : /\ b.nodes[k] = l.nodes[k]
                                    /\ ChildrenAt(b.nodes[k]) \subseteq DOMAIN l.nodes \ {nl}
      BY <1>11, <1>21
    <3>2. \A k \in DOMAIN r.nodes : /\ b.nodes[k] = r.nodes[k]
                                    /\ ChildrenAt(b.nodes[k]) \subseteq DOMAIN r.nodes \ {nr}
      BY <1>11, <1>22
    <3>3. ChildrenAt(b.nodes[n]) = {nl, nr}
      BY <1>11, <1>26
    <3>4. CASE i \in DOMAIN l.nodes /\ j \in DOMAIN l.nodes
      BY <1>5, <2>1, <3>1, <3>4 DEF ShapeMade
    <3>5. CASE i \in DOMAIN r.nodes /\ j \in DOMAIN r.nodes
      BY <1>5, <2>1, <3>2, <3>5 DEF ShapeMade
    <3>6. CASE \/ i \in DOMAIN l.nodes /\ j \in DOMAIN r.nodes
               \/ i \in DOMAIN r.nodes /\ j \in DOMAIN l.nodes
      BY <1>26, <3>1, <3>2, <3>6
    <3>7. CASE (i = n /\ j # n) \/ (i # n /\ j = n)
      <4>1. nl \in DOMAIN l.nodes /\ nr \in DOMAIN r.nodes
        BY <1>10
      <4> QED
        BY <1>11, <1>26, <3>1, <3>2, <3>3, <3>7, <4>1
    <3>8. /\ i = n \/ i \in DOMAIN l.nodes \/ i \in DOMAIN r.nodes
          /\ j = n \/ j \in DOMAIN l.nodes \/ j \in DOMAIN r.nodes
      BY <1>11
    <3> QED
      BY <2>1, <3>4, <3>5, <3>6, <3>7, <3>8
  <2>2. ASSUME NEW i \in DOMAIN b.nodes, NEW j \in DOMAIN b.nodes, i # j,
               b.nodes[i].left = NULL, b.nodes[j].left = NULL
        PROVE  \/ b.nodes[i].slice.end <= b.nodes[j].slice.first
               \/ b.nodes[j].slice.end <= b.nodes[i].slice.first
    <3>1. i # n /\ j # n
      BY <1>11, <1>26, <2>2
    <3>2. CASE i \in DOMAIN l.nodes /\ j \in DOMAIN l.nodes
      BY <1>5, <1>11, <2>2, <3>2 DEF ShapeMade
    <3>3. CASE i \in DOMAIN r.nodes /\ j \in DOMAIN r.nodes
      BY <1>5, <1>11, <2>2, <3>3 DEF ShapeMade
    <3>4. CASE i \in DOMAIN l.nodes /\ j \in DOMAIN r.nodes
      BY <1>11, <1>21, <1>22, <3>4
    <3>5. CASE i \in DOMAIN r.nodes /\ j \in DOMAIN l.nodes
      BY <1>11, <1>21, <1>22, <3>5
    <3> QED
      BY <1>11, <3>1, <3>2, <3>3, <3>4, <3>5
  <2> QED
    BY <2>1, <2>2 DEF ShapeMade
<1>28. RootMade(b, n, SliceOf(S, at), ids)
  <2>1. DOMAIN b.nodes \subseteq ids /\ n \in DOMAIN b.nodes
    BY <1>10, <1>11
  <2>2. b.nodes[n].slice = SliceOf(S, at)
    BY <1>11, <1>14
  <2>3. \A i \in DOMAIN b.nodes : n \notin ChildrenAt(b.nodes[i])
    <3>1. n \notin ChildrenAt(b.nodes[n])
      BY <1>10, <1>11, <1>26
    <3>2. \A i \in DOMAIN l.nodes : n \notin ChildrenAt(b.nodes[i])
      BY <1>11, <1>21, <1>26
    <3>3. \A i \in DOMAIN r.nodes : n \notin ChildrenAt(b.nodes[i])
      BY <1>11, <1>22, <1>26
    <3> QED
      BY <1>11, <3>1, <3>2, <3>3
  <2> QED
    BY <2>1, <2>2, <2>3 DEF RootMade
<1>29. HalvesMade(b, n)
  <2> SUFFICES ASSUME median = "object", NEW c \in ChildrenAt(b.nodes[n])
               PROVE  2 * (b.nodes[c].slice.end - b.nodes[c].slice.first)
                        <= (b.nodes[n].slice.end - b.nodes[n].slice.first) + 1
    BY DEF HalvesMade
  <2>1. Cardinality(L) = Cardinality(S) \div 2
    BY <1>1, PartsAre DEF ByObject
  <2>2. b.nodes[n].slice.end - b.nodes[n].slice.first = Cardinality(S)
    BY <1>1, <1>3, <1>11, <1>17, <1>24, <1>25
  <2>3. c = nl \/ c = nr
    BY <1>11, <1>26
  <2>4. CASE c = nl
    <3>1. b.nodes[c].slice.end - b.nodes[c].slice.first = Cardinality(L)
      BY <1>1, <1>3, <1>10, <1>11, <1>17, <1>24, <2>4
    <3> QED
      BY <1>3, <2>1, <2>2, <3>1
  <2>5. CASE c = nr
    <3>1. b.nodes[c].slice.end - b.nodes[c].slice.first = Cardinality(S \ L)
      BY <1>1, <1>3, <1>10, <1>11, <1>17, <1>24, <2>5
    <3> QED
      BY <1>3, <2>1, <2>2, <3>1
  <2> QED
    BY <2>3, <2>4, <2>5
<1>23. TreeMade(b, S, at, ids)
  BY <1>13, <1>20, <1>27, <1>28, <1>29 DEF TreeMade
<1> QED
  BY <1>23 DEF b

\* Every build of S is a tree, below its own node.
PartMade(built, S) ==
  S # {} =>
    \A at : \A h \in 0..LOG2_SIZE :
      Slot(S, at) /\ HasRoom(at.n, Cardinality(S), h) =>
        \A b \in built[S][at] : TreeMade(b, S, at, IdsOf(at.n, Cardinality(S), h))

LEMMA PartsAreMade ==
  ASSUME SizesAre, NEW set, Given(set), NEW built,
         \A S \in SUBSET set : \A at \in Places :
           built[S][at] = BuildKdtRecursive(built, S, at)
  PROVE  \A S \in SUBSET set : PartMade(built, S)
<1> DEFINE F == {S \in SUBSET set : PartMade(built, S)}
<1>1. ASSUME NEW S \in SUBSET set,
             \A T \in SUBSET set : Cardinality(T) < Cardinality(S) => T \in F
      PROVE  S \in F
  <2> SUFFICES ASSUME S # {}, NEW at, NEW h \in 0..LOG2_SIZE, Slot(S, at),
                      HasRoom(at.n, Cardinality(S), h), NEW b \in built[S][at]
               PROVE  TreeMade(b, S, at, IdsOf(at.n, Cardinality(S), h))
    BY DEF PartMade
  <2> DEFINE ids == IdsOf(at.n, Cardinality(S), h)
  <2>1. Given(S)
    BY GivenPart
  <2>2. Cardinality(S) \in Nat \ {0} /\ at \in Places /\ at.n \in Nat /\ at.first \in Nat /\ at.d \in Dims
    BY <2>1, FS_CardinalityType, FS_EmptySet DEF Given, Slot, Places
  <2>3. at.n \in ids /\ ids \in SUBSET NodeIds
    BY <2>2, IdsFit
  <2>4. b \in BuildKdtRecursive(built, S, at)
    BY <2>2
  <2> HIDE DEF ids
  <2>5. CASE Cardinality(S) <= leaf_size
    <3>1. b = BuiltLeaf(S, at)
      BY <2>4, <2>5 DEF BuildKdtRecursive
    <3>2. TreeMade(BuiltLeaf(S, at), S, at, ids)
      BY <2>1, <2>3, LeafIsMade
    <3> QED
      BY <3>1, <3>2 DEF ids
  <2>6. CASE ~(Cardinality(S) <= leaf_size)
    <3>1. Cardinality(S) > 1
      BY <2>2, <2>6 DEF SizesAre
    <3>2. PICK L \in LeftParts(S, at.d) :
            b \in BuiltInners(S, L, at, built[L][LeftPlace(at, L)], built[S \ L][RightPlace(at, L)])
      BY <2>4, <2>6 DEF BuildKdtRecursive
    <3>3. PICK l \in built[L][LeftPlace(at, L)], r \in built[S \ L][RightPlace(at, L)] :
            b = BuiltInner(S, L, at, l, r)
      <4>1. PICK lefts, rights : /\ lefts = built[L][LeftPlace(at, L)]
                                 /\ rights = built[S \ L][RightPlace(at, L)]
        OBVIOUS
      <4>2. b \in BuiltInners(S, L, at, lefts, rights)
        BY <3>2, <4>1
      <4>3. \E l \in lefts, r \in rights : b = BuiltInner(S, L, at, l, r)
        BY <4>2, SMT DEF BuiltInners
      <4> QED
        BY <4>1, <4>3, Zenon
    <3>4. Halves(S, L) /\ (median = "object" => ByObject(S, at.d, L))
      BY <2>1, <2>2, <3>1, PartsAre
    <3>5. /\ L \in SUBSET set /\ S \ L \in SUBSET set /\ L # {} /\ S \ L # {}
          /\ Cardinality(L) \in Nat /\ Cardinality(S \ L) \in Nat
          /\ Cardinality(L) > 0 /\ Cardinality(S \ L) > 0
          /\ Cardinality(L) + Cardinality(S \ L) = Cardinality(S)
      BY <3>4 DEF Halves
    <3>6. PartMade(built, L) /\ PartMade(built, S \ L)
      <4>1. Cardinality(L) < Cardinality(S) /\ Cardinality(S \ L) < Cardinality(S)
        BY <3>5
      <4> QED
        BY <1>1, <3>5, <4>1
    <3>7. /\ LeftPlace(at, L) \in Places /\ LeftPlace(at, L).first = at.first
          /\ RightPlace(at, L) \in Places /\ RightPlace(at, L).first = at.first + Cardinality(L)
      <4>1. NextDim(at.d) \in Dims
        BY <2>2, DimAssumption DEF NextDim, Dims
      <4> QED
        BY <2>2, <3>5, <4>1 DEF LeftPlace, RightPlace, Places
    <3>8. Slot(L, LeftPlace(at, L)) /\ Slot(S \ L, RightPlace(at, L))
      BY <2>2, <3>5, <3>7 DEF Slot, SizesAre
    <3>9. PICK g \in 0..LOG2_SIZE :
            KeepsApart(at.n, Cardinality(S), h, LeftPlace(at, L).n, Cardinality(L),
                       RightPlace(at, L).n, Cardinality(S \ L), g)
      <4>1. CASE median = "spatial"
        <5>1. LeftPlace(at, L).n = at.n + 1 /\ RightPlace(at, L).n = at.n + 2 * Cardinality(L)
          BY <4>1 DEF LeftPlace, RightPlace
        <5>2. PICK lc \in Nat \ {0}, rc \in Nat \ {0} :
                lc = Cardinality(L) /\ rc = Cardinality(S \ L) /\ lc + rc = Cardinality(S)
          BY <3>5
        <5>3. KeepsApart(at.n, lc + rc, h, at.n + 1, lc, at.n + 2 * lc, rc, h)
          BY <2>2, <4>1, <5>2, IdsSplitSpatial
        <5> QED
          BY <5>1, <5>2, <5>3
      <4>2. CASE median = "object"
        <5>1. LeftPlace(at, L).n = 2 * at.n + 1 /\ RightPlace(at, L).n = 2 * at.n + 2
          BY <4>2 DEF LeftPlace, RightPlace
        <5>2. Cardinality(L) = Cardinality(S) \div 2
          BY <3>4, <4>2 DEF ByObject
        <5>3. Cardinality(S \ L) = Cardinality(S) - Cardinality(S) \div 2
          BY <3>5, <5>2
        <5>4. PICK s \in Nat : s = Cardinality(S)
          BY <2>2
        <5>5. /\ h - 1 \in 0..LOG2_SIZE
              /\ KeepsApart(at.n, s, h, 2 * at.n + 1, s \div 2, 2 * at.n + 2, s - s \div 2, h - 1)
          BY <2>2, <3>1, <4>2, <5>4, IdsSplitObject
        <5> QED
          BY <5>1, <5>2, <5>3, <5>4, <5>5
      <4> QED
        BY <4>1, <4>2 DEF SizesAre
    <3> DEFINE lids == IdsOf(LeftPlace(at, L).n, Cardinality(L), g)
               rids == IdsOf(RightPlace(at, L).n, Cardinality(S \ L), g)
    <3>10. /\ HasRoom(LeftPlace(at, L).n, Cardinality(L), g)
           /\ HasRoom(RightPlace(at, L).n, Cardinality(S \ L), g)
           /\ lids \subseteq ids /\ rids \subseteq ids
           /\ at.n \notin lids /\ at.n \notin rids /\ lids \cap rids = {}
      BY <3>9 DEF KeepsApart, ids
    <3>11. TreeMade(l, L, LeftPlace(at, L), lids)
      BY <3>3, <3>5, <3>6, <3>8, <3>10 DEF PartMade
    <3>12. TreeMade(r, S \ L, RightPlace(at, L), rids)
      BY <3>3, <3>5, <3>6, <3>8, <3>10 DEF PartMade
    <3> HIDE DEF lids, rids
    <3>13. TreeMade(BuiltInner(S, L, at, l, r), S, at, ids)
      BY <2>1, <2>3, <3>1, <3>10, <3>11, <3>12, InnerIsMade
    <3> QED
      BY <3>3, <3>13 DEF ids
  <2> QED
    BY <2>5, <2>6
<1>2. \A S \in SUBSET set : S \in F
  <2>1. IsFiniteSet(set)
    BY DEF Given
  <2> HIDE DEF F
  <2> QED
    BY <1>1, <2>1, SubsetInduction
<1> QED
  BY <1>2

Root == [n |-> 0, first |-> 0, d |-> 1]

\* What a build makes of a set that fits into the tree
LEMMA BuildsAre ==
  ASSUME SizesAre, kind \in DOMAIN Kinds, NEW set, Given(set), set # {},
         Cardinality(set) <= max_size
  PROVE  \A b \in Builds(set) : TreeMade(b, set, Root, NodeIds)
<1>1. PICK built :
        /\ Builds(set) = built[set][[n |-> 0, first |-> 0, d |-> 1]]
        /\ \A S \in SUBSET set : \A at \in Places :
             built[S][at] = BuildKdtRecursive(built, S, at)
  BY BuiltIs
<1>2. Root \in Places /\ Root.n = 0 /\ Root.first = 0
  BY DimAssumption DEF Root, Places, Dims
<1>3. Cardinality(set) \in Nat \ {0}
  BY FS_CardinalityType, FS_EmptySet DEF Given
<1>4. Slot(set, Root)
  BY <1>2, <1>3 DEF Slot
<1>5. PICK h \in 0..LOG2_SIZE : max_size = Pow2[h]
  BY KindsAssumption DEF max_size
<1>6. HasRoom(0, Cardinality(set), h)
  BY <1>3, <1>5 DEF HasRoom, SizesAre
<1>7. IdsOf(0, Cardinality(set), h) \subseteq NodeIds
  BY <1>3, <1>6, IdsFit
<1>8. set \in SUBSET set
  OBVIOUS
<1>9. \A b \in built[set][Root] : TreeMade(b, set, Root, IdsOf(0, Cardinality(set), h))
  BY <1>1, <1>2, <1>4, <1>6, <1>8, PartsAreMade DEF PartMade
<1>10. Builds(set) = built[set][Root]
  BY <1>1 DEF Root
<1> QED
  BY <1>2, <1>7, <1>9, <1>10 DEF TreeMade, RootMade

-----------------------------------------------------------------------------
(* The inductive invariant *)

\* The positions the tree was built over
Used == 0..(build_size - 1)

PresentUsed == {x \in Used : present[x]}

Children(n) == {left[n], right[n]} \ {NULL}

\* The slice of c is a part of that of n.
Inside(c, n) ==
  /\ slice[n].first <= slice[c].first
  /\ slice[c].first < slice[c].end
  /\ slice[c].end <= slice[n].end

Below(c, n) ==
  /\ Inside(c, n)
  /\ slice[n].first < slice[c].first \/ slice[c].end < slice[n].end

Apart(a, b) == slice[a].end <= slice[b].first \/ slice[b].end <= slice[a].first

\* erase<false> may have cut off a side of the root.
MayBeHalf == ~LOG_TREE /\ pc \in {"idle", "each", "crashed"}

ItemsInv ==
  /\ \A x \in Used : items[x] \in Points
  /\ \A x, y \in Used : items[x] = items[y] => x = y
  /\ slice[0].first = 0 /\ slice[0].end = build_size

LinksInv(n) ==
  /\ slice[n].end <= build_size
  /\ left[n] # NULL => Below(left[n], n) /\ \A x \in Slice(left[n]) : GoesLeft(n, items[x])
  /\ right[n] # NULL => Below(right[n], n) /\ \A x \in Slice(right[n]) : ~GoesLeft(n, items[x])
  /\ left[n] # NULL /\ right[n] # NULL => slice[left[n]].end <= slice[right[n]].first
  /\ ~IsLeaf(n) => split_dimension[n] \in Dims

HalfInv(n) == (left[n] = NULL) # (right[n] = NULL) => n = 0 /\ MayBeHalf

\* What is present in a node is in its box and in one of its children.
CoverInv(n) ==
  \A x \in PresentIn(n) :
    /\ InBox(box[n], items[x])
    /\ ~IsLeaf(n) => \E c \in Children(n) : x \in Slice(c)

LeafInv(n) ==
  IsLeaf(n) /\ slice[n].first < slice[n].end =>
    /\ num_points[n] = Cardinality(PresentIn(n))
    /\ num_points[n] > 0 => box[n] = LeafBox(n, present)

LeavesApart == \A a, b \in NodeIds : a # b /\ IsLeaf(a) /\ IsLeaf(b) => Apart(a, b)

SidesInv ==
  median = "object" =>
    \A c \in Children(0) : slice[c].end - slice[c].first <= max_size \div 2

TreeInv ==
  /\ ItemsInv /\ LeavesApart /\ SidesInv
  /\ \A n \in NodeIds : LinksInv(n) /\ HalfInv(n) /\ CoverInv(n) /\ LeafInv(n)

CountInv ==
  /\ cur_size = Cardinality(PresentUsed) + SumFunctionOnSet(num_removed, NodeIds)
  /\ \A n \in NodeIds : num_removed[n] # 0 => call[n] = "returned"
  /\ build_size = 0 => present = AllPresent
  /\ use = "static" /\ pc = "idle" /\ cur_size > 0 => cur_size > max_size \div 2

HeldInv ==
  /\ held \subseteq PresentPoints
  /\ pc \in {"idle", "erased"} => PresentPoints \subseteq held
  /\ pc = "each" => PresentPoints \subseteq held \cup to_erase[0] /\ held \cap to_erase[0] = {}
  /\ pc = "bulk" =>
       \A x \in PresentUsed :
         items[x] \in held \/ \E n \in NodeIds : /\ call[n] = "called" /\ x \in Slice(n)
                                                 /\ items[x] \in to_erase[n]
  /\ \A n \in NodeIds : call[n] = "called" => to_erase[n] \cap held = {}

\* The call of b works on what the call of a has forked.
Over(a, b) == call[a] = "forked" /\ (Inside(b, left[a]) \/ Inside(b, right[a]))

CallsInv ==
  /\ pc # "bulk" => \A n \in NodeIds : call[n] = "none"
  /\ pc = "bulk" => cur_size > 0
  /\ \A n \in NodeIds : call[n] # "none" => slice[n].first < slice[n].end
  /\ \A n \in NodeIds : call[n] = "forked" => left[n] # NULL /\ right[n] # NULL
  /\ \A a, b \in NodeIds :
       a # b /\ call[a] # "none" /\ call[b] # "none" => Apart(a, b) \/ Over(a, b) \/ Over(b, a)

\* T holds the nodes that can be reached from m, and each has points.
FullTree(T, m) ==
  /\ T \subseteq NodeIds /\ m \in T
  /\ \A j \in T : Inside(j, m) /\ PresentIn(j) # {} /\ Children(j) \subseteq T
  /\ \A a, b \in T : a # b => Children(a) \cap Children(b) = {}

IsFull(m) == \E T \in SUBSET NodeIds : FullTree(T, m)

\* What is present in n can be reached from m.
StandsFor(m, n) ==
  /\ Inside(m, n) /\ PresentIn(n) \subseteq Slice(m) /\ IsFull(m)
  /\ m # n => ~IsLeaf(n) /\ \E c \in Children(n) : PresentIn(c) = {}

\* What the call of n has returned stands for n.
Stands(n) ==
  IF ret[n] = NULL
    THEN PresentIn(n) = {}
    ELSE \E m \in NodeIds : m = ret[n] /\ StandsFor(m, n)

RetInv == \A n \in NodeIds : call[n] = "returned" => Stands(n)

FullInv ==
  cur_size > 0 /\ (pc \in {"idle", "each"} \/ (LOG_TREE /\ pc = "erased")) =>
    IsFull(0) \/ (LOG_TREE /\ ~RootHasBothSides)

Inv ==
  /\ TypeOK /\ (cur_size > 0 => TreeInv)
  /\ CountInv /\ HeldInv /\ CallsInv /\ RetInv /\ FullInv

-----------------------------------------------------------------------------
(* A tree that has been built *)

TypesBuilt ==
  /\ items \in [Positions -> Points \cup {<<>>}]
  /\ cur_size \in 0..max_size /\ build_size \in 0..max_size
  /\ left \in [NodeIds -> NodeIds \cup {NULL}]
  /\ right \in [NodeIds -> NodeIds \cup {NULL}]
  /\ num_points \in [NodeIds -> -1..max_size]
  /\ split_dimension \in [NodeIds -> Dims \cup {-1}]
  /\ split_value \in [NodeIds -> Int]
  /\ slice \in [NodeIds -> [first : 0..max_size, end : 0..max_size]]
  /\ box \in [NodeIds -> Boxes]

\* The tree is that of b, over k items, all of them present.
IsBuilt(b, k) ==
  /\ build_size = k /\ present = AllPresent
  /\ \A x \in Used : items[x] = b.items[x]
  /\ \A i \in NodeIds :
       IF i \in DOMAIN b.nodes
         THEN /\ left[i] = b.nodes[i].left /\ right[i] = b.nodes[i].right
              /\ num_points[i] = b.nodes[i].num_points
              /\ split_dimension[i] = b.nodes[i].split_dimension
              /\ split_value[i] = b.nodes[i].split_value
              /\ slice[i] = b.nodes[i].slice /\ box[i] = b.nodes[i].box
         ELSE left[i] = NULL /\ right[i] = NULL /\ slice[i].first = 0 /\ slice[i].end = 0

LEMMA IntervalSize ==
  ASSUME NEW first \in Nat, NEW end \in Nat, first < end
  PROVE  Cardinality(first..(end - 1)) = end - first
<1>1. PICK last \in Int : last = end - 1
  OBVIOUS
<1>2. Cardinality(first..last) = IF first > last THEN 0 ELSE last - first + 1
  BY FS_Interval
<1>3. Cardinality(first..last) = last - first + 1
  BY <1>1, <1>2
<1>4. last - first + 1 = end - first
  BY <1>1
<1> QED
  BY <1>1, <1>3, <1>4, Zenon

\* The points given to a build
Fits(S) == S # {} /\ Given(S) /\ S \subseteq Points /\ Cardinality(S) <= max_size

LEMMA TreeIsBuilt ==
  ASSUME SizesAre, NEW S, Fits(S), NEW b, TreeMade(b, S, Root, NodeIds),
         IsBuilt(b, Cardinality(S))
  PROVE  /\ TreeInv /\ IsFull(0)
         /\ PresentPoints = S /\ Cardinality(PresentUsed) = Cardinality(S)
<1> DEFINE k == Cardinality(S)
           D == DOMAIN b.nodes
<1>1. k \in Nat \ {0} /\ k <= max_size /\ max_size \in Nat /\ max_size <= Pow2[LOG2_SIZE]
      /\ Pow2[LOG2_SIZE] \in Nat
  BY FS_CardinalityType, FS_EmptySet, Pow2Assumption DEF Fits, Given, SizesAre
<1>2. /\ Used = 0..(k - 1) /\ Used \subseteq Positions /\ Used \subseteq Nat
      /\ \A x \in Used : present[x]
      /\ build_size = k
  BY <1>1 DEF IsBuilt, Used, Positions, AllPresent
<1>3. /\ DOMAIN b.items = Used /\ \A x \in Used : items[x] = b.items[x] /\ items[x] \in S
      /\ \A p \in S : \E x \in Used : items[x] = p
      /\ \A x, y \in Used : items[x] = items[y] => x = y
  <2>1. ItemsMade(b, S, Root)
    BY DEF TreeMade
  <2>2. DOMAIN b.items = 0..(0 + (k - 1))
    BY <2>1 DEF ItemsMade, Root
  <2>3. 0 + (k - 1) = k - 1
    BY <1>1
  <2>4. DOMAIN b.items = Used
    BY <1>2, <2>2, <2>3
  <2> QED
    BY <2>1, <2>4 DEF ItemsMade, IsBuilt
<1>4. /\ \A i \in NodeIds : i \notin D => left[i] = NULL /\ right[i] = NULL /\ slice[i].first = 0 /\ slice[i].end = 0
      /\ \A i \in NodeIds : i \in D =>
            /\ left[i] = b.nodes[i].left /\ right[i] = b.nodes[i].right
            /\ num_points[i] = b.nodes[i].num_points
            /\ split_dimension[i] = b.nodes[i].split_dimension
            /\ split_value[i] = b.nodes[i].split_value
            /\ slice[i] = b.nodes[i].slice /\ box[i] = b.nodes[i].box
  BY DEF IsBuilt
<1>5. /\ 0 \in D /\ D \subseteq NodeIds
      /\ slice[0].first = 0 /\ slice[0].end = k
  <2>1. RootMade(b, 0, SliceOf(S, Root), NodeIds)
    BY DEF TreeMade, Root
  <2>2. 0 \in D /\ D \subseteq NodeIds /\ b.nodes[0].slice = SliceOf(S, Root)
    BY <2>1 DEF RootMade
  <2>3. SliceOf(S, Root).first = 0 /\ SliceOf(S, Root).end = 0 + k
    BY DEF SliceOf, Root
  <2>4. slice[0] = SliceOf(S, Root)
    BY <1>4, <2>2
  <2> QED
    BY <1>1, <2>2, <2>3, <2>4
<1>6. ASSUME NEW i \in D
      PROVE  /\ slice[i].first \in Nat /\ slice[i].end \in Nat
             /\ slice[i].first < slice[i].end /\ slice[i].end <= k
             /\ Slice(i) = SliceAt(b.nodes[i]) /\ Slice(i) \subseteq Used
             /\ PresentIn(i) = Slice(i) /\ PresentIn(i) # {}
             /\ {items[x] : x \in Slice(i)} = ItemsIn(b, b.nodes[i])
             /\ box[i] = BoxOf({items[x] : x \in Slice(i)})
  <2>1. NodeMade(b, b.nodes[i]) /\ slice[i] = b.nodes[i].slice /\ box[i] = b.nodes[i].box
    BY <1>4, <1>5 DEF TreeMade, NodesMade
  <2>2. /\ b.nodes[i] \in NodeRecords
        /\ slice[i].first < slice[i].end /\ SliceAt(b.nodes[i]) \subseteq DOMAIN b.items
        /\ box[i] = BoxOf(ItemsIn(b, b.nodes[i]))
    BY <2>1 DEF NodeMade
  <2>3. slice[i].first \in Nat /\ slice[i].end \in Nat
    BY <2>1, <2>2 DEF NodeRecords
  <2>4. Slice(i) = SliceAt(b.nodes[i])
    BY <2>1 DEF Slice, SliceAt
  <2>5. Slice(i) \subseteq Used
    BY <1>3, <2>2, <2>4
  <2>6. slice[i].end - 1 \in Slice(i) /\ slice[i].first \in Slice(i)
    BY <2>2, <2>3 DEF Slice
  <2>7. slice[i].end <= k
    BY <1>1, <1>2, <2>3, <2>5, <2>6
  <2>8. PresentIn(i) = Slice(i) /\ PresentIn(i) # {}
    BY <1>2, <2>5, <2>6 DEF PresentIn
  <2>9. {items[x] : x \in Slice(i)} = ItemsIn(b, b.nodes[i])
    BY <1>3, <2>4, <2>5 DEF ItemsIn
  <2> QED
    BY <2>2, <2>3, <2>4, <2>5, <2>7, <2>8, <2>9
<1>7. ASSUME NEW i \in D
      PROVE  \/ left[i] = NULL /\ right[i] = NULL /\ num_points[i] = slice[i].end - slice[i].first
             \/ /\ left[i] \in D /\ right[i] \in D /\ left[i] # right[i]
                /\ slice[left[i]].first = slice[i].first
                /\ slice[left[i]].end = slice[right[i]].first
                /\ slice[right[i]].end = slice[i].end
                /\ split_dimension[i] \in Dims
                /\ \A x \in Slice(left[i]) : GoesLeft(i, items[x])
                /\ \A x \in Slice(right[i]) : ~GoesLeft(i, items[x])
  <2>1. LeafMade(b.nodes[i]) \/ InnerMade(b, b.nodes[i])
    BY DEF TreeMade, NodesMade
  <2>2. CASE LeafMade(b.nodes[i])
    BY <1>4, <1>5, <2>2 DEF LeafMade
  <2>3. CASE InnerMade(b, b.nodes[i])
    <3>1. left[i] = b.nodes[i].left /\ right[i] = b.nodes[i].right /\ slice[i] = b.nodes[i].slice
          /\ split_dimension[i] = b.nodes[i].split_dimension
          /\ split_value[i] = b.nodes[i].split_value
      BY <1>4, <1>5
    <3>2. /\ left[i] \in D /\ right[i] \in D /\ left[i] # right[i]
          /\ b.nodes[left[i]].slice.first = slice[i].first
          /\ b.nodes[left[i]].slice.end = b.nodes[right[i]].slice.first
          /\ b.nodes[right[i]].slice.end = slice[i].end
          /\ split_dimension[i] \in Dims
          /\ \A x \in SliceAt(b.nodes[left[i]]) : b.items[x][split_dimension[i]] < split_value[i]
          /\ \A x \in SliceAt(b.nodes[right[i]]) : ~(b.items[x][split_dimension[i]] < split_value[i])
      BY <2>3, <3>1 DEF InnerMade
    <3>3. slice[left[i]] = b.nodes[left[i]].slice /\ slice[right[i]] = b.nodes[right[i]].slice
      BY <1>4, <1>5, <3>2
    <3>4. /\ Slice(left[i]) = SliceAt(b.nodes[left[i]]) /\ Slice(left[i]) \subseteq Used
          /\ Slice(right[i]) = SliceAt(b.nodes[right[i]]) /\ Slice(right[i]) \subseteq Used
      BY <1>6, <3>2
    <3>5. /\ \A x \in Slice(left[i]) : GoesLeft(i, items[x])
          /\ \A x \in Slice(right[i]) : ~GoesLeft(i, items[x])
      BY <1>3, <3>2, <3>4 DEF GoesLeft
    <3> QED
      BY <3>2, <3>3, <3>5
  <2> QED
    BY <2>1, <2>2, <2>3
<1>20. \A i \in D : /\ slice[i].first \in Nat /\ slice[i].end \in Nat
                    /\ slice[i].first < slice[i].end /\ slice[i].end <= k
  <2> SUFFICES ASSUME NEW i \in D
               PROVE  /\ slice[i].first \in Nat /\ slice[i].end \in Nat
                      /\ slice[i].first < slice[i].end /\ slice[i].end <= k
    OBVIOUS
  <2> QED
    BY <1>6, Zenon
<1>8. NULL \notin D /\ D \subseteq NodeIds /\ NodeIds \subseteq Nat
  BY <1>5, IdsAre
<1>9. ItemsInv
  BY <1>2, <1>3, <1>5 DEF ItemsInv, Fits
<1>10. ASSUME NEW n \in NodeIds, n \notin D
       PROVE  LinksInv(n) /\ HalfInv(n) /\ CoverInv(n) /\ LeafInv(n)
  <2>1. left[n] = NULL /\ right[n] = NULL /\ slice[n].first = 0 /\ slice[n].end = 0 /\ IsLeaf(n)
    BY <1>4, <1>10 DEF IsLeaf
  <2>2. PresentIn(n) = {}
    BY <2>1 DEF PresentIn, Slice
  <2>3. slice[n].end <= build_size /\ ~(slice[n].first < slice[n].end)
    BY <1>1, <1>2, <2>1
  <2> QED
    BY <2>1, <2>2, <2>3 DEF LinksInv, HalfInv, CoverInv, LeafInv
<1>11. ASSUME NEW n \in D
       PROVE  LinksInv(n) /\ HalfInv(n) /\ CoverInv(n) /\ LeafInv(n)
  <2>1. LinksInv(n) /\ HalfInv(n)
    <3>1. CASE left[n] = NULL /\ right[n] = NULL
      BY <1>2, <1>6, <3>1 DEF LinksInv, HalfInv, IsLeaf
    <3>2. CASE ~(left[n] = NULL /\ right[n] = NULL)
      <4>1. /\ left[n] \in D /\ right[n] \in D
            /\ slice[left[n]].first = slice[n].first
            /\ slice[left[n]].end = slice[right[n]].first
            /\ slice[right[n]].end = slice[n].end
            /\ split_dimension[n] \in Dims
            /\ \A x \in Slice(left[n]) : GoesLeft(n, items[x])
            /\ \A x \in Slice(right[n]) : ~GoesLeft(n, items[x])
        BY <1>7, <3>2
      <4>2. /\ slice[left[n]].first \in Nat /\ slice[left[n]].end \in Nat
            /\ slice[left[n]].first < slice[left[n]].end
            /\ slice[right[n]].first \in Nat /\ slice[right[n]].end \in Nat
            /\ slice[right[n]].first < slice[right[n]].end
            /\ slice[n].first \in Nat /\ slice[n].end \in Nat /\ slice[n].end <= k
        BY <1>6, <4>1
      <4>3. Below(left[n], n) /\ Below(right[n], n) /\ slice[left[n]].end <= slice[right[n]].first
        BY <4>1, <4>2 DEF Below, Inside
      <4> QED
        BY <1>2, <1>8, <4>1, <4>2, <4>3 DEF LinksInv, HalfInv
    <3> QED
      BY <3>1, <3>2
  <2>2. CoverInv(n)
    <3> SUFFICES ASSUME NEW x \in PresentIn(n)
                 PROVE  /\ InBox(box[n], items[x])
                        /\ ~IsLeaf(n) => \E c \in Children(n) : x \in Slice(c)
      BY DEF CoverInv
    <3>1. x \in Slice(n) /\ x \in Used /\ items[x] \in S
      BY <1>3, <1>6
    <3>2. InBox(box[n], items[x])
      <4> DEFINE P == {items[y] : y \in Slice(n)}
      <4>1. P \subseteq S /\ items[x] \in P /\ box[n] = BoxOf(P)
        BY <1>3, <1>6, <3>1
      <4>2. IsFiniteSet(P) /\ \A p \in P : p \in [Dims -> Int]
        BY <4>1, FS_Subset DEF Fits, Given
      <4> HIDE DEF P
      <4> QED
        BY <4>1, <4>2, BoxIs
    <3>3. ASSUME ~IsLeaf(n)  PROVE \E c \in Children(n) : x \in Slice(c)
      <4>1. /\ left[n] \in D /\ right[n] \in D
            /\ slice[left[n]].first = slice[n].first
            /\ slice[left[n]].end = slice[right[n]].first
            /\ slice[right[n]].end = slice[n].end
        BY <1>7, <3>3 DEF IsLeaf
      <4>2. left[n] \in Children(n) /\ right[n] \in Children(n)
        BY <1>8, <4>1 DEF Children
      <4>3. slice[n].first \in Nat /\ slice[n].end \in Nat /\ slice[left[n]].end \in Nat /\ x \in Nat
        BY <1>2, <1>6, <3>1, <4>1
      <4>4. x \in Slice(left[n]) \/ x \in Slice(right[n])
        BY <3>1, <4>1, <4>3 DEF Slice
      <4> QED
        BY <4>2, <4>4
    <3> QED
      BY <3>2, <3>3
  <2>3. LeafInv(n)
    <3> SUFFICES ASSUME IsLeaf(n)
                 PROVE  /\ num_points[n] = Cardinality(PresentIn(n))
                        /\ box[n] = LeafBox(n, present)
      BY DEF LeafInv
    <3>1. num_points[n] = slice[n].end - slice[n].first
      BY <1>6, <1>7, <1>8 DEF IsLeaf
    <3>2. Cardinality(Slice(n)) = slice[n].end - slice[n].first
      <4>1. PICK first \in Nat, end \in Nat :
              first = slice[n].first /\ end = slice[n].end /\ first < end
        BY <1>20
      <4>2. Cardinality(first..(end - 1)) = end - first
        BY <4>1, IntervalSize
      <4> QED
        BY <4>1, <4>2 DEF Slice
    <3>3. {y \in Slice(n) : present[y]} = Slice(n)
      BY <1>6 DEF PresentIn
    <3>4. LeafBox(n, present) = BoxOf({items[x] : x \in Slice(n)})
      BY <3>3 DEF LeafBox
    <3> QED
      BY <1>6, <3>1, <3>2, <3>4
  <2> QED
    BY <2>1, <2>2, <2>3
<1>12. LeavesApart
  <2> SUFFICES ASSUME NEW i \in NodeIds, NEW j \in NodeIds, i # j, IsLeaf(i), IsLeaf(j)
               PROVE  Apart(i, j)
    BY DEF LeavesApart
  <2>1. CASE i \notin D \/ j \notin D
    <3>1. \A a \in NodeIds : slice[a].first \in Nat /\ slice[a].end \in Nat
      BY <1>4, <1>20
    <3> QED
      BY <1>4, <2>1, <3>1 DEF Apart
  <2>2. CASE i \in D /\ j \in D
    <3>1. /\ b.nodes[i].left = NULL /\ b.nodes[j].left = NULL
          /\ slice[i] = b.nodes[i].slice /\ slice[j] = b.nodes[j].slice
      BY <1>4, <2>2 DEF IsLeaf
    <3>2. ShapeMade(b)
      BY DEF TreeMade
    <3>3. \/ b.nodes[i].slice.end <= b.nodes[j].slice.first
          \/ b.nodes[j].slice.end <= b.nodes[i].slice.first
      BY <2>2, <3>1, <3>2 DEF ShapeMade
    <3> QED
      BY <3>1, <3>3 DEF Apart
  <2> QED
    BY <2>1, <2>2
<1>13. \A i \in D : Children(i) = ChildrenAt(b.nodes[i]) /\ Children(i) \subseteq D
  BY <1>4, <1>5, <1>7 DEF Children, ChildrenAt
<1>14. SidesInv
  <2> SUFFICES ASSUME median = "object", NEW c \in Children(0)
               PROVE  slice[c].end - slice[c].first <= max_size \div 2
    BY DEF SidesInv
  <2>1. HalvesMade(b, 0)
    BY DEF TreeMade, Root
  <2>2. c \in D /\ c \in ChildrenAt(b.nodes[0])
    BY <1>5, <1>13
  <2>3. 2 * (slice[c].end - slice[c].first) <= (slice[0].end - slice[0].first) + 1
    BY <1>4, <1>5, <2>1, <2>2 DEF HalvesMade
  <2>4. k # 1
    <3>1. left[0] # NULL \/ right[0] # NULL
      BY DEF Children
    <3>2. /\ left[0] \in D /\ right[0] \in D
          /\ slice[left[0]].first = slice[0].first
          /\ slice[left[0]].end = slice[right[0]].first
          /\ slice[right[0]].end = slice[0].end
      BY <1>5, <1>7, <3>1
    <3>3. /\ slice[left[0]].first < slice[left[0]].end
          /\ slice[right[0]].first < slice[right[0]].end
          /\ slice[left[0]].end \in Nat
      BY <1>6, <3>2
    <3> QED
      BY <1>1, <1>5, <3>2, <3>3
  <2>5. max_size % 2 = 0
    BY <1>1, <2>4 DEF SizesAre
  <2>6. PICK s \in Nat : s = slice[c].end - slice[c].first
    BY <1>20, <2>2
  <2>7. 2 * s <= k + 1
    BY <1>1, <1>5, <2>3, <2>6
  <2>8. s <= max_size \div 2
    BY <1>1, <2>5, <2>7
  <2> QED
    BY <2>6, <2>8
<1>15. IsFull(0)
  <2>1. D \in SUBSET NodeIds /\ 0 \in D
    BY <1>5
  <2>2. \A j \in D : Inside(j, 0) /\ PresentIn(j) # {} /\ Children(j) \subseteq D
    <3>1. \A j \in D : Inside(j, 0)
      BY <1>1, <1>5, <1>20 DEF Inside
    <3> QED
      BY <1>6, <1>13, <3>1
  <2>3. \A i, j \in D : i # j => Children(i) \cap Children(j) = {}
    BY <1>13 DEF TreeMade, ShapeMade
  <2>4. FullTree(D, 0)
    BY <2>1, <2>2, <2>3 DEF FullTree
  <2> QED
    BY <2>1, <2>4 DEF IsFull
<1>16. PresentUsed = Used
  BY <1>2 DEF PresentUsed
<1>17. PresentPoints = S
  <2>1. PresentPoints = {items[x] : x \in Used}
    BY <1>2 DEF PresentPoints, Used
  <2> QED
    BY <1>3, <2>1
<1>18. Cardinality(PresentUsed) = k
  <2>1. Cardinality(0..(k - 1)) = k - 0
    BY <1>1, IntervalSize
  <2>2. k - 0 = k
    BY <1>1
  <2> QED
    BY <1>2, <1>16, <2>1, <2>2
<1>19. TreeInv
  BY <1>9, <1>10, <1>11, <1>12, <1>14 DEF TreeInv
<1> QED
  BY <1>15, <1>17, <1>18, <1>19

\* TreeIsBuilt as one formula
TreeIsBuiltFormula ==
  \A S, b :
    SizesAre /\ Fits(S) /\ TreeMade(b, S, Root, NodeIds) /\ IsBuilt(b, Cardinality(S)) =>
      /\ TreeInv /\ IsFull(0)
      /\ PresentPoints = S /\ Cardinality(PresentUsed) = Cardinality(S)

LEMMA TreeIsBuiltHolds == TreeIsBuiltFormula
BY TreeIsBuilt DEF TreeIsBuiltFormula

LEMMA TreeIsBuiltNext == TreeIsBuiltFormula'
BY TreeIsBuiltHolds, PTL

LEMMA BuildMakes ==
  ASSUME kind \in DOMAIN Kinds, kind' = kind, NEW S, Fits(S), Build(S), present' = AllPresent
  PROVE  /\ TypesBuilt' /\ TreeInv' /\ IsFull(0)'
         /\ PresentPoints' = S /\ Cardinality(PresentUsed') = Cardinality(S)
         /\ cur_size' = Cardinality(S) /\ build_size' = Cardinality(S)
<1> DEFINE k == Cardinality(S)
<1>1. SizesAre /\ SameKind
  BY SizesHold, KindStays
<1>2. /\ k \in Nat \ {0} /\ k <= max_size /\ max_size \in Nat /\ max_size <= Pow2[LOG2_SIZE]
      /\ Pow2[LOG2_SIZE] \in Nat
  <2>1. IsFiniteSet(S) /\ S # {} /\ k <= max_size
    BY DEF Fits, Given
  <2>2. k \in Nat \ {0}
    BY <2>1, FS_CardinalityType, FS_EmptySet
  <2>3. max_size \in Nat /\ max_size <= Pow2[LOG2_SIZE]
    BY <1>1 DEF SizesAre
  <2> QED
    BY <2>1, <2>2, <2>3, Pow2Assumption
<1>3. cur_size' = k /\ build_size' = k
  BY DEF Build
<1>4. PICK b \in Builds(S) :
        LET Node(i) == IF i \in DOMAIN b.nodes THEN b.nodes[i] ELSE NoNode
        IN  /\ items' = [x \in Positions |-> IF x < k THEN b.items[x] ELSE <<>>]
            /\ left' = [i \in NodeIds |-> Node(i).left]
            /\ right' = [i \in NodeIds |-> Node(i).right]
            /\ num_points' = [i \in NodeIds |-> Node(i).num_points]
            /\ split_dimension' = [i \in NodeIds |-> Node(i).split_dimension]
            /\ split_value' = [i \in NodeIds |-> Node(i).split_value]
            /\ slice' = [i \in NodeIds |-> Node(i).slice]
            /\ box' = [i \in NodeIds |-> Node(i).box]
  BY DEF Build
<1>5. TreeMade(b, S, Root, NodeIds)
  BY <1>1, BuildsAre DEF Fits
<1>6. /\ DOMAIN b.items = 0..(k - 1) /\ \A x \in DOMAIN b.items : b.items[x] \in Points
  <2>1. ItemsMade(b, S, Root)
    BY <1>5 DEF TreeMade
  <2>2. DOMAIN b.items = 0..(0 + (k - 1))
    BY <2>1 DEF ItemsMade, Root
  <2>3. 0 + (k - 1) = k - 1
    BY <1>2
  <2> QED
    BY <2>1, <2>2, <2>3 DEF ItemsMade, Fits
<1>7. \A i \in DOMAIN b.nodes : b.nodes[i] \in NodeRecords
  BY <1>5 DEF TreeMade, NodesMade, NodeMade
<1> DEFINE Node(i) == IF i \in DOMAIN b.nodes THEN b.nodes[i] ELSE NoNode
<1>8. \A i \in NodeIds : Node(i) \in NodeRecords
  <2>1. NoNode \in NodeRecords
    BY <1>2 DEF NoNode, NodeRecords, Boxes
  <2> QED
    BY <1>7, <2>1
<1>9. /\ left' = [i \in NodeIds |-> Node(i).left]
      /\ right' = [i \in NodeIds |-> Node(i).right]
      /\ num_points' = [i \in NodeIds |-> Node(i).num_points]
      /\ split_dimension' = [i \in NodeIds |-> Node(i).split_dimension]
      /\ split_value' = [i \in NodeIds |-> Node(i).split_value]
      /\ slice' = [i \in NodeIds |-> Node(i).slice]
      /\ box' = [i \in NodeIds |-> Node(i).box]
  BY <1>4
<1>10. items' = [x \in Positions |-> IF x < k THEN b.items[x] ELSE <<>>]
  BY <1>4
<1>11. /\ \A i \in DOMAIN b.nodes : Node(i) = b.nodes[i]
       /\ \A i : i \notin DOMAIN b.nodes =>
            Node(i).left = NULL /\ Node(i).right = NULL /\ Node(i).slice.first = 0 /\ Node(i).slice.end = 0
  BY DEF NoNode
<1> HIDE DEF Node
<1>12. items' \in [Positions -> Points \cup {<<>>}]
  <2>1. \A x \in Positions : x < k => x \in 0..(k - 1)
    BY <1>2 DEF Positions
  <2> QED
    BY <1>6, <1>10, <2>1
<1>13. TypesBuilt'
  <2>1. /\ left' \in [NodeIds -> NodeIds \cup {NULL}]
        /\ right' \in [NodeIds -> NodeIds \cup {NULL}]
        /\ num_points' \in [NodeIds -> -1..max_size]
        /\ split_dimension' \in [NodeIds -> Dims \cup {-1}]
        /\ split_value' \in [NodeIds -> Int]
        /\ slice' \in [NodeIds -> [first : 0..max_size, end : 0..max_size]]
        /\ box' \in [NodeIds -> Boxes]
    BY <1>8, <1>9 DEF NodeRecords
  <2>2. Points' = Points /\ max_size' = max_size
    BY <1>1 DEF SameKind
  <2>3. k \in 0..max_size
    BY <1>2
  <2> QED
    BY <1>3, <1>12, <2>1, <2>2, <2>3 DEF TypesBuilt
<1>14. IsBuilt(b, Cardinality(S))'
  <2>1. ASSUME NEW x \in Used'  PROVE items'[x] = b.items[x]
    <3>1. x \in 0..(k - 1)
      BY <1>3, <2>1 DEF Used
    <3>2. x \in Positions /\ x < k
      BY <1>2, <3>1 DEF Positions
    <3> QED
      BY <1>10, <3>2
  <2>2. ASSUME NEW i \in NodeIds, i \in DOMAIN b.nodes
        PROVE  /\ left'[i] = b.nodes[i].left /\ right'[i] = b.nodes[i].right
               /\ num_points'[i] = b.nodes[i].num_points
               /\ split_dimension'[i] = b.nodes[i].split_dimension
               /\ split_value'[i] = b.nodes[i].split_value
               /\ slice'[i] = b.nodes[i].slice /\ box'[i] = b.nodes[i].box
    BY <1>9, <1>11, <2>2
  <2>3. ASSUME NEW i \in NodeIds, i \notin DOMAIN b.nodes
        PROVE  left'[i] = NULL /\ right'[i] = NULL /\ slice'[i].first = 0 /\ slice'[i].end = 0
    BY <1>9, <1>11, <2>3
  <2> QED
    BY <1>3, <2>1, <2>2, <2>3 DEF IsBuilt
<1>15. SizesAre' /\ Fits(S)'
  BY <1>1 DEF SizesAre, SameKind, Fits, Given
<1>16. TreeMade(b, S, Root, NodeIds)'
  BY <1>1, <1>5 DEF SameKind, TreeMade, ItemsMade, NodesMade, ShapeMade, RootMade, HalvesMade,
                    NodeMade, LeafMade, InnerMade, NodeRecords
<1>17. /\ TreeInv' /\ IsFull(0)'
       /\ PresentPoints' = S /\ Cardinality(PresentUsed') = Cardinality(S)
  BY <1>14, <1>15, <1>16, TreeIsBuiltNext DEF TreeIsBuiltFormula
<1> QED
  BY <1>3, <1>13, <1>17

-----------------------------------------------------------------------------
(* Slices *)

SlicesTyped == \A i \in NodeIds : slice[i].first \in Nat /\ slice[i].end \in Nat

LEMMA SlicesAre ==
  ASSUME SlicesTyped
  PROVE  \A a, b, c \in NodeIds :
           /\ Inside(a, b) /\ Inside(b, c) => Inside(a, c)
           /\ Inside(a, b) /\ Below(b, c) => Below(a, c)
           /\ Below(a, b) /\ Inside(b, c) => Below(a, c)
           /\ ~(Inside(a, b) /\ Below(b, a))
           /\ ~Below(a, a)
           /\ Apart(a, b) => Apart(b, a)
           /\ Apart(a, b) /\ Inside(c, a) => Apart(c, b)
           /\ ~(Inside(a, b) /\ Apart(a, b))
           /\ Inside(a, b) => Slice(a) \subseteq Slice(b) /\ PresentIn(a) \subseteq PresentIn(b)
           /\ Apart(a, b) => Slice(a) \cap Slice(b) = {}
<1> SUFFICES ASSUME NEW a \in NodeIds, NEW b \in NodeIds, NEW c \in NodeIds
             PROVE  /\ Inside(a, b) /\ Inside(b, c) => Inside(a, c)
                    /\ Inside(a, b) /\ Below(b, c) => Below(a, c)
                    /\ Below(a, b) /\ Inside(b, c) => Below(a, c)
                    /\ ~(Inside(a, b) /\ Below(b, a))
                    /\ ~Below(a, a)
                    /\ Apart(a, b) => Apart(b, a)
                    /\ Apart(a, b) /\ Inside(c, a) => Apart(c, b)
                    /\ ~(Inside(a, b) /\ Apart(a, b))
                    /\ Inside(a, b) => Slice(a) \subseteq Slice(b) /\ PresentIn(a) \subseteq PresentIn(b)
                    /\ Apart(a, b) => Slice(a) \cap Slice(b) = {}
  OBVIOUS
<1>1. /\ slice[a].first \in Nat /\ slice[a].end \in Nat
      /\ slice[b].first \in Nat /\ slice[b].end \in Nat
      /\ slice[c].first \in Nat /\ slice[c].end \in Nat
  BY DEF SlicesTyped
<1>2. /\ Inside(a, b) /\ Inside(b, c) => Inside(a, c)
      /\ Inside(a, b) /\ Below(b, c) => Below(a, c)
      /\ Below(a, b) /\ Inside(b, c) => Below(a, c)
      /\ ~(Inside(a, b) /\ Below(b, a))
      /\ ~Below(a, a)
  BY <1>1 DEF Inside, Below
<1>3. /\ Apart(a, b) => Apart(b, a)
      /\ Apart(a, b) /\ Inside(c, a) => Apart(c, b)
      /\ ~(Inside(a, b) /\ Apart(a, b))
  BY <1>1 DEF Inside, Apart
<1>4. Inside(a, b) => Slice(a) \subseteq Slice(b)
  BY <1>1 DEF Inside, Slice
<1>5. Apart(a, b) => Slice(a) \cap Slice(b) = {}
  BY <1>1 DEF Apart, Slice
<1>6. Inside(a, b) => PresentIn(a) \subseteq PresentIn(b)
  BY <1>4 DEF PresentIn
<1> QED
  BY <1>2, <1>3, <1>4, <1>5, <1>6

\* What holds of a node when it holds of all below it holds of every node.
LEMMA SliceInduction ==
  ASSUME SlicesTyped, NEW F,
         \A n \in NodeIds : (\A c \in NodeIds : Below(c, n) => c \in F) => n \in F
  PROVE  \A n \in NodeIds : n \in F
<1> DEFINE K == {k \in Nat : \A n \in NodeIds : slice[n].end - slice[n].first < k => n \in F}
<1>1. \A n, c \in NodeIds :
        Below(c, n) => /\ slice[c].end - slice[c].first < slice[n].end - slice[n].first
                       /\ slice[c].end - slice[c].first > 0
  BY DEF SlicesTyped, Below, Inside
<1>2. \A n \in NodeIds : slice[n].end - slice[n].first \in Int
  BY DEF SlicesTyped
<1>3. 0 \in K
  BY <1>1, <1>2
<1>4. ASSUME NEW k \in Nat, k \in K  PROVE k + 1 \in K
  <2>1. ASSUME NEW n \in NodeIds, slice[n].end - slice[n].first < k + 1  PROVE n \in F
    <3>1. ASSUME NEW c \in NodeIds, Below(c, n)  PROVE c \in F
      <4>1. PICK s \in Int, t \in Int :
              s = slice[n].end - slice[n].first /\ t = slice[c].end - slice[c].first
        BY <1>2
      <4>2. t < s /\ s < k + 1
        BY <1>1, <2>1, <3>1, <4>1
      <4>3. t < k
        BY <4>2
      <4> QED
        BY <1>4, <4>1, <4>3
    <3> QED
      BY <3>1
  <2> QED
    BY <2>1
<1>5. Nat \subseteq K
  <2> HIDE DEF K
  <2> QED
    BY <1>3, <1>4, NatSetInduction
<1>6. ASSUME NEW n \in NodeIds  PROVE n \in F
  <2>1. PICK k \in Nat : slice[n].end - slice[n].first < k
    <3>1. slice[n].first \in Nat /\ slice[n].end \in Nat
      BY DEF SlicesTyped
    <3>2. slice[n].end - slice[n].first < slice[n].end + 1 /\ slice[n].end + 1 \in Nat
      BY <3>1
    <3> QED
      BY <3>2
  <2> QED
    BY <1>5, <2>1
<1> QED
  BY <1>6

\* What the shape of the tree says of a child
LEMMA ChildrenAre ==
  ASSUME TypeOK, TreeInv, NEW n \in NodeIds
  PROVE  /\ \A c \in Children(n) : /\ c \in NodeIds /\ Below(c, n) /\ Inside(c, n) /\ c # n
                                   /\ Slice(c) \subseteq Slice(n)
                                   /\ PresentIn(c) \subseteq PresentIn(n)
         /\ left[n] \in NodeIds \cup {NULL} /\ right[n] \in NodeIds \cup {NULL}
         /\ left[n] # NULL => left[n] \in Children(n)
         /\ right[n] # NULL => right[n] \in Children(n)
         /\ left[n] # NULL /\ right[n] # NULL =>
              Apart(left[n], right[n]) /\ left[n] # right[n]
<1>1. SlicesTyped
  BY DEF TypeOK, SlicesTyped
<1>2. LinksInv(n)
  BY DEF TreeInv
<1>3. left[n] \in NodeIds \cup {NULL} /\ right[n] \in NodeIds \cup {NULL} /\ NULL \notin NodeIds
  BY IdsAre DEF TypeOK
<1>4. \A c \in Children(n) : c \in NodeIds /\ Below(c, n) /\ Inside(c, n)
  BY <1>2, <1>3 DEF LinksInv, Children, Below
<1>5. \A c \in Children(n) : /\ c # n /\ Slice(c) \subseteq Slice(n)
                             /\ PresentIn(c) \subseteq PresentIn(n)
  BY <1>1, <1>4, SlicesAre
<1>6. /\ left[n] # NULL => left[n] \in Children(n)
      /\ right[n] # NULL => right[n] \in Children(n)
  BY DEF Children
<1>7. left[n] # NULL /\ right[n] # NULL => Apart(left[n], right[n])
  BY <1>2 DEF LinksInv, Apart
<1>8. left[n] # NULL /\ right[n] # NULL => left[n] # right[n]
  BY <1>1, <1>3, <1>4, <1>6, <1>7 DEF Apart, Inside, SlicesTyped
<1> QED
  BY <1>3, <1>4, <1>5, <1>6, <1>7, <1>8

\* A present point of a node is in a leaf below it.
LEMMA SomeLeaf ==
  ASSUME TypeOK, TreeInv
  PROVE  \A n \in NodeIds : \A x \in PresentIn(n) :
           \E i \in NodeIds : IsLeaf(i) /\ Inside(i, n) /\ x \in PresentIn(i)
<1> DEFINE F == {n \in NodeIds : \A x \in PresentIn(n) :
                   \E i \in NodeIds : IsLeaf(i) /\ Inside(i, n) /\ x \in PresentIn(i)}
<1>1. SlicesTyped
  BY DEF TypeOK, SlicesTyped
<1>2. ASSUME NEW n \in NodeIds, \A c \in NodeIds : Below(c, n) => c \in F
      PROVE  n \in F
  <2> SUFFICES ASSUME NEW x \in PresentIn(n)
               PROVE  \E i \in NodeIds : IsLeaf(i) /\ Inside(i, n) /\ x \in PresentIn(i)
    OBVIOUS
  <2>1. CASE IsLeaf(n)
    <3>1. Inside(n, n)
      <4>1. x \in slice[n].first..(slice[n].end - 1)
        BY DEF PresentIn, Slice
      <4> QED
        BY <1>1, <4>1 DEF Inside, SlicesTyped
    <3> QED
      BY <2>1, <3>1
  <2>2. CASE ~IsLeaf(n)
    <3>1. PICK c \in Children(n) : x \in Slice(c)
      BY <2>2 DEF TreeInv, CoverInv
    <3>2. c \in NodeIds /\ Below(c, n) /\ Inside(c, n) /\ x \in PresentIn(c)
      BY <3>1, ChildrenAre DEF PresentIn
    <3>3. PICK i \in NodeIds : IsLeaf(i) /\ Inside(i, c) /\ x \in PresentIn(i)
      BY <1>2, <3>2
    <3> QED
      BY <1>1, <3>2, <3>3, SlicesAre
  <2> QED
    BY <2>1, <2>2
<1> HIDE DEF F
<1>3. \A n \in NodeIds : n \in F
  BY <1>1, <1>2, SliceInduction
<1> QED
  BY <1>3 DEF F

-----------------------------------------------------------------------------
(* Recursion down the tree *)

\* f follows the equation of a recursion: base where it ends, and else made by
\* comb of what it is for l and for r.
Follows(f, D, Base, base, l, r, comb) ==
  f = [i \in D |-> IF i \in Base THEN base[i] ELSE comb[i][f[l[i]]][f[r[i]]]]

LEMMA RecursionExists ==
  ASSUME NEW D, NEW V, NEW Base \in SUBSET D, NEW base \in [Base -> V],
         NEW l \in [D \ Base -> D], NEW r \in [D \ Base -> D],
         NEW size \in [D -> Nat], NEW bound \in Nat, \A i \in D : size[i] < bound,
         \A i \in D \ Base : size[l[i]] < size[i] /\ size[r[i]] < size[i],
         NEW comb \in [D \ Base -> [V -> [V -> V]]]
  PROVE  \E f \in [D -> V] : Follows(f, D, Base, base, l, r, comb)
<1> DEFINE Made(f, i) == IF i \in Base THEN base[i] ELSE comb[i][f[l[i]]][f[r[i]]]
           Upto(f, k) == \A i \in D : size[i] < k => f[i] \in V /\ f[i] = Made(f, i)
           K == {k \in Nat : \E f : Upto(f, k)}
<1>1. \A i \in D \ Base : l[i] \in D /\ r[i] \in D
  OBVIOUS
<1>2. ASSUME NEW i \in D, NEW f, NEW g,
             i \notin Base => f[l[i]] = g[l[i]] /\ f[r[i]] = g[r[i]]
      PROVE  Made(f, i) = Made(g, i)
  BY <1>2
<1>3. ASSUME NEW i \in D, NEW f, i \notin Base => f[l[i]] \in V /\ f[r[i]] \in V
      PROVE  Made(f, i) \in V
  BY <1>3
<1> HIDE DEF Made
<1>4. 0 \in K
  OBVIOUS
<1>5. ASSUME NEW k \in Nat, k \in K  PROVE k + 1 \in K
  <2>1. PICK f : Upto(f, k)
    BY <1>5
  <2> DEFINE h == [i \in D |-> Made(f, i)]
  <2>2. ASSUME NEW i \in D, size[i] < k + 1  PROVE h[i] \in V /\ h[i] = Made(h, i)
    <3>1. ASSUME i \notin Base
          PROVE  /\ f[l[i]] = h[l[i]] /\ f[r[i]] = h[r[i]]
                 /\ f[l[i]] \in V /\ f[r[i]] \in V
      <4>1. size[l[i]] < k /\ size[r[i]] < k /\ l[i] \in D /\ r[i] \in D
        BY <1>1, <2>2, <3>1
      <4>2. /\ f[l[i]] \in V /\ f[l[i]] = Made(f, l[i])
            /\ f[r[i]] \in V /\ f[r[i]] = Made(f, r[i])
        BY <2>1, <4>1
      <4> QED
        BY <4>1, <4>2
    <3>2. h[i] = Made(f, i)
      OBVIOUS
    <3> HIDE DEF h
    <3>3. Made(f, i) = Made(h, i)
      BY <1>2, <3>1
    <3>4. Made(f, i) \in V
      BY <1>3, <3>1
    <3> QED
      BY <3>2, <3>3, <3>4, Zenon
  <2> HIDE DEF h
  <2>3. Upto(h, k + 1)
    BY <2>2
  <2> HIDE DEF Upto
  <2>4. \E g : Upto(g, k + 1)
    BY <2>3
  <2> QED
    BY <2>4
<1>6. Nat \subseteq K
  <2> HIDE DEF K
  <2> QED
    BY <1>4, <1>5, NatSetInduction
<1>7. PICK f : Upto(f, bound)
  BY <1>6
<1> DEFINE g == [i \in D |-> f[i]]
<1>8. \A i \in D : f[i] \in V /\ f[i] = Made(f, i)
  BY <1>7
<1>9. ASSUME NEW i \in D  PROVE f[i] = Made(g, i)
  <2>1. i \notin Base => f[l[i]] = g[l[i]] /\ f[r[i]] = g[r[i]]
    BY <1>1
  <2> HIDE DEF g
  <2>2. Made(f, i) = Made(g, i)
    BY <1>2, <2>1
  <2> QED
    BY <1>8, <2>2, Zenon
<1>10. g \in [D -> V] /\ g = [i \in D |-> f[i]]
  BY <1>8
<1> HIDE DEF g
<1>11. g = [i \in D |-> Made(g, i)]
  BY <1>9, <1>10
<1> QED
  BY <1>10, <1>11 DEF Follows, Made

\* A recursion over the nodes that takes the union of what it is for the children
UnionGraph(f, Base, base) ==
  f = [i \in NodeIds \cup {NULL} |->
         IF i \in Base THEN base[i] ELSE f[left[i]] \cup f[right[i]]]

LEMMA TreeUnion ==
  ASSUME TypeOK, TreeInv, NEW U, NEW Base \in SUBSET (NodeIds \cup {NULL}), NULL \in Base,
         \A i \in NodeIds : IsLeaf(i) => i \in Base, NEW base \in [Base -> SUBSET U]
  PROVE  \E f : UnionGraph(f, Base, base)
<1> DEFINE D == NodeIds \cup {NULL}
           V == SUBSET U
           l == [i \in D \ Base |-> left[i]]
           r == [i \in D \ Base |-> right[i]]
           size == [i \in D |-> IF i \in NodeIds /\ slice[i].first < slice[i].end
                                  THEN slice[i].end - slice[i].first ELSE 0]
           join == [a \in V |-> [b \in V |-> a \cup b]]
           comb == [i \in D \ Base |-> join]
<1>1. SlicesTyped /\ \A i \in NodeIds : slice[i].end \in 0..max_size
  BY DEF TypeOK, SlicesTyped
<1>2. max_size \in Nat
  BY SizesHold DEF TypeOK, SizesAre
<1>3. size \in [D -> Nat] /\ \A i \in D : size[i] < max_size + 1
  <2> SUFFICES ASSUME NEW i \in D  PROVE size[i] \in Nat /\ size[i] < max_size + 1
    OBVIOUS
  <2>1. CASE i \in NodeIds
    BY <1>1, <1>2, <2>1 DEF SlicesTyped
  <2>2. CASE i \notin NodeIds
    BY <1>2, <2>2
  <2> QED
    BY <2>1, <2>2
<1>4. \A i \in D \ Base : i \in NodeIds /\ ~IsLeaf(i)
  OBVIOUS
<1>5. l \in [D \ Base -> D] /\ r \in [D \ Base -> D]
  BY <1>4, ChildrenAre
<1>6. ASSUME NEW i \in D \ Base  PROVE size[l[i]] < size[i] /\ size[r[i]] < size[i]
  <2>1. i \in NodeIds /\ ~IsLeaf(i) /\ l[i] = left[i] /\ r[i] = right[i]
    BY <1>4
  <2>2. \A c \in Children(i) : c \in NodeIds /\ Below(c, i)
    BY <2>1, ChildrenAre
  <2>3. \A c \in Children(i) : size[c] < size[i] /\ 0 < size[i]
    <3> SUFFICES ASSUME NEW c \in Children(i)  PROVE size[c] < size[i] /\ 0 < size[i]
      OBVIOUS
    <3>1. c \in NodeIds /\ Below(c, i)
      BY <2>2
    <3> QED
      BY <1>1, <2>1, <3>1 DEF Below, Inside, SlicesTyped
  <2>4. size[NULL] = 0
    BY IdsAre
  <2>5. /\ left[i] \in Children(i) \cup {NULL} /\ right[i] \in Children(i) \cup {NULL}
        /\ Children(i) # {}
    BY <2>1 DEF Children, IsLeaf
  <2> HIDE DEF size, l, r
  <2>6. 0 < size[i]
    BY <2>3, <2>5
  <2> QED
    BY <2>1, <2>3, <2>4, <2>5, <2>6
<1>7. comb \in [D \ Base -> [V -> [V -> V]]]
  <2>1. join \in [V -> [V -> V]]
    OBVIOUS
  <2> QED
    BY <2>1
<1>8. PICK f \in [D -> V] : Follows(f, D, Base, base, l, r, comb)
  <2> HIDE DEF D, V, l, r, size, comb
  <2>1. Base \in SUBSET D /\ base \in [Base -> V] /\ max_size + 1 \in Nat
    BY <1>2 DEF D, V
  <2> QED
    BY <1>3, <1>5, <1>6, <1>7, <2>1, RecursionExists
<1>9. f = [i \in D |-> IF i \in Base THEN base[i] ELSE comb[i][f[l[i]]][f[r[i]]]]
  BY <1>8 DEF Follows
<1>10. ASSUME NEW i \in D \ Base
       PROVE  comb[i][f[l[i]]][f[r[i]]] = f[left[i]] \cup f[right[i]]
  <2>1. f[l[i]] \in V /\ f[r[i]] \in V
    BY <1>5, <1>8
  <2>2. l[i] = left[i] /\ r[i] = right[i] /\ comb[i] = join
    OBVIOUS
  <2> HIDE DEF l, r, comb
  <2>3. join[f[l[i]]][f[r[i]]] = f[l[i]] \cup f[r[i]]
    BY <2>1
  <2> QED
    BY <2>2, <2>3
<1> HIDE DEF comb, l, r
<1>11. f = [i \in D |-> IF i \in Base THEN base[i] ELSE f[left[i]] \cup f[right[i]]]
  BY <1>9, <1>10
<1> QED
  BY <1>11 DEF UnionGraph

-----------------------------------------------------------------------------
(* Leaves *)

LeavesGraph(leaves) ==
  leaves = [i \in NodeIds \cup {NULL} |->
              IF i = NULL THEN {}
              ELSE IF IsLeaf(i) THEN {i}
              ELSE leaves[left[i]] \cup leaves[right[i]]]

LEMMA LeavesIsChosen ==
  \A n : LeavesBelow(n) = (CHOOSE leaves : LeavesGraph(leaves))[n]
BY DEF LeavesBelow, LeavesGraph

LEMMA LeavesAre ==
  ASSUME TypeOK, TreeInv
  PROVE  /\ LeavesBelow(NULL) = {}
         /\ \A n \in NodeIds : IsLeaf(n) => LeavesBelow(n) = {n}
         /\ \A n \in NodeIds : ~IsLeaf(n) =>
              LeavesBelow(n) = LeavesBelow(left[n]) \cup LeavesBelow(right[n])
<1> DEFINE D == NodeIds \cup {NULL}
           Base == {i \in D : i = NULL \/ IsLeaf(i)}
           base == [i \in Base |-> IF i = NULL THEN {} ELSE {i}]
<1>1. PICK f : UnionGraph(f, Base, base)
  <2>1. base \in [Base -> SUBSET NodeIds]
    OBVIOUS
  <2>2. Base \in SUBSET (NodeIds \cup {NULL}) /\ NULL \in Base /\ \A i \in NodeIds : IsLeaf(i) => i \in Base
    OBVIOUS
  <2> HIDE DEF base, Base
  <2> QED
    BY <2>1, <2>2, TreeUnion
<1>2. f = [i \in D |-> IF i = NULL THEN {} ELSE IF IsLeaf(i) THEN {i}
                       ELSE f[left[i]] \cup f[right[i]]]
  <2>1. \A i \in D : (IF i \in Base THEN base[i] ELSE f[left[i]] \cup f[right[i]])
                      = (IF i = NULL THEN {} ELSE IF IsLeaf(i) THEN {i}
                         ELSE f[left[i]] \cup f[right[i]])
    OBVIOUS
  <2> HIDE DEF base, Base
  <2> QED
    BY <1>1, <2>1 DEF UnionGraph
<1>3. \E g : LeavesGraph(g)
  BY <1>2 DEF LeavesGraph
<1>4. PICK leaves : leaves = (CHOOSE g : LeavesGraph(g)) /\ LeavesGraph(leaves)
  BY <1>3
<1>5. \A n : LeavesBelow(n) = leaves[n]
  BY <1>4, LeavesIsChosen
<1>6. \A i \in D : leaves[i] = (IF i = NULL THEN {} ELSE IF IsLeaf(i) THEN {i}
                                ELSE leaves[left[i]] \cup leaves[right[i]])
  BY <1>4 DEF LeavesGraph
<1>7. NULL \notin NodeIds
  BY IdsAre
<1> QED
  BY <1>5, <1>6, <1>7

\* The leaves below a node hold what is present in it; those below a node of a
\* set that is closed under children are in the set.
LEMMA LeavesCover ==
  ASSUME TypeOK, TreeInv, NEW T \in SUBSET NodeIds, \A j \in T : Children(j) \subseteq T
  PROVE  \A n \in NodeIds :
           /\ UNION {PresentIn(i) : i \in LeavesBelow(n)} = PresentIn(n)
           /\ \A i \in LeavesBelow(n) : i \in NodeIds /\ IsLeaf(i) /\ (i = n \/ Below(i, n))
           /\ n \in T => LeavesBelow(n) \subseteq T
<1> DEFINE Good(n) ==
             /\ UNION {PresentIn(i) : i \in LeavesBelow(n)} = PresentIn(n)
             /\ \A i \in LeavesBelow(n) : i \in NodeIds /\ IsLeaf(i) /\ (i = n \/ Below(i, n))
             /\ n \in T => LeavesBelow(n) \subseteq T
           F == {n \in NodeIds : Good(n)}
<1>1. SlicesTyped
  BY DEF TypeOK, SlicesTyped
<1>2. ASSUME NEW n \in NodeIds, \A c \in NodeIds : Below(c, n) => c \in F
      PROVE  n \in F
  <2>1. CASE IsLeaf(n)
    BY <2>1, LeavesAre
  <2>2. CASE ~IsLeaf(n)
    <3>1. LeavesBelow(n) = LeavesBelow(left[n]) \cup LeavesBelow(right[n])
      BY <2>2, LeavesAre
    <3>2. /\ LeavesBelow(NULL) = {} /\ NULL \notin NodeIds
          /\ left[n] \in Children(n) \cup {NULL} /\ right[n] \in Children(n) \cup {NULL}
          /\ Children(n) \subseteq {left[n], right[n]}
      BY LeavesAre, IdsAre DEF Children
    <3>3. \A i : i \in LeavesBelow(n) <=> \E c \in Children(n) : i \in LeavesBelow(c)
      BY <3>1, <3>2 DEF Children
    <3>4. \A c \in Children(n) : /\ c \in NodeIds /\ Below(c, n) /\ Good(c)
                                 /\ PresentIn(c) \subseteq PresentIn(n)
      BY <1>2, ChildrenAre
    <3>5. \A x \in PresentIn(n) : \E c \in Children(n) : x \in PresentIn(c)
      BY <2>2 DEF TreeInv, CoverInv, PresentIn
    <3>6. \A i \in LeavesBelow(n) : i \in NodeIds /\ IsLeaf(i) /\ Below(i, n)
      <4> SUFFICES ASSUME NEW i \in LeavesBelow(n)
                   PROVE  i \in NodeIds /\ IsLeaf(i) /\ Below(i, n)
        OBVIOUS
      <4>1. PICK c \in Children(n) : i \in LeavesBelow(c)
        BY <3>3
      <4>2. c \in NodeIds /\ Below(c, n) /\ i \in NodeIds /\ IsLeaf(i) /\ (i = c \/ Below(i, c))
        BY <3>4, <4>1
      <4> QED
        BY <1>1, <4>2, SlicesAre DEF Below
    <3>7. UNION {PresentIn(i) : i \in LeavesBelow(n)} = PresentIn(n)
      <4>1. ASSUME NEW x \in PresentIn(n)  PROVE \E i \in LeavesBelow(n) : x \in PresentIn(i)
        <5>1. PICK c \in Children(n) : x \in PresentIn(c)
          BY <3>5
        <5>2. x \in UNION {PresentIn(i) : i \in LeavesBelow(c)}
          BY <3>4, <5>1
        <5> QED
          BY <3>3, <5>1, <5>2
      <4>2. ASSUME NEW i \in LeavesBelow(n)  PROVE PresentIn(i) \subseteq PresentIn(n)
        <5>1. PICK c \in Children(n) : i \in LeavesBelow(c)
          BY <3>3
        <5>2. PresentIn(i) \subseteq PresentIn(c)
          BY <3>4, <5>1
        <5> QED
          BY <3>4, <5>2
      <4> QED
        BY <4>1, <4>2
    <3>8. n \in T => LeavesBelow(n) \subseteq T
      BY <3>3, <3>4
    <3> QED
      BY <3>6, <3>7, <3>8
  <2> QED
    BY <2>1, <2>2
<1> HIDE DEF F
<1>3. \A n \in NodeIds : n \in F
  BY <1>1, <1>2, SliceInduction
<1> QED
  BY <1>3 DEF F

-----------------------------------------------------------------------------
(* Range queries *)

QueryGraph(query, q) ==
  query = [n \in NodeIds \cup {NULL} |->
             IF n = NULL \/ Excludes(q, box[n]) THEN {}
             ELSE IF Includes(q, box[n]) THEN {items[x] : x \in PresentIn(n)}
             ELSE IF IsLeaf(n)
               THEN {p \in {items[x] : x \in PresentIn(n)} : InBox(q, p)}
             ELSE query[left[n]] \cup query[right[n]]]

LEMMA QueryIsChosen ==
  \A q : RangeQuery(q) = IF cur_size = 0 THEN {} ELSE (CHOOSE query : QueryGraph(query, q))[0]
BY DEF RangeQuery, QueryGraph

PointsIn(n, q) == {p \in {items[x] : x \in PresentIn(n)} : InBox(q, p)}

LEMMA PresentAre ==
  ASSUME TypeOK, TreeInv, NEW n \in NodeIds
  PROVE  /\ PresentIn(n) \subseteq PresentUsed
         /\ \A x \in PresentIn(n) :
              x \in Used /\ items[x] \in Points /\ InBox(box[n], items[x])
<1>1. slice[n].first \in Nat /\ slice[n].end \in Nat /\ slice[n].end <= build_size /\ build_size \in Nat
  <2>1. max_size \in Nat
    BY SizesHold DEF TypeOK, SizesAre
  <2> QED
    BY <2>1 DEF TypeOK, TreeInv, LinksInv
<1>2. \A x \in PresentIn(n) : x \in Used /\ present[x]
  BY <1>1 DEF PresentIn, Slice, Used
<1> QED
  BY <1>2 DEF PresentUsed, TreeInv, ItemsInv, CoverInv

LEMMA QueryIs ==
  ASSUME TypeOK, TreeInv, cur_size > 0, NEW q \in Boxes
  PROVE  RangeQuery(q) = PointsIn(0, q)
<1> DEFINE D == NodeIds \cup {NULL}
           Base == {i \in D : i = NULL \/ Excludes(q, box[i]) \/ Includes(q, box[i]) \/ IsLeaf(i)}
           base == [i \in Base |->
                      IF i = NULL \/ Excludes(q, box[i]) THEN {}
                      ELSE IF Includes(q, box[i]) THEN {items[x] : x \in PresentIn(i)}
                      ELSE PointsIn(i, q)]
<1>1. SlicesTyped
  BY DEF TypeOK, SlicesTyped
<1>2. PICK f : UnionGraph(f, Base, base)
  <2>1. base \in [Base -> SUBSET Points]
    <3>1. \A i \in NodeIds : {items[x] : x \in PresentIn(i)} \subseteq Points /\ PointsIn(i, q) \subseteq Points
      BY PresentAre DEF PointsIn
    <3> QED
      BY <3>1
  <2>2. Base \in SUBSET (NodeIds \cup {NULL}) /\ NULL \in Base /\ \A i \in NodeIds : IsLeaf(i) => i \in Base
    OBVIOUS
  <2> HIDE DEF base, Base
  <2> QED
    BY <2>1, <2>2, TreeUnion
<1>3. QueryGraph(f, q)
  <2>1. \A i \in D : (IF i \in Base THEN base[i] ELSE f[left[i]] \cup f[right[i]])
                      = (IF i = NULL \/ Excludes(q, box[i]) THEN {}
                         ELSE IF Includes(q, box[i]) THEN {items[x] : x \in PresentIn(i)}
                         ELSE IF IsLeaf(i)
                           THEN {p \in {items[x] : x \in PresentIn(i)} : InBox(q, p)}
                         ELSE f[left[i]] \cup f[right[i]])
    BY DEF PointsIn
  <2> HIDE DEF base, Base
  <2> QED
    BY <1>2, <2>1 DEF UnionGraph, QueryGraph
<1>4. PICK query : query = (CHOOSE g : QueryGraph(g, q)) /\ QueryGraph(query, q)
  BY <1>3
<1>5. /\ query[NULL] = {}
      /\ \A n \in NodeIds : query[n] = (IF Excludes(q, box[n]) THEN {}
                                        ELSE IF Includes(q, box[n]) THEN {items[x] : x \in PresentIn(n)}
                                        ELSE IF IsLeaf(n) THEN PointsIn(n, q)
                                        ELSE query[left[n]] \cup query[right[n]])
  <2>1. \A n \in NodeIds \cup {NULL} :
          query[n] = (IF n = NULL \/ Excludes(q, box[n]) THEN {}
                      ELSE IF Includes(q, box[n]) THEN {items[x] : x \in PresentIn(n)}
                      ELSE IF IsLeaf(n) THEN {p \in {items[x] : x \in PresentIn(n)} : InBox(q, p)}
                      ELSE query[left[n]] \cup query[right[n]])
    BY <1>4 DEF QueryGraph
  <2>2. query[NULL] = {}
    BY <2>1
  <2>3. \A n \in NodeIds : n # NULL
    BY IdsAre
  <2> QED
    BY <2>1, <2>2, <2>3 DEF PointsIn
<1> HIDE DEF Base, base
<1> DEFINE F == {n \in NodeIds : query[n] = PointsIn(n, q)}
<1>6. ASSUME NEW n \in NodeIds, \A c \in NodeIds : Below(c, n) => c \in F
      PROVE  n \in F
  <2>1. box[n] \in Boxes /\ \A x \in PresentIn(n) : items[x] \in [Dims -> Int] /\ InBox(box[n], items[x])
    <3>1. \A p \in Points : p \in [Dims -> Int]
      BY SizesHold DEF TypeOK, SizesAre
    <3> QED
      BY <3>1, PresentAre DEF TypeOK, Boxes
  <2>2. CASE Excludes(q, box[n])
    <3>1. PICK d \in Dims : q.max[d] < box[n].min[d] \/ q.min[d] > box[n].max[d]
      BY <2>2 DEF Excludes
    <3>2. \A x \in PresentIn(n) : ~InBox(q, items[x])
      BY <2>1, <3>1 DEF InBox, Boxes
    <3>3. PointsIn(n, q) = {}
      BY <3>2 DEF PointsIn
    <3>4. query[n] = {}
      BY <1>5, <2>2
    <3> QED
      BY <3>3, <3>4
  <2>3. CASE ~Excludes(q, box[n]) /\ Includes(q, box[n])
    <3>1. \A d \in Dims : q.min[d] <= box[n].min[d] /\ box[n].max[d] <= q.max[d]
      BY <2>3 DEF Includes
    <3>2. \A x \in PresentIn(n) : InBox(q, items[x])
      BY <2>1, <3>1 DEF InBox, Boxes
    <3>3. PointsIn(n, q) = {items[x] : x \in PresentIn(n)}
      BY <3>2 DEF PointsIn
    <3>4. query[n] = {items[x] : x \in PresentIn(n)}
      BY <1>5, <2>3
    <3> QED
      BY <3>3, <3>4
  <2>4. CASE ~Excludes(q, box[n]) /\ ~Includes(q, box[n]) /\ IsLeaf(n)
    BY <1>5, <2>4
  <2>5. CASE ~Excludes(q, box[n]) /\ ~Includes(q, box[n]) /\ ~IsLeaf(n)
    <3>1. query[n] = query[left[n]] \cup query[right[n]]
      BY <1>5, <2>5
    <3>2. \A c \in Children(n) : /\ c \in NodeIds /\ query[c] = PointsIn(c, q)
                                 /\ PresentIn(c) \subseteq PresentIn(n)
      BY <1>6, ChildrenAre
    <3>3. \A x \in PresentIn(n) : \E c \in Children(n) : x \in PresentIn(c)
      BY <2>5 DEF TreeInv, CoverInv, PresentIn
    <3>4. \A p : p \in query[n] <=> \E c \in Children(n) : p \in PointsIn(c, q)
      BY <1>5, <3>1, <3>2 DEF Children
    <3>5. \A p : p \in PointsIn(n, q) <=> \E c \in Children(n) : p \in PointsIn(c, q)
      BY <3>2, <3>3 DEF PointsIn
    <3> QED
      BY <3>4, <3>5 DEF PointsIn
  <2> QED
    BY <2>2, <2>3, <2>4, <2>5
<1> HIDE DEF F
<1>7. \A n \in NodeIds : n \in F
  BY <1>1, <1>6, SliceInduction
<1>8. query[0] = PointsIn(0, q)
  BY <1>7, IdsAre DEF F
<1>9. cur_size # 0
  OBVIOUS
<1> QED
  BY <1>4, <1>8, <1>9, QueryIsChosen

-----------------------------------------------------------------------------
(* Walks *)

Step1(p, w) ==
  [node |-> Towards(w.node, p), parent |-> w.node, gparent |-> w.parent]

WalkGraph(walk, p) ==
  walk = [w \in Walks |->
            IF w.node = NULL \/ IsLeaf(w.node) THEN w ELSE walk[Step1(p, w)]]

FirstWalk == [node |-> 0, parent |-> NULL, gparent |-> NULL]

LEMMA WalkIsChosen ==
  \A p : Walk(p) = (CHOOSE walk : WalkGraph(walk, p))[FirstWalk]
BY DEF Walk, WalkGraph, Step1, FirstWalk

\* The nodes of a walk are linked, from the root on, and a point that is
\* present is below the last.
Linked(w, p) ==
  /\ w \in Walks
  /\ w.node # NULL =>
       \/ w.node = 0 /\ w.parent = NULL /\ w.gparent = NULL
       \/ /\ w.parent \in NodeIds /\ w.node \in Children(w.parent)
          /\ \/ w.parent = 0 /\ w.gparent = NULL
             \/ w.gparent \in NodeIds /\ w.parent \in Children(w.gparent)
  /\ \A x \in PresentUsed : items[x] = p => w.node # NULL /\ x \in PresentIn(w.node)
  /\ ~RootIsHalf => w.node # NULL
  /\ \A T \in SUBSET NodeIds : 0 \in T /\ (\A j \in T : Children(j) \subseteq T) =>
       {w.node, w.parent, w.gparent} \subseteq T \cup {NULL}

LEMMA WalkStarts ==
  ASSUME TypeOK, TreeInv, NEW p
  PROVE  Linked(FirstWalk, p)
<1>1. FirstWalk \in Walks /\ FirstWalk.node = 0 /\ FirstWalk.parent = NULL /\ FirstWalk.gparent = NULL
  BY IdsAre DEF FirstWalk, Walks
<1>2. ASSUME NEW x \in PresentUsed  PROVE x \in PresentIn(0)
  <2>1. slice[0].first = 0 /\ slice[0].end = build_size
    BY DEF TreeInv, ItemsInv
  <2> QED
    BY <1>2, <2>1 DEF PresentUsed, PresentIn, Slice, Used
<1> QED
  BY <1>1, <1>2, IdsAre DEF Linked

LEMMA WalkGoesOn ==
  ASSUME TypeOK, TreeInv, cur_size > 0, NEW p, NEW w, Linked(w, p), w.node # NULL, ~IsLeaf(w.node)
  PROVE  /\ Linked(Step1(p, w), p)
         /\ Step1(p, w).node = NULL \/ Below(Step1(p, w).node, w.node)
<1> DEFINE n == w.node
           v == Step1(p, w)
<1>1. n \in NodeIds /\ w.parent \in NodeIds \cup {NULL} /\ NULL \notin NodeIds
  BY IdsAre DEF Linked, Walks
<1>2. v.node = Towards(n, p) /\ v.parent = n /\ v.gparent = w.parent
  BY DEF Step1
<1>3. v \in Walks
  BY <1>1, ChildrenAre DEF Step1, Walks, Towards
<1>4. \/ v.node = NULL
      \/ v.node \in Children(n) /\ Below(v.node, n) /\ v.node # 0
  <2>1. Towards(n, p) = NULL \/ Towards(n, p) \in Children(n)
    BY DEF Towards, Children
  <2>2. \A c \in Children(n) : Below(c, n) /\ c \in NodeIds
    BY <1>1, ChildrenAre
  <2>3. \A c \in Children(n) : c # 0
    <3>1. slice[0].first = 0 /\ slice[0].end = build_size
      BY DEF TreeInv, ItemsInv
    <3>2. slice[n].end <= build_size /\ slice[n].end \in Nat /\ slice[n].first \in Nat
      BY <1>1 DEF TreeInv, LinksInv, TypeOK
    <3>3. build_size \in Int
      BY <1>1 DEF TypeOK
    <3> QED
      BY <2>2, <3>1, <3>2, <3>3 DEF Below, Inside
  <2> QED
    BY <1>2, <2>1, <2>2, <2>3
<1>5. v.node # NULL =>
        /\ v.parent \in NodeIds /\ v.node \in Children(v.parent)
        /\ \/ v.parent = 0 /\ v.gparent = NULL
           \/ v.gparent \in NodeIds /\ v.parent \in Children(v.gparent)
  BY <1>1, <1>2, <1>4 DEF Linked
<1>6. ASSUME NEW x \in PresentUsed, items[x] = p  PROVE v.node # NULL /\ x \in PresentIn(v.node)
  <2>1. x \in PresentIn(n)
    BY <1>6 DEF Linked
  <2>2. PICK c \in Children(n) : x \in Slice(c)
    BY <1>1, <2>1 DEF TreeInv, CoverInv
  <2>3. c # NULL /\ (c = left[n] \/ c = right[n])
    BY DEF Children
  <2>4. /\ c = left[n] => GoesLeft(n, p)
        /\ c = right[n] => ~GoesLeft(n, p)
    BY <1>1, <1>6, <2>2, <2>3 DEF TreeInv, LinksInv
  <2>5. v.node = c
    BY <1>2, <2>3, <2>4 DEF Towards
  <2>6. x \in PresentIn(c)
    BY <2>1, <2>2 DEF PresentIn
  <2> QED
    BY <2>3, <2>5, <2>6
<1>7. ~RootIsHalf => v.node # NULL
  <2>1. (left[n] = NULL) # (right[n] = NULL) => RootIsHalf
    <3>1. HalfInv(n)
      BY <1>1 DEF TreeInv
    <3> QED
      BY <3>1 DEF HalfInv, RootIsHalf
  <2>2. ~RootIsHalf => left[n] # NULL /\ right[n] # NULL
    BY <2>1 DEF IsLeaf
  <2> QED
    BY <1>2, <2>2 DEF Towards
<1>8. ASSUME NEW T \in SUBSET NodeIds, 0 \in T, \A j \in T : Children(j) \subseteq T
      PROVE  {v.node, v.parent, v.gparent} \subseteq T \cup {NULL}
  <2>1. {w.node, w.parent, w.gparent} \subseteq T \cup {NULL}
    BY <1>8 DEF Linked
  <2>2. n \in T /\ w.parent \in T \cup {NULL}
    BY <1>1, <2>1
  <2> QED
    BY <1>2, <1>4, <1>8, <2>2
<1>9. Linked(v, p)
  BY <1>3, <1>5, <1>6, <1>7, <1>8 DEF Linked
<1> QED
  BY <1>4, <1>9

LEMMA WalkGraphExists ==
  ASSUME TypeOK, TreeInv, NEW p
  PROVE  \E walk : WalkGraph(walk, p)
<1> DEFINE Base == {w \in Walks : w.node = NULL \/ IsLeaf(w.node)}
           base == [w \in Base |-> w]
           l == [w \in Walks \ Base |-> Step1(p, w)]
           size == [w \in Walks |->
                      IF w.node \in NodeIds /\ slice[w.node].first < slice[w.node].end
                        THEN slice[w.node].end - slice[w.node].first ELSE 0]
           first == [a \in Walks |-> [b \in Walks |-> a]]
           comb == [w \in Walks \ Base |-> first]
<1>1. SlicesTyped /\ \A i \in NodeIds : slice[i].end \in 0..max_size
  BY DEF TypeOK, SlicesTyped
<1>2. max_size \in Nat /\ max_size + 1 \in Nat
  <2>1. max_size \in Nat
    BY SizesHold DEF TypeOK, SizesAre
  <2> QED
    BY <2>1
<1>3. size \in [Walks -> Nat] /\ \A w \in Walks : size[w] < max_size + 1
  <2> SUFFICES ASSUME NEW w \in Walks  PROVE size[w] \in Nat /\ size[w] < max_size + 1
    OBVIOUS
  <2>1. CASE w.node \in NodeIds
    BY <1>1, <1>2, <2>1 DEF SlicesTyped
  <2>2. CASE w.node \notin NodeIds
    BY <1>2, <2>2
  <2> QED
    BY <2>1, <2>2
<1>4. ASSUME NEW w \in Walks \ Base
      PROVE  l[w] \in Walks /\ size[l[w]] < size[w] /\ l[w] = Step1(p, w)
  <2>1. w.node \in NodeIds /\ ~IsLeaf(w.node) /\ w.parent \in NodeIds \cup {NULL}
    BY DEF Walks
  <2>2. l[w] = [node |-> Towards(w.node, p), parent |-> w.node, gparent |-> w.parent]
    BY DEF Step1
  <2>3. \A c \in Children(w.node) : c \in NodeIds /\ Below(c, w.node)
    BY <2>1, ChildrenAre
  <2>4. l[w] \in Walks
    BY <2>1, <2>2, ChildrenAre DEF Walks, Towards
  <2>5. \A c \in Children(w.node) :
          /\ slice[c].first < slice[c].end /\ slice[w.node].first < slice[w.node].end
          /\ slice[c].end - slice[c].first < slice[w.node].end - slice[w.node].first
    BY <1>1, <2>1, <2>3 DEF Below, Inside, SlicesTyped
  <2>6. Children(w.node) # {} /\ l[w].node \in Children(w.node) \cup {NULL}
    BY <2>1, <2>2 DEF Children, IsLeaf, Towards
  <2>7. size[w] = slice[w.node].end - slice[w.node].first /\ 0 < size[w]
    BY <1>1, <2>1, <2>5, <2>6 DEF SlicesTyped
  <2>8. CASE l[w].node = NULL
    <3>1. size[l[w]] = 0
      BY <2>4, <2>8, IdsAre
    <3> QED
      BY <2>4, <2>7, <3>1
  <2>9. CASE l[w].node \in Children(w.node)
    <3>1. size[l[w]] = slice[l[w].node].end - slice[l[w].node].first
      BY <2>3, <2>4, <2>5, <2>9
    <3> QED
      BY <2>4, <2>5, <2>7, <2>9, <3>1
  <2> QED
    BY <2>4, <2>6, <2>8, <2>9
<1>5. comb \in [Walks \ Base -> [Walks -> [Walks -> Walks]]]
  <2>1. first \in [Walks -> [Walks -> Walks]]
    OBVIOUS
  <2> QED
    BY <2>1
<1>6. Base \in SUBSET Walks /\ base \in [Base -> Walks] /\ l \in [Walks \ Base -> Walks]
  BY <1>4
<1>7. PICK f \in [Walks -> Walks] : Follows(f, Walks, Base, base, l, l, comb)
  <2> HIDE DEF Base, base, l, size, comb
  <2> QED
    BY <1>2, <1>3, <1>4, <1>5, <1>6, RecursionExists
<1>8. f = [w \in Walks |-> IF w \in Base THEN base[w] ELSE comb[w][f[l[w]]][f[l[w]]]]
  BY <1>7 DEF Follows
<1>9. ASSUME NEW w \in Walks
      PROVE  (IF w \in Base THEN base[w] ELSE comb[w][f[l[w]]][f[l[w]]])
              = (IF w.node = NULL \/ IsLeaf(w.node) THEN w ELSE f[Step1(p, w)])
  <2>1. CASE w \in Base
    BY <2>1
  <2>2. CASE w \notin Base
    <3>1. l[w] = Step1(p, w) /\ f[l[w]] \in Walks /\ comb[w] = first
      BY <1>4, <1>7, <2>2
    <3>2. \A a \in Walks : first[a][a] = a
      OBVIOUS
    <3> QED
      BY <2>2, <3>1, <3>2
  <2> QED
    BY <2>1, <2>2
<1> HIDE DEF Base, base, l, comb
<1>10. WalkGraph(f, p)
  BY <1>8, <1>9 DEF WalkGraph
<1> QED
  BY <1>10

LEMMA WalkIs ==
  ASSUME TypeOK, TreeInv, cur_size > 0, NEW p
  PROVE  Linked(Walk(p), p) /\ (Walk(p).node = NULL \/ IsLeaf(Walk(p).node))
<1>1. PICK walk : walk = (CHOOSE g : WalkGraph(g, p)) /\ WalkGraph(walk, p)
  BY WalkGraphExists
<1>2. \A w \in Walks : walk[w] = (IF w.node = NULL \/ IsLeaf(w.node) THEN w ELSE walk[Step1(p, w)])
  BY <1>1 DEF WalkGraph
<1> DEFINE Ends(w) == Linked(walk[w], p) /\ (walk[w].node = NULL \/ IsLeaf(walk[w].node))
           F == {n \in NodeIds : \A w \in Walks : w.node = n /\ Linked(w, p) => Ends(w)}
<1>3. \A w \in Walks : (w.node = NULL \/ IsLeaf(w.node)) /\ Linked(w, p) => Ends(w)
  BY <1>2
<1>4. ASSUME NEW n \in NodeIds, \A c \in NodeIds : Below(c, n) => c \in F
      PROVE  n \in F
  <2> SUFFICES ASSUME NEW w \in Walks, w.node = n, Linked(w, p)  PROVE Ends(w)
    OBVIOUS
  <2>1. CASE IsLeaf(n)
    BY <1>3, <2>1
  <2>2. CASE ~IsLeaf(n)
    <3>1. n # NULL
      BY IdsAre
    <3>2. /\ Linked(Step1(p, w), p)
          /\ Step1(p, w).node = NULL \/ Below(Step1(p, w).node, n)
      BY <2>2, <3>1, WalkGoesOn
    <3>3. Step1(p, w) \in Walks
      BY <3>2 DEF Linked
    <3>4. walk[w] = walk[Step1(p, w)]
      BY <1>2, <2>2, <3>1
    <3>5. Ends(Step1(p, w))
      <4>1. CASE Step1(p, w).node = NULL
        BY <1>3, <3>2, <3>3, <4>1
      <4>2. CASE Step1(p, w).node # NULL
        <5>1. Step1(p, w).node \in NodeIds
          BY <3>3, <4>2 DEF Walks
        <5>2. Step1(p, w).node \in F
          BY <1>4, <3>2, <4>2, <5>1
        <5> QED
          BY <3>2, <3>3, <5>2
      <4> QED
        BY <4>1, <4>2
    <3> QED
      BY <3>4, <3>5
  <2> QED
    BY <2>1, <2>2
<1>5. SlicesTyped
  BY DEF TypeOK, SlicesTyped
<1> HIDE DEF F
<1>6. \A n \in NodeIds : n \in F
  BY <1>4, <1>5, SliceInduction
<1>7. 0 \in F /\ FirstWalk.node = 0 /\ Linked(FirstWalk, p) /\ FirstWalk \in Walks
  BY <1>6, IdsAre, WalkStarts DEF FirstWalk, Linked
<1>8. Ends(FirstWalk)
  BY <1>7 DEF F
<1>9. Walk(p) = walk[FirstWalk]
  BY <1>1, WalkIsChosen
<1> QED
  BY <1>8, <1>9

-----------------------------------------------------------------------------
(* What the invariant says of a tree that is left alone *)

LEMMA SumZero ==
  ASSUME NEW S, IsFiniteSet(S), NEW f, \A x \in S : f[x] = 0
  PROVE  SumFunctionOnSet(f, S) = 0
<1> DEFINE F == {s \in SUBSET S : SumFunctionOnSet(f, s) = 0}
<1>1. ASSUME NEW s \in SUBSET S, \A r \in SUBSET S : Cardinality(r) < Cardinality(s) => r \in F
      PROVE  s \in F
  <2>1. CASE s = {}
    BY <2>1, SumEmpty
  <2>2. CASE s # {}
    <3>1. PICK x \in s : TRUE
      BY <2>2
    <3>2. IsFiniteSet(s) /\ \A y \in s : f[y] \in Int /\ f[y] = 0
      BY FS_Subset
    <3>3. SumFunctionOnSet(f, s) = f[x] + SumFunctionOnSet(f, s \ {x})
      BY <3>2, SumRemove
    <3>4. s \ {x} \in F
      <4>1. /\ s \ {x} \in SUBSET S /\ Cardinality(s) \in Nat /\ Cardinality(s \ {x}) \in Nat
            /\ Cardinality(s) = Cardinality(s \ {x}) + 1
        BY SmallerSubset
      <4>2. PICK big \in Nat, small \in Nat : big = Cardinality(s) /\ small = Cardinality(s \ {x})
        BY <4>1
      <4>3. small < big
        BY <4>1, <4>2
      <4>4. Cardinality(s \ {x}) < Cardinality(s)
        BY <4>2, <4>3, Zenon
      <4> HIDE DEF F
      <4> QED
        BY <1>1, <4>1, <4>4, Zenon
    <3> QED
      BY <3>2, <3>3, <3>4
  <2> QED
    BY <2>1, <2>2
<1> HIDE DEF F
<1>2. \A s \in SUBSET S : s \in F
  BY <1>1, SubsetInduction
<1> QED
  BY <1>2 DEF F

LEMMA ImageSize ==
  ASSUME NEW S, IsFiniteSet(S), NEW f, \A x, y \in S : f[x] = f[y] => x = y
  PROVE  Cardinality({f[x] : x \in S}) = Cardinality(S)
<1> DEFINE T == {f[x] : x \in S}
           g == [x \in S |-> f[x]]
<1>1. g \in Surjection(S, T) /\ g \in Injection(S, T)
  BY DEF Surjection, Injection, IsInjective
<1> HIDE DEF g
<1>2. Cardinality(T) = Cardinality(S)
  BY <1>1, FS_Surjection
<1> QED
  BY <1>2

LEMMA UsedAre ==
  ASSUME TypeOK
  PROVE  /\ SizesAre /\ SlicesTyped
         /\ cur_size \in Nat /\ build_size \in Nat /\ build_size <= max_size
         /\ Used \subseteq Positions /\ IsFiniteSet(Used) /\ IsFiniteSet(PresentUsed)
         /\ PresentUsed \subseteq Used /\ Cardinality(PresentUsed) \in Nat
         /\ Cardinality(PresentUsed) <= build_size
         /\ PresentPoints = {items[x] : x \in PresentUsed}
         /\ build_size = 0 => Used = {} /\ PresentUsed = {} /\ PresentPoints = {}
<1>1. SizesAre
  BY SizesHold DEF TypeOK
<1>2. SlicesTyped
  BY DEF TypeOK, SlicesTyped
<1>3. max_size \in Nat /\ max_size <= Pow2[LOG2_SIZE] /\ Pow2[LOG2_SIZE] \in Nat
  BY <1>1, Pow2Assumption DEF SizesAre
<1>4. cur_size \in Nat /\ build_size \in Nat /\ build_size <= max_size
  BY <1>3 DEF TypeOK
<1>5. Used \subseteq Positions
  BY <1>3, <1>4 DEF Used, Positions
<1>6. IsFiniteSet(Used) /\ Cardinality(Used) <= build_size /\ Cardinality(Used) \in Nat
  <2>1. PICK last \in Int : last = build_size - 1
    BY <1>4
  <2>2. IsFiniteSet(0..last) /\ Cardinality(0..last) = IF 0 > last THEN 0 ELSE last - 0 + 1
    BY FS_Interval
  <2>3. Cardinality(0..last) <= build_size /\ Cardinality(0..last) \in Nat
    BY <1>4, <2>1, <2>2
  <2> QED
    BY <2>1, <2>2, <2>3 DEF Used
<1>7. PresentUsed \subseteq Used
  BY DEF PresentUsed
<1>8. IsFiniteSet(PresentUsed) /\ Cardinality(PresentUsed) \in Nat /\ Cardinality(PresentUsed) <= build_size
  <2>1. IsFiniteSet(PresentUsed) /\ Cardinality(PresentUsed) <= Cardinality(Used)
    BY <1>6, <1>7, FS_Subset
  <2>2. Cardinality(PresentUsed) \in Nat
    BY <2>1, FS_CardinalityType
  <2> QED
    BY <1>4, <1>6, <2>1, <2>2
<1>9. PresentPoints = {items[x] : x \in PresentUsed}
  BY DEF PresentPoints, PresentUsed, Used
<1>10. build_size = 0 => Used = {}
  BY DEF Used
<1> QED
  BY <1>1, <1>2, <1>4, <1>5, <1>6, <1>7, <1>8, <1>9, <1>10

LEMMA CountIs ==
  ASSUME TypeOK, CountInv, \A n \in NodeIds : call[n] # "returned"
  PROVE  /\ cur_size = Cardinality(PresentUsed)
         /\ \A n \in NodeIds : num_removed[n] = 0
         /\ cur_size > 0 => build_size > 0
<1>1. \A n \in NodeIds : num_removed[n] = 0
  BY DEF CountInv
<1>2. SumFunctionOnSet(num_removed, NodeIds) = 0
  BY <1>1, IdsAre, SumZero
<1>3. Cardinality(PresentUsed) \in Nat /\ build_size \in Nat /\ Cardinality(PresentUsed) <= build_size
  BY UsedAre
<1>4. cur_size = Cardinality(PresentUsed)
  BY <1>2, <1>3 DEF CountInv
<1> QED
  BY <1>1, <1>3, <1>4

LEMMA RootIs ==
  ASSUME TypeOK, TreeInv
  PROVE  /\ Slice(0) = Used /\ PresentIn(0) = PresentUsed
         /\ PresentPoints = {items[x] : x \in PresentIn(0)}
<1>1. slice[0].first = 0 /\ slice[0].end = build_size
  BY DEF TreeInv, ItemsInv
<1>2. Slice(0) = Used
  BY <1>1 DEF Slice, Used
<1> QED
  BY <1>2, UsedAre DEF PresentIn, PresentUsed

LEMMA HoldsExactlyHolds ==
  ASSUME Inv
  PROVE  HoldsExactly
<1> SUFFICES ASSUME pc = "idle"
             PROVE  PresentPoints = held /\ cur_size = Cardinality(held)
  BY DEF HoldsExactly
<1>1. \A n \in NodeIds : call[n] = "none"
  BY DEF Inv, CallsInv
<1>2. cur_size = Cardinality(PresentUsed) /\ (cur_size > 0 => TreeInv) /\ TypeOK
  BY <1>1, CountIs DEF Inv
<1>3. PresentPoints = held
  BY DEF Inv, HeldInv
<1>4. PresentPoints = {items[x] : x \in PresentUsed} /\ IsFiniteSet(PresentUsed) /\ PresentUsed \subseteq Used
      /\ cur_size \in Nat
  BY <1>2, UsedAre
<1>5. Cardinality(PresentPoints) = Cardinality(PresentUsed)
  <2>1. CASE cur_size > 0
    <3>1. \A x, y \in PresentUsed : items[x] = items[y] => x = y
      BY <1>2, <1>4, <2>1 DEF TreeInv, ItemsInv
    <3> QED
      BY <1>4, <3>1, ImageSize
  <2>2. CASE cur_size = 0
    <3>1. PresentUsed = {}
      BY <1>2, <1>4, <2>2, FS_EmptySet
    <3> QED
      BY <1>4, <3>1
  <2> QED
    BY <1>4, <2>1, <2>2
<1> QED
  BY <1>2, <1>3, <1>5

LEMMA ContainsExactHolds ==
  ASSUME Inv
  PROVE  ContainsExact
<1> SUFFICES ASSUME pc = "idle", cur_size > 0, ~RootIsHalf, NEW p \in Points
             PROVE  Contains(p) <=> p \in held
  BY DEF ContainsExact, Quiet
<1>1. TypeOK /\ TreeInv /\ PresentPoints = held
  BY DEF Inv, HeldInv
<1>2. Linked(Walk(p), p)
  BY <1>1, WalkIs
<1>3. Walk(p).node \in NodeIds
  BY <1>2 DEF Linked, Walks
<1>4. PresentPoints = {items[x] : x \in PresentUsed}
  BY <1>1, UsedAre
<1>5. PresentIn(Walk(p).node) \subseteq PresentUsed
  BY <1>1, <1>3, PresentAre
<1>6. ASSUME p \in held  PROVE Contains(p)
  <2>1. PICK x \in PresentUsed : items[x] = p
    BY <1>1, <1>4, <1>6
  <2>2. x \in PresentIn(Walk(p).node)
    BY <1>2, <2>1 DEF Linked
  <2> QED
    BY <2>1, <2>2 DEF Contains
<1>7. ASSUME Contains(p)  PROVE p \in held
  BY <1>1, <1>4, <1>5, <1>7 DEF Contains
<1> QED
  BY <1>6, <1>7

LEMMA RangeQueryExactHolds ==
  ASSUME Inv
  PROVE  RangeQueryExact
<1> SUFFICES ASSUME pc = "idle", cur_size > 0, NEW a \in Points, NEW b \in Points
             PROVE  RangeQuery(BoxOf({a, b})) = {p \in held : InBox(BoxOf({a, b}), p)}
  BY DEF RangeQueryExact, Quiet
<1>1. TypeOK /\ TreeInv /\ PresentPoints = held
  BY DEF Inv, HeldInv
<1>2. \A p \in Points : p \in [Dims -> Int]
  BY <1>1, UsedAre DEF SizesAre
<1>3. BoxOf({a, b}) \in Boxes
  <2>1. IsFiniteSet({b} \cup {a})
    BY FS_Singleton, FS_AddElement
  <2>2. IsFiniteSet({a, b}) /\ {a, b} # {}
    <3>1. {b} \cup {a} = {a, b}
      OBVIOUS
    <3> QED
      BY <2>1, <3>1
  <2>3. \A p \in {a, b} : p \in [Dims -> Int]
    BY <1>2
  <2> QED
    BY <2>2, <2>3, BoxIs
<1>4. RangeQuery(BoxOf({a, b})) = PointsIn(0, BoxOf({a, b}))
  BY <1>1, <1>3, QueryIs
<1>5. held = {items[x] : x \in PresentIn(0)}
  BY <1>1, RootIs
<1> QED
  BY <1>4, <1>5 DEF PointsIn

LEMMA RootKeepsBothSidesHolds ==
  ASSUME Inv
  PROVE  RootKeepsBothSides
<1> SUFFICES ASSUME pc = "idle", cur_size > 0, use = "static", median = "object", ~RootHasBothSides
             PROVE  FALSE
  BY DEF RootKeepsBothSides, Quiet
<1>1. TypeOK /\ TreeInv /\ LOG_TREE
  BY DEF Inv, LOG_TREE
<1>2. \A n \in NodeIds : call[n] = "none"
  BY DEF Inv, CallsInv
<1>3. cur_size = Cardinality(PresentUsed) /\ cur_size > max_size \div 2
  BY <1>1, <1>2, CountIs DEF Inv, CountInv
<1>4. ~IsLeaf(0) /\ (PresentIn(left[0]) = {} \/ PresentIn(right[0]) = {})
  BY DEF RootHasBothSides
<1>5. 0 \in NodeIds
  BY IdsAre
<1>6. left[0] # NULL /\ right[0] # NULL
  <2>1. HalfInv(0)
    BY <1>1, <1>5 DEF TreeInv
  <2> QED
    BY <1>1, <1>4, <2>1 DEF HalfInv, MayBeHalf, IsLeaf
<1>7. PICK c \in Children(0) : PresentIn(0) \subseteq Slice(c)
  <2>1. left[0] \in Children(0) /\ right[0] \in Children(0) /\ Children(0) \subseteq {left[0], right[0]}
    BY <1>6 DEF Children
  <2>2. \A x \in PresentIn(0) : \E c \in Children(0) : x \in PresentIn(c) /\ x \in Slice(c)
    BY <1>1, <1>4, <1>5 DEF TreeInv, CoverInv, PresentIn
  <2> QED
    BY <1>4, <2>1, <2>2
<1>8. c \in NodeIds /\ Below(c, 0) /\ slice[c].end - slice[c].first <= max_size \div 2
  BY <1>1, <1>5, <1>7, ChildrenAre DEF TreeInv, SidesInv
<1>9. PICK first \in Nat, end \in Nat : first = slice[c].first /\ end = slice[c].end /\ first < end
  BY <1>1, <1>8, UsedAre DEF SlicesTyped, Below, Inside
<1>10. Slice(c) = first..(end - 1)
  BY <1>9 DEF Slice
<1>11. IsFiniteSet(Slice(c)) /\ Cardinality(Slice(c)) = end - first
  BY <1>9, <1>10, IntervalSize, FS_Interval
<1>12. PresentUsed \subseteq Slice(c)
  BY <1>1, <1>7, RootIs
<1>13. Cardinality(PresentUsed) <= end - first
  BY <1>11, <1>12, FS_Subset
<1>14. max_size \in Nat /\ cur_size \in Nat
  BY <1>1, UsedAre DEF SizesAre
<1> QED
  BY <1>3, <1>8, <1>9, <1>13, <1>14

\* The leaves between operations: those in T have points, and T holds all that
\* can be reached.
LEMMA LeavesExactHolds ==
  ASSUME Inv
  PROVE  LeavesExact
<1> SUFFICES ASSUME pc = "idle", cur_size > 0
             PROVE  /\ UNION {PresentIn(n) : n \in LeavesBelow(0)} = PresentIn(0)
                    /\ \A n \in LeavesBelow(0) :
                         /\ num_points[n] = Cardinality(PresentIn(n))
                         /\ IF num_points[n] > 0 THEN box[n] = LeafBox(n, present)
                                                 ELSE LOG_TREE /\ ~RootHasBothSides
  BY DEF LeavesExact, Quiet
<1>1. TypeOK /\ TreeInv /\ SlicesTyped /\ 0 \in NodeIds
  BY IdsAre, UsedAre DEF Inv
<1>2. /\ UNION {PresentIn(i) : i \in LeavesBelow(0)} = PresentIn(0)
      /\ \A i \in LeavesBelow(0) : i \in NodeIds /\ IsLeaf(i) /\ (i = 0 \/ Below(i, 0))
  BY <1>1, LeavesCover, ChildrenAre
<1>3. slice[0].first = 0 /\ slice[0].end = build_size /\ build_size > 0
  <2>1. \A n \in NodeIds : call[n] = "none"
    BY DEF Inv, CallsInv
  <2> QED
    BY <1>1, <2>1, CountIs DEF Inv, TreeInv, ItemsInv
<1> SUFFICES ASSUME NEW n \in LeavesBelow(0)
             PROVE  /\ num_points[n] = Cardinality(PresentIn(n))
                    /\ IF num_points[n] > 0 THEN box[n] = LeafBox(n, present)
                                            ELSE LOG_TREE /\ ~RootHasBothSides
  BY <1>2
<1>4. n \in NodeIds /\ IsLeaf(n) /\ slice[n].first < slice[n].end
  BY <1>2, <1>3 DEF Below, Inside
<1>5. /\ num_points[n] = Cardinality(PresentIn(n))
      /\ num_points[n] > 0 => box[n] = LeafBox(n, present)
  BY <1>1, <1>4 DEF TreeInv, LeafInv
<1>6. ASSUME ~(num_points[n] > 0)  PROVE LOG_TREE /\ ~RootHasBothSides
  <2>1. PresentIn(n) = {}
    <3>1. IsFiniteSet(PresentIn(n))
      BY <1>1, <1>4, PresentAre, UsedAre, FS_Subset
    <3>2. Cardinality(PresentIn(n)) \in Nat
      BY <3>1, FS_CardinalityType
    <3>3. Cardinality(PresentIn(n)) = 0
      BY <1>5, <1>6, <3>2
    <3> QED
      BY <3>1, <3>3, FS_EmptySet
  <2>2. ASSUME IsFull(0)  PROVE FALSE
    <3>1. PICK T \in SUBSET NodeIds : FullTree(T, 0)
      BY <2>2 DEF IsFull
    <3>2. LeavesBelow(0) \subseteq T
      BY <1>1, <3>1, LeavesCover DEF FullTree
    <3> QED
      BY <2>1, <3>1, <3>2 DEF FullTree
  <2> QED
    BY <2>2 DEF Inv, FullInv
<1> QED
  BY <1>5, <1>6

LEMMA ReturnedHoldsTheRestHolds ==
  ASSUME Inv
  PROVE  ReturnedHoldsTheRest
<1> SUFFICES ASSUME NEW n \in NodeIds, call[n] = "returned"
             PROVE  IF ret[n] = NULL
                      THEN PresentIn(n) = {}
                      ELSE UNION {PresentIn(i) : i \in LeavesBelow(ret[n])} = PresentIn(n)
  BY DEF ReturnedHoldsTheRest
<1>1. Stands(n) /\ cur_size > 0
  BY DEF Inv, RetInv, CallsInv
<1>2. TypeOK /\ TreeInv /\ SlicesTyped
  BY <1>1, UsedAre DEF Inv
<1>3. CASE ret[n] = NULL
  BY <1>1, <1>3 DEF Stands
<1>4. CASE ret[n] # NULL
  <2>1. /\ ret[n] \in NodeIds /\ Inside(ret[n], n) /\ PresentIn(n) \subseteq Slice(ret[n])
    BY <1>1, <1>2, <1>4 DEF Stands, StandsFor, TypeOK
  <2>2. PresentIn(ret[n]) = PresentIn(n)
    <3>1. PresentIn(ret[n]) \subseteq PresentIn(n)
      BY <1>2, <2>1, SlicesAre
    <3> QED
      BY <2>1, <3>1 DEF PresentIn
  <2>3. UNION {PresentIn(i) : i \in LeavesBelow(ret[n])} = PresentIn(ret[n])
    BY <1>2, <2>1, LeavesCover, ChildrenAre
  <2> QED
    BY <1>4, <2>2, <2>3
<1> QED
  BY <1>3, <1>4

-----------------------------------------------------------------------------
(* Steps that leave the tree as it is *)

TreeSame ==
  /\ items' = items /\ present' = present /\ build_size' = build_size
  /\ left' = left /\ right' = right /\ num_points' = num_points
  /\ split_dimension' = split_dimension /\ split_value' = split_value
  /\ slice' = slice /\ box' = box

LEMMA ShapeStays ==
  ASSUME slice' = slice, left' = left, right' = right
  PROVE  /\ \A n \in NodeIds : Slice(n)' = Slice(n) /\ Children(n)' = Children(n)
                               /\ (IsLeaf(n)' <=> IsLeaf(n))
         /\ \A a, b \in NodeIds : /\ Inside(a, b)' <=> Inside(a, b)
                                  /\ Below(a, b)' <=> Below(a, b)
                                  /\ Apart(a, b)' <=> Apart(a, b)
BY DEF Slice, Children, IsLeaf, Inside, Below, Apart

LEMMA TreeStays ==
  ASSUME SameKind, TreeSame
  PROVE  /\ Used' = Used /\ PresentUsed' = PresentUsed /\ PresentPoints' = PresentPoints
         /\ \A n \in NodeIds : PresentIn(n)' = PresentIn(n)
         /\ \A m \in NodeIds : IsFull(m)' <=> IsFull(m)
         /\ RootHasBothSides' <=> RootHasBothSides
         /\ TreeInv /\ (\A n \in NodeIds : HalfInv(n)') => TreeInv'
<1>1. Used' = Used /\ PresentUsed' = PresentUsed /\ PresentPoints' = PresentPoints
  BY DEF TreeSame, Used, PresentUsed, PresentPoints
<1>2. \A n \in NodeIds : PresentIn(n)' = PresentIn(n)
  BY DEF TreeSame, PresentIn, Slice
<1>3. \A m \in NodeIds : IsFull(m)' <=> IsFull(m)
  BY DEF TreeSame, IsFull, FullTree, PresentIn, Slice, Children, Inside
<1>4. RootHasBothSides' <=> RootHasBothSides
  BY DEF TreeSame, RootHasBothSides, PresentIn, Slice, IsLeaf
<1>5. ASSUME TreeInv, \A n \in NodeIds : HalfInv(n)'  PROVE TreeInv'
  <2>1. ItemsInv'
    BY <1>5 DEF TreeInv, TreeSame, SameKind, ItemsInv, Used
  <2>2. LeavesApart'
    BY <1>5 DEF TreeInv, TreeSame, LeavesApart, IsLeaf, Apart
  <2>3. SidesInv'
    BY <1>5 DEF TreeInv, TreeSame, SameKind, SidesInv, Children
  <2>4. ASSUME NEW n \in NodeIds  PROVE LinksInv(n)' /\ CoverInv(n)' /\ LeafInv(n)'
    <3>1. LinksInv(n) /\ CoverInv(n) /\ LeafInv(n)
      BY <1>5 DEF TreeInv
    <3>2. LinksInv(n)'
      BY <3>1 DEF LinksInv, TreeSame, Below, Inside, Slice, GoesLeft, IsLeaf
    <3>3. CoverInv(n)'
      BY <3>1 DEF CoverInv, TreeSame, PresentIn, Slice, InBox, IsLeaf, Children
    <3>4. LeafInv(n)'
      BY <3>1 DEF LeafInv, TreeSame, IsLeaf, PresentIn, Slice, LeafBox, BoxOf
    <3> QED
      BY <3>2, <3>3, <3>4
  <2> QED
    BY <1>5, <2>1, <2>2, <2>3, <2>4 DEF TreeInv
<1> QED
  BY <1>1, <1>2, <1>3, <1>4, <1>5

-----------------------------------------------------------------------------
(* The steps of the caller, and those that end an erase *)

\* Between operations no call is open, and a tree that is followed on has no
\* half root.
LEMMA Between ==
  ASSUME Inv, pc # "bulk"
  PROVE  /\ TypeOK /\ SizesAre /\ \A n \in NodeIds : call[n] = "none" /\ num_removed[n] = 0
         /\ cur_size = Cardinality(PresentUsed)
         /\ cur_size > 0 => TreeInv /\ build_size > 0
<1>1. \A n \in NodeIds : call[n] = "none"
  BY DEF Inv, CallsInv
<1> QED
  BY <1>1, CountIs, UsedAre DEF Inv

LEMMA NoHalfRoot ==
  ASSUME TreeInv, cur_size > 0, ~RootIsHalf
  PROVE  \A n \in NodeIds : ~((left[n] = NULL) # (right[n] = NULL))
BY DEF TreeInv, HalfInv, RootIsHalf

LEMMA ErasesAre ==
  ASSUME TypeOK, NEW S \in Kinds[kind].inserts \cup Kinds[kind].erases
  PROVE  S \in SUBSET Points
BY KindsAssumption DEF TypeOK, Points

LEMMA BulkEraseKeeps ==
  ASSUME Inv, SameKind, NEW S \in SUBSET Points, BulkErase(S)
  PROVE  Inv'
<1>1. /\ pc = "idle" /\ ~RootIsHalf /\ cur_size > 0
      /\ pc' = "bulk" /\ held' = held \ S
      /\ call' = [call EXCEPT ![0] = "called"]
      /\ to_erase' = [to_erase EXCEPT ![0] = S]
      /\ cur_size' = cur_size /\ ret' = ret /\ num_removed' = num_removed
      /\ TreeSame
  BY DEF BulkErase, CallerGoesOn, TreeSame, nodeVars
<1>2. /\ TypeOK /\ SizesAre /\ TreeInv /\ build_size > 0 /\ 0 \in NodeIds
      /\ \A n \in NodeIds : call[n] = "none" /\ num_removed[n] = 0
  BY <1>1, Between, IdsAre
<1>3. /\ Used' = Used /\ PresentUsed' = PresentUsed /\ PresentPoints' = PresentPoints
      /\ \A n \in NodeIds : Slice(n)' = Slice(n)
  BY <1>1, TreeStays, ShapeStays DEF TreeSame
<1>4. /\ \A n \in NodeIds : call'[n] = IF n = 0 THEN "called" ELSE "none"
      /\ \A n \in NodeIds : to_erase'[n] = IF n = 0 THEN S ELSE to_erase[n]
  BY <1>1, <1>2 DEF TypeOK
<1>5. TypeOK'
  BY <1>1, <1>2 DEF TypeOK, TreeSame, SameKind
<1>6. TreeInv'
  <2>1. \A n \in NodeIds : HalfInv(n)'
    BY <1>1, <1>2, NoHalfRoot DEF HalfInv, TreeSame
  <2> QED
    BY <1>1, <1>2, <2>1, TreeStays
<1>7. CountInv'
  BY <1>1, <1>2, <1>3 DEF Inv, CountInv, TreeSame
<1>8. HeldInv'
  <2>1. PresentPoints = held
    BY <1>1 DEF Inv, HeldInv
  <2>2. Slice(0) = Used
    BY <1>2, RootIs
  <2>3. ASSUME NEW x \in PresentUsed, items[x] \notin held'
        PROVE  call'[0] = "called" /\ x \in Slice(0)' /\ items'[x] \in to_erase'[0]
    <3>1. items[x] \in PresentPoints /\ x \in Used
      BY <1>2, UsedAre
    <3> QED
      BY <1>1, <1>2, <1>3, <1>4, <2>1, <2>2, <2>3, <3>1 DEF TreeSame
  <2>4. \A n \in NodeIds : call'[n] = "called" => to_erase'[n] \cap held' = {}
    BY <1>1, <1>4
  <2> QED
    BY <1>1, <1>2, <1>3, <2>1, <2>3, <2>4 DEF HeldInv, TreeSame
<1>9. CallsInv'
  <2>1. slice'[0].first < slice'[0].end
    BY <1>1, <1>2 DEF TreeSame, TreeInv, ItemsInv
  <2> QED
    BY <1>1, <1>4, <2>1 DEF CallsInv
<1>10. RetInv'
  BY <1>4 DEF RetInv
<1>11. FullInv'
  BY <1>1 DEF FullInv
<1> QED
  BY <1>5, <1>6, <1>7, <1>8, <1>9, <1>10, <1>11 DEF Inv

LEMMA EraseEachKeeps ==
  ASSUME Inv, SameKind, NEW S \in SUBSET Points, EraseEach(S)
  PROVE  Inv'
<1>1. /\ pc = "idle" /\ ~RootIsHalf /\ cur_size > 0
      /\ pc' = "each" /\ held' = held \ S
      /\ to_erase' = [to_erase EXCEPT ![0] = S]
      /\ cur_size' = cur_size /\ call' = call /\ ret' = ret /\ num_removed' = num_removed
      /\ TreeSame
  BY DEF EraseEach, CallerGoesOn, TreeSame, nodeVars
<1>2. /\ TypeOK /\ SizesAre /\ TreeInv /\ 0 \in NodeIds
      /\ \A n \in NodeIds : call[n] = "none" /\ num_removed[n] = 0
  BY <1>1, Between, IdsAre
<1>3. /\ PresentUsed' = PresentUsed /\ PresentPoints' = PresentPoints
      /\ RootHasBothSides' <=> RootHasBothSides
      /\ IsFull(0)' <=> IsFull(0)
  BY <1>1, <1>2, TreeStays
<1>4. to_erase'[0] = S
  BY <1>1, <1>2 DEF TypeOK
<1>5. TypeOK'
  BY <1>1, <1>2 DEF TypeOK, TreeSame, SameKind
<1>6. TreeInv'
  <2>1. \A n \in NodeIds : HalfInv(n)'
    BY <1>1, <1>2, NoHalfRoot DEF HalfInv, TreeSame
  <2> QED
    BY <1>1, <1>2, <2>1, TreeStays
<1>7. CountInv'
  BY <1>1, <1>2, <1>3 DEF Inv, CountInv, TreeSame
<1>8. HeldInv'
  BY <1>1, <1>2, <1>3, <1>4 DEF Inv, HeldInv
<1>9. CallsInv'
  BY <1>1, <1>2 DEF CallsInv
<1>10. RetInv'
  BY <1>1, <1>2 DEF RetInv
<1>11. FullInv'
  BY <1>1, <1>2, <1>3 DEF Inv, FullInv, SameKind
<1> QED
  BY <1>5, <1>6, <1>7, <1>8, <1>9, <1>10, <1>11 DEF Inv

LEMMA CrashKeeps ==
  ASSUME Inv, SameKind, Crash
  PROVE  Inv'
<1>1. /\ pc = "each" /\ pc' = "crashed" /\ held' = held /\ to_erase' = to_erase
      /\ cur_size' = cur_size /\ call' = call /\ ret' = ret /\ num_removed' = num_removed
      /\ TreeSame
  BY DEF Crash, TreeSame, nodeVars, callVars
<1>2. /\ TypeOK /\ (cur_size > 0 => TreeInv)
      /\ \A n \in NodeIds : call[n] = "none" /\ num_removed[n] = 0
  BY <1>1, Between
<1>3. PresentUsed' = PresentUsed /\ PresentPoints' = PresentPoints
  BY <1>1, TreeStays
<1>4. TypeOK'
  BY <1>1, <1>2 DEF TypeOK, TreeSame, SameKind
<1>5. cur_size' > 0 => TreeInv'
  <2>1. TreeInv => \A n \in NodeIds : HalfInv(n)'
    BY <1>1, <1>2 DEF TreeInv, HalfInv, MayBeHalf, TreeSame, SameKind
  <2> QED
    BY <1>1, <1>2, <2>1, TreeStays
<1>6. CountInv'
  BY <1>1, <1>2, <1>3 DEF Inv, CountInv, TreeSame
<1>7. HeldInv'
  BY <1>1, <1>2, <1>3 DEF Inv, HeldInv
<1>8. CallsInv' /\ RetInv' /\ FullInv'
  BY <1>1, <1>2 DEF CallsInv, RetInv, FullInv
<1> QED
  BY <1>4, <1>5, <1>6, <1>7, <1>8 DEF Inv

LEMMA EndEachKeeps ==
  ASSUME Inv, SameKind, EndEach
  PROVE  Inv'
<1>1. /\ pc = "each" /\ to_erase[0] = {} /\ pc' = IF LOG_TREE THEN "erased" ELSE "idle"
      /\ held' = held /\ to_erase' = to_erase
      /\ cur_size' = cur_size /\ call' = call /\ ret' = ret /\ num_removed' = num_removed
      /\ TreeSame
  BY DEF EndEach, TreeSame, nodeVars, callVars
<1>2. /\ TypeOK /\ (cur_size > 0 => TreeInv) /\ 0 \in NodeIds
      /\ \A n \in NodeIds : call[n] = "none" /\ num_removed[n] = 0
  BY <1>1, Between, IdsAre
<1>3. /\ PresentUsed' = PresentUsed /\ PresentPoints' = PresentPoints
      /\ RootHasBothSides' <=> RootHasBothSides
      /\ IsFull(0)' <=> IsFull(0)
  BY <1>1, <1>2, TreeStays
<1>4. TypeOK'
  BY <1>1, <1>2 DEF TypeOK, TreeSame, SameKind
<1>5. cur_size' > 0 => TreeInv'
  <2>1. TreeInv => \A n \in NodeIds : HalfInv(n)'
    BY <1>1, <1>2 DEF TreeInv, HalfInv, MayBeHalf, TreeSame, SameKind
  <2> QED
    BY <1>1, <1>2, <2>1, TreeStays
<1>6. CountInv'
  <2>1. ~(use' = "static" /\ pc' = "idle")
    BY <1>1 DEF SameKind, LOG_TREE
  <2> QED
    BY <1>1, <1>2, <1>3, <2>1 DEF Inv, CountInv, TreeSame
<1>7. HeldInv'
  BY <1>1, <1>2, <1>3 DEF Inv, HeldInv
<1>8. CallsInv' /\ RetInv'
  BY <1>1, <1>2 DEF CallsInv, RetInv
<1>9. FullInv'
  BY <1>1, <1>3 DEF Inv, FullInv, SameKind
<1> QED
  BY <1>4, <1>5, <1>6, <1>7, <1>8, <1>9 DEF Inv

\* A tree is emptied.
LEMMA ClearKeeps ==
  ASSUME Inv, SameKind, Clear, pc # "bulk", pc' = "idle", UNCHANGED callVars, held' = {}
  PROVE  Inv'
<1>1. /\ call' = call /\ to_erase' = to_erase /\ ret' = ret /\ num_removed' = num_removed
      /\ cur_size' = 0 /\ build_size' = 0 /\ present' = AllPresent /\ items' = items
      /\ left' = left /\ right' = right /\ num_points' = num_points
      /\ split_dimension' = split_dimension /\ split_value' = split_value
      /\ slice' = slice /\ box' = box
  BY DEF Clear, nodeVars, callVars
<1>2. /\ TypeOK /\ SizesAre /\ \A n \in NodeIds : call[n] = "none" /\ num_removed[n] = 0
  BY Between
<1>3. Used' = {} /\ PresentUsed' = {} /\ PresentPoints' = {}
  <2>1. Used' = 0..(0 - 1) /\ PresentPoints' = {items[x] : x \in {y \in 0..(0 - 1) : present'[y]}}
    BY <1>1 DEF Used, PresentPoints
  <2>2. 0..(0 - 1) = {}
    OBVIOUS
  <2> QED
    BY <2>1, <2>2 DEF PresentUsed
<1>4. TypeOK'
  <2>1. AllPresent \in [Positions -> BOOLEAN] /\ 0 \in 0..max_size
    BY <1>2 DEF AllPresent, SizesAre
  <2> QED
    BY <1>1, <1>2, <2>1 DEF TypeOK, SameKind
<1>5. CountInv'
  <2>1. SumFunctionOnSet(num_removed, NodeIds) = 0
    BY <1>2, IdsAre, SumZero
  <2>2. Cardinality(PresentUsed') = 0
    BY <1>3, FS_EmptySet
  <2>3. cur_size' = Cardinality(PresentUsed') + SumFunctionOnSet(num_removed', NodeIds)
    BY <1>1, <2>1, <2>2
  <2> QED
    BY <1>1, <1>2, <2>3 DEF CountInv, AllPresent
<1>6. HeldInv' /\ CallsInv' /\ RetInv' /\ FullInv'
  BY <1>1, <1>2, <1>3 DEF HeldInv, CallsInv, RetInv, FullInv
<1> QED
  BY <1>1, <1>4, <1>5, <1>6 DEF Inv

\* A tree is built over what is held.
LEMMA BuildKeeps ==
  ASSUME Inv, SameKind, NEW S, Fits(S), Build(S), present' = AllPresent,
         pc # "bulk", pc' = "idle", UNCHANGED callVars, held' = S,
         use = "static" => Cardinality(S) > max_size \div 2
  PROVE  Inv'
<1>1. call' = call /\ to_erase' = to_erase /\ ret' = ret /\ num_removed' = num_removed
  BY DEF callVars
<1>2. /\ TypeOK /\ SizesAre /\ \A n \in NodeIds : call[n] = "none" /\ num_removed[n] = 0
  BY Between
<1>3. /\ TypesBuilt' /\ TreeInv' /\ IsFull(0)'
      /\ PresentPoints' = S /\ Cardinality(PresentUsed') = Cardinality(S)
      /\ cur_size' = Cardinality(S) /\ build_size' = Cardinality(S)
  BY <1>2, BuildMakes DEF TypeOK, SameKind
<1>4. Cardinality(S) \in Nat /\ Cardinality(S) # 0
  BY FS_CardinalityType, FS_EmptySet DEF Fits, Given
<1>5. TypeOK'
  <2>1. AllPresent \in [Positions -> BOOLEAN] /\ S \in SUBSET Points
    BY DEF AllPresent, Fits
  <2> QED
    BY <1>1, <1>2, <1>3, <2>1 DEF TypeOK, TypesBuilt, SameKind, Boxes
<1>6. CountInv'
  <2>1. SumFunctionOnSet(num_removed, NodeIds) = 0
    BY <1>2, IdsAre, SumZero
  <2>2. cur_size' = Cardinality(PresentUsed') + SumFunctionOnSet(num_removed', NodeIds)
    BY <1>1, <1>3, <1>4, <2>1
  <2> QED
    BY <1>1, <1>2, <1>3, <2>2 DEF CountInv, AllPresent, SameKind
<1>7. HeldInv' /\ CallsInv' /\ RetInv' /\ FullInv'
  BY <1>1, <1>2, <1>3 DEF HeldInv, CallsInv, RetInv, FullInv
<1> QED
  BY <1>3, <1>5, <1>6, <1>7 DEF Inv

LEMMA PointsFit ==
  ASSUME NoTies, TypeOK, NEW S \in SUBSET Points, S # {}, Cardinality(S) <= max_size
  PROVE  Fits(S)
<1>1. SizesAre /\ kind \in DOMAIN Kinds
  BY UsedAre DEF TypeOK
<1>2. IsFiniteSet(S)
  BY <1>1, FS_Subset DEF SizesAre
<1>3. median = "object" => \A p, q \in S : \A d \in Dims : p[d] = q[d] => p = q
  BY <1>1 DEF NoTies, median, Points
<1> QED
  BY <1>1, <1>2, <1>3 DEF Fits, Given, SizesAre

\* What is present may be built over again.
LEMMA PresentPointsAre ==
  ASSUME Inv, pc # "bulk"
  PROVE  /\ PresentPoints \in SUBSET Points /\ IsFiniteSet(PresentPoints)
         /\ Cardinality(PresentPoints) = cur_size
         /\ cur_size = 0 => PresentPoints = {}
<1>1. /\ TypeOK /\ cur_size = Cardinality(PresentUsed) /\ (cur_size > 0 => TreeInv)
      /\ PresentPoints = {items[x] : x \in PresentUsed} /\ IsFiniteSet(PresentUsed)
      /\ PresentUsed \subseteq Used /\ cur_size \in Nat
  BY Between, UsedAre
<1>2. CASE cur_size = 0
  <2>1. PresentUsed = {}
    BY <1>1, <1>2, FS_EmptySet
  <2>2. PresentPoints = {}
    BY <1>1, <2>1
  <2> QED
    BY <1>2, <2>2, FS_EmptySet
<1>3. CASE cur_size # 0
  <2>1. TreeInv
    BY <1>1, <1>3
  <2>2. /\ \A x, y \in PresentUsed : items[x] = items[y] => x = y
        /\ \A x \in PresentUsed : items[x] \in Points
    BY <1>1, <2>1 DEF TreeInv, ItemsInv
  <2>3. Cardinality(PresentPoints) = Cardinality(PresentUsed)
    BY <1>1, <2>2, ImageSize
  <2>4. IsFiniteSet(PresentPoints)
    BY <1>1, ImageIsFinite
  <2> QED
    BY <1>1, <1>3, <2>2, <2>3, <2>4
<1> QED
  BY <1>2, <1>3

LEMMA InsertKeeps ==
  ASSUME NoTies, Inv, SameKind, NEW S \in SUBSET Points, Insert(S)
  PROVE  Inv'
<1>1. /\ pc = "idle" /\ pc' = "idle" /\ UNCHANGED callVars
      /\ S # {} /\ held' = held \cup S
      /\ use = "static" => cur_size = 0 /\ Cardinality(S) > max_size \div 2
      /\ Cardinality(S) <= max_size - cur_size
      /\ cur_size = 0 => build_size = 0
  <2>1. build_size \in Nat
    BY UsedAre DEF Inv
  <2> QED
    BY <2>1 DEF Insert, CallerGoesOn
<1>2. /\ TypeOK /\ SizesAre /\ PresentPoints = held /\ cur_size \in Nat /\ max_size \in Nat
      /\ PresentPoints \in SUBSET Points /\ IsFiniteSet(PresentPoints)
      /\ Cardinality(PresentPoints) = cur_size
      /\ cur_size = 0 => PresentPoints = {} /\ present = AllPresent
  <2>1. PresentPoints = held
    BY <1>1 DEF Inv, HeldInv
  <2>2. cur_size = 0 => present = AllPresent
    BY <1>1 DEF Inv, CountInv
  <2> QED
    BY <1>1, <2>1, <2>2, PresentPointsAre, UsedAre DEF Inv, SizesAre
<1>3. IsFiniteSet(S) /\ Cardinality(S) \in Nat
  BY <1>2, FS_Subset, FS_CardinalityType DEF SizesAre
<1>4. CASE cur_size = 0
  <2>1. Build(S) /\ present' = AllPresent /\ held' = S
    BY <1>1, <1>2, <1>4 DEF Insert
  <2>2. Fits(S)
    BY <1>1, <1>2, <1>3, <1>4, PointsFit
  <2> QED
    BY <1>1, <2>1, <2>2, BuildKeeps
<1>5. CASE cur_size # 0
  <2>1. Build(held \cup S) /\ present' = AllPresent
    BY <1>2, <1>5 DEF Insert
  <2>2. Cardinality(held \cup S) <= max_size
    <3>1. /\ Cardinality(held \cup S) = Cardinality(held) + Cardinality(S) - Cardinality(held \cap S)
          /\ IsFiniteSet(held \cap S)
      BY <1>2, <1>3, FS_Union, FS_Intersection
    <3>2. Cardinality(held \cap S) \in Nat
      BY <3>1, FS_CardinalityType
    <3> QED
      BY <1>1, <1>2, <1>3, <3>1, <3>2
  <2>3. Fits(held \cup S)
    <3>1. held \cup S \in SUBSET Points /\ held \cup S # {}
      BY <1>1, <1>2
    <3> QED
      BY <1>2, <2>2, <3>1, PointsFit
  <2> QED
    BY <1>1, <1>5, <2>1, <2>3, BuildKeeps
<1> QED
  BY <1>4, <1>5

LEMMA MoveOutKeeps ==
  ASSUME Inv, SameKind, MoveOut
  PROVE  Inv'
BY ClearKeeps DEF MoveOut, CallerGoesOn

LEMMA AfterEraseKeeps ==
  ASSUME NoTies, Inv, SameKind, AfterErase
  PROVE  Inv'
<1>1. /\ pc = "erased" /\ pc' = "idle" /\ UNCHANGED callVars
      /\ call' = call /\ to_erase' = to_erase /\ ret' = ret /\ num_removed' = num_removed
  BY DEF AfterErase, callVars
<1>2. /\ TypeOK /\ SizesAre /\ PresentPoints = held
      /\ \A n \in NodeIds : call[n] = "none" /\ num_removed[n] = 0
      /\ PresentPoints \in SUBSET Points
      /\ Cardinality(PresentPoints) = cur_size
      /\ cur_size = 0 => PresentPoints = {}
  BY <1>1, Between, PresentPointsAre DEF Inv, HeldInv
<1>3. CASE use = "static" /\ IsDepleted /\ Clear /\ held' = {}
  BY <1>1, <1>3, ClearKeeps
<1>4. CASE ~LOG_TREE /\ cur_size = 0 /\ Clear /\ held' = held
  BY <1>1, <1>2, <1>4, ClearKeeps
<1>5. CASE ~LOG_TREE /\ cur_size # 0 /\ Build(PresentPoints) /\ present' = AllPresent /\ held' = held
  <2>1. cur_size <= max_size
    BY <1>2 DEF TypeOK, SizesAre
  <2>2. PresentPoints # {}
    BY <1>2, <1>5, FS_EmptySet
  <2>3. Fits(PresentPoints)
    BY <1>2, <2>1, <2>2, PointsFit
  <2>4. use # "static"
    BY <1>5 DEF LOG_TREE
  <2> QED
    BY <1>1, <1>2, <1>5, <2>3, <2>4, BuildKeeps
<1>6. CASE /\ LOG_TREE /\ ~(use = "static" /\ IsDepleted)
           /\ UNCHANGED <<items, present, cur_size, build_size, nodeVars, held>>
  <2>1. cur_size' = cur_size /\ held' = held /\ TreeSame
    BY <1>6 DEF TreeSame, nodeVars
  <2>2. /\ PresentUsed' = PresentUsed /\ PresentPoints' = PresentPoints
        /\ RootHasBothSides' <=> RootHasBothSides
        /\ IsFull(0)' <=> IsFull(0)
    BY <2>1, TreeStays, IdsAre
  <2>3. TypeOK'
    BY <1>1, <1>2, <2>1 DEF TypeOK, TreeSame, SameKind
  <2>4. cur_size' > 0 => TreeInv'
    <3>1. TreeInv => \A n \in NodeIds : HalfInv(n)'
      BY <1>1, <1>6, <2>1 DEF TreeInv, HalfInv, MayBeHalf, TreeSame
    <3> QED
      BY <2>1, <3>1, TreeStays DEF Inv
  <2>5. CountInv'
    <3>1. use = "static" /\ cur_size > 0 => cur_size > max_size \div 2
      <4>1. max_size \div 2 \in Int /\ cur_size \in Int
        BY <1>2 DEF SizesAre, TypeOK
      <4> QED
        BY <1>6, <4>1 DEF IsDepleted
    <3> QED
      BY <1>1, <1>2, <2>1, <2>2, <3>1 DEF Inv, CountInv, TreeSame, SameKind
  <2>6. HeldInv'
    BY <1>1, <1>2, <2>1, <2>2 DEF HeldInv
  <2>7. CallsInv' /\ RetInv'
    BY <1>1, <1>2 DEF CallsInv, RetInv
  <2>8. FullInv'
    BY <1>1, <1>6, <2>1, <2>2 DEF Inv, FullInv, SameKind
  <2> QED
    BY <2>3, <2>4, <2>5, <2>6, <2>7, <2>8 DEF Inv
<1> QED
  BY <1>3, <1>4, <1>5, <1>6 DEF AfterErase

-----------------------------------------------------------------------------
(* The steps of a bulk erase *)

\* Nothing works on a part of what a call that has not forked works on.
LEMMA NoneInside ==
  ASSUME TypeOK, TreeInv, CallsInv, NEW n \in NodeIds, call[n] \in {"called", "returned"}
  PROVE  \A c \in NodeIds : c # n /\ Inside(c, n) => call[c] = "none"
<1> SUFFICES ASSUME NEW a \in NodeIds, a # n, Inside(a, n), call[a] # "none"
             PROVE  FALSE
  OBVIOUS
<1>1. SlicesTyped
  BY UsedAre
<1>2. ~Apart(a, n) /\ ~Over(n, a)
  BY <1>1, SlicesAre DEF Over
<1>3. ~Over(a, n)
  <2> SUFFICES ASSUME call[a] = "forked", NEW c \in {left[a], right[a]}, Inside(n, c)
               PROVE  FALSE
    BY DEF Over
  <2>1. c \in Children(a)
    BY DEF CallsInv, Children
  <2>2. c \in NodeIds /\ Below(c, a)
    BY <2>1, ChildrenAre
  <2> QED
    BY <1>1, <2>2, SlicesAre
<1> QED
  BY <1>2, <1>3 DEF CallsInv

LEMMA RootCallAlone ==
  ASSUME TypeOK, TreeInv, CallsInv, call[0] = "returned"
  PROVE  \A n \in NodeIds : n # 0 => call[n] = "none"
<1> SUFFICES ASSUME NEW n \in NodeIds, n # 0, call[n] # "none"
             PROVE  FALSE
  OBVIOUS
<1>1. slice[n].first < slice[n].end /\ slice[n].end <= build_size /\ slice[n].first \in Nat
  BY UsedAre DEF CallsInv, TreeInv, LinksInv, SlicesTyped
<1>2. slice[0].first = 0 /\ slice[0].end = build_size
  BY DEF TreeInv, ItemsInv
<1>3. Inside(n, 0)
  BY <1>1, <1>2 DEF Inside
<1> QED
  BY <1>3, NoneInside, IdsAre

LEMMA EndBulkKeeps ==
  ASSUME Inv, SameKind, EndBulk
  PROVE  Inv'
<1>1. /\ call[0] = "returned" /\ pc' = "erased" /\ held' = held /\ to_erase' = to_erase
      /\ cur_size' = cur_size - num_removed[0]
      /\ call' = [call EXCEPT ![0] = "none"]
      /\ ret' = [ret EXCEPT ![0] = NULL]
      /\ num_removed' = [num_removed EXCEPT ![0] = 0]
      /\ TreeSame
  BY DEF EndBulk, TreeSame, nodeVars
<1>2. 0 \in NodeIds /\ NULL \notin NodeIds /\ IsFiniteSet(NodeIds)
  BY IdsAre
<1>3. pc = "bulk" /\ cur_size > 0
  BY <1>1, <1>2 DEF Inv, CallsInv
<1>4. TypeOK /\ TreeInv /\ SizesAre
  BY <1>3, UsedAre DEF Inv
<1>5. \A n \in NodeIds : n # 0 => call[n] = "none" /\ num_removed[n] = 0
  <2>1. \A n \in NodeIds : n # 0 => call[n] = "none"
    BY <1>1, <1>4, RootCallAlone DEF Inv
  <2> QED
    BY <2>1 DEF Inv, CountInv
<1>6. /\ PresentUsed' = PresentUsed /\ PresentPoints' = PresentPoints
      /\ RootHasBothSides' <=> RootHasBothSides
      /\ IsFull(0)' <=> IsFull(0)
  BY <1>1, <1>2, TreeStays
<1>7. \A n \in NodeIds : call'[n] = "none" /\ num_removed'[n] = 0
  BY <1>1, <1>4, <1>5 DEF TypeOK
<1>8. cur_size = Cardinality(PresentUsed) + num_removed[0] /\ num_removed[0] \in Nat
  <2>1. \A n \in NodeIds : num_removed[n] \in Int
    BY <1>4 DEF TypeOK
  <2>2. SumFunctionOnSet(num_removed, NodeIds)
          = num_removed[0] + SumFunctionOnSet(num_removed, NodeIds \ {0})
    BY <1>2, <2>1, SumRemove
  <2>3. SumFunctionOnSet(num_removed, NodeIds \ {0}) = 0
    <3>1. IsFiniteSet(NodeIds \ {0})
      BY <1>2, FS_Subset
    <3> QED
      BY <1>5, <3>1, SumZero
  <2>4. num_removed[0] \in Nat
    BY <1>2, <1>4 DEF TypeOK, SizesAre
  <2>5. SumFunctionOnSet(num_removed, NodeIds) = num_removed[0]
    BY <2>2, <2>3, <2>4
  <2> QED
    BY <2>4, <2>5 DEF Inv, CountInv
<1>9. cur_size' = Cardinality(PresentUsed) /\ Cardinality(PresentUsed) \in Nat /\ cur_size' \in 0..max_size
  <2>1. Cardinality(PresentUsed) \in Nat
    BY <1>4, UsedAre
  <2>2. cur_size \in 0..max_size /\ max_size \in Nat
    BY <1>4 DEF TypeOK, SizesAre
  <2> QED
    BY <1>1, <1>8, <2>1, <2>2
<1>10. TypeOK'
  <2>1. num_removed' \in [NodeIds -> 0..max_size]
    <3>1. 0 \in 0..max_size /\ num_removed \in [NodeIds -> 0..max_size]
      BY <1>4 DEF TypeOK, SizesAre
    <3> QED
      BY <1>1, <3>1
  <2> QED
    BY <1>1, <1>4, <1>9, <2>1 DEF TypeOK, TreeSame, SameKind
<1>11. TreeInv'
  <2>1. \A n \in NodeIds : HalfInv(n)'
    BY <1>1, <1>3, <1>4 DEF TreeInv, HalfInv, MayBeHalf, TreeSame
  <2> QED
    BY <1>1, <1>4, <2>1, TreeStays
<1>12. CountInv'
  <2>1. SumFunctionOnSet(num_removed', NodeIds) = 0
    BY <1>2, <1>7, SumZero
  <2>2. cur_size' = Cardinality(PresentUsed') + SumFunctionOnSet(num_removed', NodeIds)
    BY <1>6, <1>9, <2>1
  <2> QED
    BY <1>1, <1>7, <2>2 DEF Inv, CountInv, TreeSame
<1>13. HeldInv'
  <2>1. PresentPoints \subseteq held
    <3>1. \A x \in PresentUsed : items[x] \in held
      BY <1>1, <1>3, <1>5 DEF Inv, HeldInv
    <3> QED
      BY <1>4, <3>1, UsedAre
  <2> QED
    BY <1>1, <1>6, <1>7, <2>1 DEF Inv, HeldInv
<1>14. CallsInv' /\ RetInv'
  BY <1>1, <1>7 DEF CallsInv, RetInv
<1>15. FullInv'
  <2> SUFFICES ASSUME cur_size' > 0, LOG_TREE
               PROVE  IsFull(0) \/ ~RootHasBothSides
    BY <1>1, <1>6 DEF FullInv, SameKind
  <2>1. Stands(0)
    BY <1>1, <1>2 DEF Inv, RetInv
  <2>2. PresentIn(0) # {}
    <3>1. PresentIn(0) = PresentUsed
      BY <1>4, RootIs
    <3> QED
      BY <1>9, <3>1, FS_EmptySet
  <2>3. /\ IsFull(ret[0])
        /\ ret[0] # 0 => ~IsLeaf(0) /\ \E c \in Children(0) : PresentIn(c) = {}
    BY <2>1, <2>2 DEF Stands, StandsFor
  <2>4. CASE ret[0] = 0
    BY <2>3, <2>4
  <2>5. CASE ret[0] # 0
    BY <2>3, <2>5 DEF Children, RootHasBothSides
  <2> QED
    BY <2>4, <2>5
<1> QED
  BY <1>10, <1>11, <1>12, <1>13, <1>14, <1>15 DEF Inv

LEMMA StandsStays ==
  ASSUME SameKind, TreeSame, NEW n \in NodeIds, ret'[n] = ret[n], ret[n] \in NodeIds \cup {NULL},
         Stands(n)
  PROVE  Stands(n)'
<1>1. PresentIn(n)' = PresentIn(n)
  BY TreeStays
<1>2. CASE ret[n] = NULL
  BY <1>1, <1>2 DEF Stands
<1>3. CASE ret[n] # NULL
  <2>1. PICK m \in NodeIds : m = ret[n] /\ StandsFor(m, n)
    BY <1>3 DEF Stands
  <2>2. IsFull(m)'
    BY <2>1, TreeStays DEF StandsFor
  <2>3. Inside(m, n)' /\ (PresentIn(n) \subseteq Slice(m))' /\ (IsLeaf(n)' <=> IsLeaf(n))
    BY <2>1 DEF StandsFor, TreeSame, Inside, PresentIn, Slice, IsLeaf
  <2>4. (\E c \in Children(n) : PresentIn(c) = {})' <=> \E c \in Children(n) : PresentIn(c) = {}
    BY DEF TreeSame, Children, PresentIn, Slice
  <2>5. StandsFor(m, n)'
    BY <2>1, <2>2, <2>3, <2>4 DEF StandsFor
  <2> QED
    BY <1>3, <2>1, <2>5 DEF Stands
<1> QED
  BY <1>2, <1>3

LEMMA ForkKeeps ==
  ASSUME Inv, SameKind, NEW n \in NodeIds, Fork(n)
  PROVE  Inv'
<1> DEFINE l == left[n]
           r == right[n]
           lower == {p \in to_erase[n] : GoesLeft(n, p)}
<1>1. /\ call[n] = "called" /\ ~IsLeaf(n) /\ pc' = pc /\ held' = held
      /\ to_erase' = [to_erase EXCEPT ![n] = {}, ![l] = lower, ![r] = to_erase[n] \ lower]
      /\ call' = [call EXCEPT ![n] = "forked", ![l] = "called", ![r] = "called"]
      /\ cur_size' = cur_size /\ ret' = ret /\ num_removed' = num_removed
      /\ TreeSame
  BY DEF Fork, TreeSame, nodeVars
<1>2. pc = "bulk" /\ cur_size > 0
  BY <1>1 DEF Inv, CallsInv
<1>3. TypeOK /\ TreeInv /\ SizesAre /\ SlicesTyped /\ CallsInv
  BY <1>2, UsedAre DEF Inv
<1>4. /\ l \in NodeIds /\ r \in NodeIds /\ l # r /\ l # n /\ r # n
      /\ Below(l, n) /\ Below(r, n) /\ Inside(l, n) /\ Inside(r, n) /\ Apart(l, r)
      /\ Children(n) = {l, r} /\ l # NULL /\ r # NULL
  <2>1. ~((l = NULL) # (r = NULL))
    BY <1>2, <1>3 DEF TreeInv, HalfInv, MayBeHalf
  <2>2. l # NULL /\ r # NULL
    BY <1>1, <2>1 DEF IsLeaf
  <2> QED
    BY <1>3, <2>2, ChildrenAre DEF Children
<1>5. call[l] = "none" /\ call[r] = "none"
  BY <1>1, <1>3, <1>4, NoneInside
<1> HIDE DEF l, r, lower
<1>6. /\ call[n] = "called" /\ call'[n] = "forked" /\ call'[l] = "called" /\ call'[r] = "called"
      /\ \A m \in NodeIds : m \notin {n, l, r} => call'[m] = call[m]
      /\ to_erase'[l] = lower /\ to_erase'[r] = to_erase[n] \ lower
      /\ \A m \in NodeIds : m \notin {n, l, r} => to_erase'[m] = to_erase[m]
  BY <1>1, <1>3, <1>4 DEF TypeOK
<1>7. /\ PresentUsed' = PresentUsed /\ PresentPoints' = PresentPoints
      /\ \A m \in NodeIds : Slice(m)' = Slice(m)
      /\ \A a, b \in NodeIds : (Inside(a, b)' <=> Inside(a, b)) /\ (Apart(a, b)' <=> Apart(a, b))
      /\ items' = items /\ left' = left /\ right' = right /\ slice' = slice
  BY <1>1, TreeStays, ShapeStays DEF TreeSame
<1>8. TypeOK'
  <2>1. lower \in SUBSET Points /\ to_erase[n] \ lower \in SUBSET Points
    BY <1>3 DEF TypeOK, lower
  <2>2. to_erase' \in [NodeIds -> SUBSET Points]
    BY <1>1, <1>3, <1>4, <2>1 DEF TypeOK
  <2>3. call' \in [NodeIds -> {"none", "called", "forked", "returned"}]
    BY <1>1, <1>3, <1>4 DEF TypeOK
  <2> QED
    BY <1>1, <1>3, <2>2, <2>3 DEF TypeOK, TreeSame, SameKind
<1>9. TreeInv'
  <2>1. \A m \in NodeIds : HalfInv(m)'
    BY <1>1, <1>3 DEF TreeInv, HalfInv, MayBeHalf, TreeSame, SameKind
  <2> QED
    BY <1>1, <1>3, <2>1, TreeStays
<1>10. CountInv'
  <2>1. \A m \in NodeIds : num_removed'[m] # 0 => call'[m] = "returned"
    BY <1>1, <1>5, <1>6 DEF Inv, CountInv
  <2> QED
    BY <1>1, <1>2, <1>7, <2>1 DEF Inv, CountInv, TreeSame
<1>11. HeldInv'
  <2>1. ASSUME NEW x \in PresentUsed, items[x] \notin held
        PROVE  \E m \in NodeIds : call'[m] = "called" /\ x \in Slice(m) /\ items[x] \in to_erase'[m]
    <3>1. PICK m \in NodeIds : call[m] = "called" /\ x \in Slice(m) /\ items[x] \in to_erase[m]
      BY <1>2, <2>1 DEF Inv, HeldInv
    <3>2. CASE m # n
      <4>1. m \notin {n, l, r}
        BY <1>5, <3>1, <3>2
      <4> QED
        BY <1>6, <3>1, <4>1
    <3>3. CASE m = n
      <4>1. x \in PresentIn(n)
        BY <3>1, <3>3 DEF PresentUsed, PresentIn
      <4>2. x \in Slice(l) \/ x \in Slice(r)
        BY <1>1, <1>3, <1>4, <4>1 DEF TreeInv, CoverInv
      <4>3. LinksInv(n)
        BY <1>3 DEF TreeInv
      <4>4. CASE x \in Slice(l)
        <5>1. GoesLeft(n, items[x])
          BY <1>4, <4>3, <4>4 DEF LinksInv, l
        <5> QED
          BY <1>4, <1>6, <3>1, <3>3, <4>4, <5>1 DEF lower
      <4>5. CASE x \in Slice(r)
        <5>1. ~GoesLeft(n, items[x])
          BY <1>4, <4>3, <4>5 DEF LinksInv, r
        <5> QED
          BY <1>4, <1>6, <3>1, <3>3, <4>5, <5>1 DEF lower
      <4> QED
        BY <4>2, <4>4, <4>5
    <3> QED
      BY <3>2, <3>3
  <2>2. \A m \in NodeIds : call'[m] = "called" => to_erase'[m] \cap held = {}
    <3>1. \A m \in NodeIds : call[m] = "called" => to_erase[m] \cap held = {}
      BY DEF Inv, HeldInv
    <3>2. to_erase[n] \cap held = {}
      BY <1>1, <3>1
    <3>3. lower \cap held = {} /\ (to_erase[n] \ lower) \cap held = {}
      BY <3>2 DEF lower
    <3> QED
      BY <1>6, <3>1, <3>3
  <2>3. held \subseteq PresentPoints
    BY DEF Inv, HeldInv
  <2> QED
    BY <1>1, <1>2, <1>7, <2>1, <2>2, <2>3 DEF HeldInv
<1>12. CallsInv'
  <2>1. ASSUME NEW m \in NodeIds, call'[m] # "none"  PROVE slice[m].first < slice[m].end
    <3>1. m \in {l, r} \/ call[m] # "none"
      BY <1>6, <2>1
    <3>2. CASE m \in {l, r}
      BY <1>4, <3>2 DEF Inside
    <3> QED
      BY <1>3, <3>1, <3>2 DEF CallsInv
  <2>2. \A m \in NodeIds : call'[m] = "forked" => left[m] # NULL /\ right[m] # NULL
    BY <1>3, <1>4, <1>6 DEF CallsInv, l, r
  <2>3. \A a, b \in NodeIds : Over(a, b)' <=> call'[a] = "forked" /\ (Inside(b, left[a]) \/ Inside(b, right[a]))
    BY <1>7 DEF Over, Inside
  <2>4. ASSUME NEW a \in NodeIds, NEW b \in NodeIds, a # b, call[a] # "none", call[b] # "none"
        PROVE  Apart(a, b) \/ Over(a, b)' \/ Over(b, a)'
    <3>1. \A m \in NodeIds : call[m] = "forked" => call'[m] = "forked"
      BY <1>5, <1>6
    <3> QED
      BY <1>3, <2>3, <2>4, <3>1 DEF CallsInv, Over
  <2>5. \A c \in {l, r} : Inside(c, c)
    BY <1>3, <1>4 DEF Inside, SlicesTyped
  <2>6. \A c \in {l, r} : Over(n, c)'
    BY <1>4, <1>6, <2>3, <2>5 DEF l, r
  <2>7. ASSUME NEW a \in NodeIds, a # n, call[a] # "none", NEW c \in {l, r}
        PROVE  Apart(a, c) \/ Over(a, c)'
    <3>1. Apart(a, n) \/ Over(a, n)
      BY <1>1, <1>3, <2>7 DEF CallsInv, Over
    <3>2. c \in NodeIds /\ Inside(c, n)
      BY <1>4
    <3>3. CASE Apart(a, n)
      BY <1>3, <3>2, <3>3, SlicesAre
    <3>4. CASE Over(a, n)
      <4>1. PICK d \in {left[a], right[a]} : Inside(n, d) /\ call[a] = "forked"
        BY <3>4 DEF Over
      <4>2. d \in NodeIds
        <5>1. d \in Children(a)
          BY <1>3, <4>1 DEF CallsInv, Children
        <5> QED
          BY <1>3, <5>1, ChildrenAre
      <4>3. Inside(c, d)
        BY <1>3, <3>2, <4>1, <4>2, SlicesAre
      <4>4. call'[a] = "forked"
        BY <1>5, <1>6, <4>1
      <4> QED
        BY <2>3, <3>2, <4>1, <4>3, <4>4
    <3> QED
      BY <3>1, <3>3, <3>4
  <2>8. \A m \in NodeIds : call'[m] # "none" <=> call[m] # "none" \/ m = l \/ m = r
    BY <1>6
  <2>9. ASSUME NEW a \in NodeIds, NEW b \in NodeIds, a # b, call'[a] # "none", call'[b] # "none"
        PROVE  Apart(a, b) \/ Over(a, b)' \/ Over(b, a)'
    <3>1. CASE a \in {l, r} /\ b \in {l, r}
      BY <1>3, <1>4, <2>9, <3>1, SlicesAre
    <3>2. CASE a \in {l, r} /\ b \notin {l, r}
      <4>1. CASE b = n
        BY <2>6, <3>2, <4>1
      <4>2. CASE b # n
        <5>1. Apart(b, a) \/ Over(b, a)'
          BY <2>7, <2>8, <2>9, <3>2, <4>2
        <5> QED
          BY <1>3, <5>1, SlicesAre
      <4> QED
        BY <4>1, <4>2
    <3>3. CASE a \notin {l, r} /\ b \in {l, r}
      BY <2>6, <2>7, <2>8, <2>9, <3>3
    <3>4. CASE a \notin {l, r} /\ b \notin {l, r}
      BY <2>4, <2>8, <2>9, <3>4
    <3> QED
      BY <3>1, <3>2, <3>3, <3>4
  <2> QED
    BY <1>1, <1>2, <1>7, <2>1, <2>2, <2>9 DEF CallsInv
<1>13. RetInv'
  <2> SUFFICES ASSUME NEW m \in NodeIds, call'[m] = "returned"  PROVE Stands(m)'
    BY DEF RetInv
  <2>1. call[m] = "returned"
    BY <1>6
  <2> QED
    BY <1>1, <1>3, <2>1, StandsStays DEF Inv, RetInv, TypeOK
<1>14. FullInv'
  BY <1>1, <1>2 DEF FullInv
<1> QED
  BY <1>8, <1>9, <1>10, <1>11, <1>12, <1>13, <1>14 DEF Inv

-----------------------------------------------------------------------------
(* The end of a call of a bulk erase *)

\* A step that changes nothing inside m changes nothing of what m stands for.
LEMMA StandsApart ==
  ASSUME SlicesTyped, NEW n \in NodeIds, slice' = slice, ret'[n] = ret[n], Stands(n), Inside(n, n),
         \A j \in NodeIds : Inside(j, n) =>
           PresentIn(j)' = PresentIn(j) /\ left'[j] = left[j] /\ right'[j] = right[j],
         \A j \in NodeIds : \A c \in Children(j) : c \in NodeIds /\ Inside(c, j)
  PROVE  Stands(n)'
<1>1. PresentIn(n)' = PresentIn(n) /\ left'[n] = left[n] /\ right'[n] = right[n]
  OBVIOUS
<1>2. CASE ret[n] = NULL
  BY <1>1, <1>2 DEF Stands
<1>3. CASE ret[n] # NULL
  <2>1. PICK m \in NodeIds : m = ret[n] /\ StandsFor(m, n)
    BY <1>3 DEF Stands
  <2>2. Inside(m, n) /\ PresentIn(n) \subseteq Slice(m)
    BY <2>1 DEF StandsFor
  <2>3. PICK T \in SUBSET NodeIds : FullTree(T, m)
    BY <2>1 DEF StandsFor, IsFull
  <2>4. ASSUME NEW j \in T
        PROVE  /\ Inside(j, m) /\ PresentIn(j) # {} /\ Children(j) \subseteq T
               /\ PresentIn(j)' = PresentIn(j) /\ Children(j)' = Children(j)
    <3>1. Inside(j, m) /\ PresentIn(j) # {} /\ Children(j) \subseteq T /\ j \in NodeIds
      BY <2>3 DEF FullTree
    <3>2. Inside(j, n)
      BY <2>2, <3>1, SlicesAre
    <3>3. left'[j] = left[j] /\ right'[j] = right[j] /\ PresentIn(j)' = PresentIn(j)
      BY <3>1, <3>2
    <3> QED
      BY <3>1, <3>3 DEF Children
  <2>5. FullTree(T, m)'
    <3>1. \A j \in T : Inside(j, m)'
      BY <2>4 DEF Inside
    <3>2. m \in T /\ \A a, b \in T : a # b => Children(a) \cap Children(b) = {}
      BY <2>3 DEF FullTree
    <3>3. \A a, b \in T : a # b => Children(a)' \cap Children(b)' = {}
      BY <2>4, <3>2
    <3>4. \A j \in T : (PresentIn(j) # {})' /\ (Children(j) \subseteq T)'
      BY <2>4
    <3> QED
      BY <3>1, <3>2, <3>3, <3>4 DEF FullTree
  <2>6. IsFull(m)'
    BY <2>5 DEF IsFull
  <2>7. m # n => ~IsLeaf(n)' /\ \E c \in Children(n)' : PresentIn(c)' = {}
    <3> SUFFICES ASSUME m # n  PROVE ~IsLeaf(n)' /\ \E c \in Children(n)' : PresentIn(c)' = {}
      OBVIOUS
    <3>1. PICK c \in Children(n) : PresentIn(c) = {}
      BY <2>1 DEF StandsFor
    <3>2. c \in NodeIds /\ PresentIn(c)' = PresentIn(c) /\ Children(n)' = Children(n)
      BY <1>1 DEF Children
    <3>3. ~IsLeaf(n)'
      BY <1>1, <2>1 DEF StandsFor, IsLeaf
    <3> QED
      BY <3>1, <3>2, <3>3
  <2>8. Inside(m, n)' /\ (PresentIn(n) \subseteq Slice(m))'
    BY <1>1, <2>2 DEF Inside, Slice
  <2>9. StandsFor(m, n)'
    BY <2>6, <2>7, <2>8 DEF StandsFor
  <2> QED
    BY <1>3, <2>1, <2>9 DEF Stands
<1> QED
  BY <1>2, <1>3

\* Some of the points present in the leaf n are removed.
Loses(n, removed) ==
  /\ n \in NodeIds /\ IsLeaf(n) /\ slice[n].first < slice[n].end
  /\ removed \in SUBSET PresentIn(n)
  /\ present' = [x \in Positions |-> present[x] /\ x \notin removed]
  /\ items' = items /\ build_size' = build_size /\ slice' = slice
  /\ split_dimension' = split_dimension /\ split_value' = split_value

LEMMA LosesOnly ==
  ASSUME TypeOK, TreeInv, NEW n, NEW removed, Loses(n, removed)
  PROVE  /\ Used' = Used /\ PresentUsed' = PresentUsed \ removed /\ removed \subseteq PresentUsed
         /\ \A m \in NodeIds : Slice(m)' = Slice(m) /\ PresentIn(m)' = PresentIn(m) \ removed
         /\ \A m \in NodeIds : Apart(m, n) => PresentIn(m)' = PresentIn(m)
         /\ present' \in [Positions -> BOOLEAN]
<1>1. n \in NodeIds /\ removed \in SUBSET PresentIn(n) /\ build_size' = build_size /\ slice' = slice
      /\ present' = [x \in Positions |-> present[x] /\ x \notin removed]
  BY DEF Loses
<1>2. Used \subseteq Positions /\ SlicesTyped /\ SizesAre
  BY UsedAre
<1>3. \A m \in NodeIds : Slice(m) \subseteq Used
  <2> SUFFICES ASSUME NEW m \in NodeIds  PROVE Slice(m) \subseteq Used
    OBVIOUS
  <2>1. slice[m].first \in Nat /\ slice[m].end \in Nat /\ slice[m].end <= build_size /\ build_size \in Nat
    BY <1>2, UsedAre DEF TreeInv, LinksInv, SlicesTyped
  <2> QED
    BY <2>1 DEF Slice, Used
<1>4. Used' = Used /\ \A m \in NodeIds : Slice(m)' = Slice(m)
  BY <1>1 DEF Used, Slice
<1>5. \A x \in Used : present'[x] <=> present[x] /\ x \notin removed
  BY <1>1, <1>2
<1>6. PresentUsed' = PresentUsed \ removed
  BY <1>4, <1>5 DEF PresentUsed
<1>7. \A m \in NodeIds : PresentIn(m)' = PresentIn(m) \ removed
  BY <1>3, <1>4, <1>5 DEF PresentIn
<1>8. \A m \in NodeIds : Apart(m, n) => PresentIn(m) \cap removed = {}
  BY <1>1, <1>2, SlicesAre DEF PresentIn
<1>9. removed \subseteq PresentUsed
  BY <1>1, PresentAre
<1>10. present' \in [Positions -> BOOLEAN]
  BY <1>1 DEF TypeOK
<1> QED
  BY <1>4, <1>6, <1>7, <1>8, <1>9, <1>10

LEMMA LosesCounted ==
  ASSUME TypeOK, TreeInv, NEW n, NEW removed, Loses(n, removed)
  PROVE  /\ Cardinality(removed) \in Nat /\ Cardinality(PresentIn(n)') \in Nat
         /\ num_points[n] - Cardinality(removed) = Cardinality(PresentIn(n)')
         /\ Cardinality(PresentUsed') = Cardinality(PresentUsed) - Cardinality(removed)
         /\ Cardinality(removed) <= Cardinality(PresentUsed)
         /\ Cardinality(removed) <= max_size
         /\ Cardinality(PresentIn(n)') <= max_size
         /\ Cardinality(PresentIn(n)') = 0 <=> PresentIn(n)' = {}
<1>1. /\ n \in NodeIds /\ IsLeaf(n) /\ slice[n].first < slice[n].end
      /\ removed \subseteq PresentIn(n) /\ removed \subseteq PresentUsed
      /\ PresentIn(n)' = PresentIn(n) \ removed /\ PresentUsed' = PresentUsed \ removed
  BY LosesOnly DEF Loses
<1>2. IsFiniteSet(PresentUsed) /\ PresentIn(n) \subseteq PresentUsed
  BY <1>1, UsedAre, PresentAre
<1>3. num_points[n] = Cardinality(PresentIn(n))
  BY <1>1 DEF TreeInv, LeafInv
<1>4. \A s : s \subseteq PresentUsed =>
        /\ IsFiniteSet(s) /\ Cardinality(s) \in Nat /\ Cardinality(s) <= Cardinality(PresentUsed)
        /\ removed \subseteq s => Cardinality(s \ removed) = Cardinality(s) - Cardinality(removed)
        /\ Cardinality(s) = 0 <=> s = {}
  <2> SUFFICES ASSUME NEW s, s \subseteq PresentUsed
               PROVE  /\ IsFiniteSet(s) /\ Cardinality(s) \in Nat
                      /\ Cardinality(s) <= Cardinality(PresentUsed)
                      /\ removed \subseteq s => Cardinality(s \ removed) = Cardinality(s) - Cardinality(removed)
                      /\ Cardinality(s) = 0 <=> s = {}
    OBVIOUS
  <2>1. IsFiniteSet(s) /\ Cardinality(s) <= Cardinality(PresentUsed)
    BY <1>2, FS_Subset
  <2>2. Cardinality(s) \in Nat
    BY <2>1, FS_CardinalityType
  <2>3. removed \subseteq s => Cardinality(s \ removed) = Cardinality(s) - Cardinality(removed)
    <3> SUFFICES ASSUME removed \subseteq s
                 PROVE  Cardinality(s \ removed) = Cardinality(s) - Cardinality(removed)
      OBVIOUS
    <3>1. IsFiniteSet(removed) /\ IsFiniteSet(s \ removed)
      BY <2>1, FS_Subset
    <3>2. Cardinality(removed) \in Nat /\ Cardinality(s \ removed) \in Nat
      BY <3>1, FS_CardinalityType
    <3>3. (s \ removed) \cup removed = s /\ (s \ removed) \cap removed = {}
      OBVIOUS
    <3>4. Cardinality(s) = Cardinality(s \ removed) + Cardinality(removed)
      BY <3>1, <3>3, DisjointSize
    <3> QED
      BY <3>2, <3>4
  <2>4. Cardinality(s) = 0 <=> s = {}
    BY <2>1, FS_EmptySet
  <2> QED
    BY <2>1, <2>2, <2>3, <2>4
<1>5. Cardinality(PresentUsed) <= max_size /\ max_size \in Nat /\ Cardinality(PresentUsed) \in Nat
  <2>1. /\ Cardinality(PresentUsed) \in Nat /\ Cardinality(PresentUsed) <= build_size
        /\ build_size \in Nat /\ build_size <= max_size /\ SizesAre
    BY UsedAre
  <2> QED
    BY <2>1 DEF SizesAre
<1>6. /\ Cardinality(removed) \in Nat /\ Cardinality(removed) <= Cardinality(PresentUsed)
      /\ Cardinality(PresentIn(n) \ removed) \in Nat
      /\ Cardinality(PresentIn(n) \ removed) <= Cardinality(PresentUsed)
      /\ Cardinality(PresentIn(n) \ removed) = Cardinality(PresentIn(n)) - Cardinality(removed)
      /\ Cardinality(PresentUsed \ removed) = Cardinality(PresentUsed) - Cardinality(removed)
      /\ Cardinality(PresentIn(n) \ removed) = 0 <=> PresentIn(n) \ removed = {}
  <2>1. /\ removed \subseteq PresentUsed /\ PresentIn(n) \subseteq PresentUsed
        /\ PresentIn(n) \ removed \subseteq PresentUsed /\ PresentUsed \subseteq PresentUsed
    BY <1>1, <1>2
  <2> QED
    BY <1>1, <1>4, <2>1, Zenon
<1>7. /\ Cardinality(removed) <= max_size
      /\ Cardinality(PresentIn(n) \ removed) <= max_size
  BY <1>5, <1>6
<1> QED
  BY <1>1, <1>3, <1>6, <1>7, Zenon

\* A box computed anew for a leaf holds what is left in it.
LEMMA LeafBoxCovers ==
  ASSUME TypeOK, TreeInv, NEW n, NEW removed, Loses(n, removed), PresentIn(n)' # {}
  PROVE  /\ LeafBox(n, present)' \in Boxes
         /\ \A x \in PresentIn(n)' : InBox(LeafBox(n, present)', items[x])
         /\ LeafBox(n, present)' = LeafBox(n, [x \in Positions |-> present[x] /\ x \notin removed])
<1> DEFINE P == {items[x] : x \in PresentIn(n)'}
<1>1. n \in NodeIds /\ PresentIn(n)' \subseteq PresentIn(n) /\ items' = items /\ slice' = slice
      /\ present' = [x \in Positions |-> present[x] /\ x \notin removed]
  BY LosesOnly DEF Loses
<1>2. LeafBox(n, present)' = BoxOf(P)
  BY <1>1 DEF LeafBox, PresentIn, Slice, BoxOf
<1>3. IsFiniteSet(P) /\ P # {} /\ \A p \in P : p \in [Dims -> Int]
  <2>1. PresentIn(n) \subseteq PresentUsed /\ \A x \in PresentIn(n) : items[x] \in Points
    BY <1>1, PresentAre
  <2>2. IsFiniteSet(PresentIn(n)')
    BY <1>1, <2>1, UsedAre, FS_Subset
  <2>3. IsFiniteSet(P)
    BY <2>2, ImageIsFinite
  <2> QED
    BY <1>1, <2>1, <2>3, UsedAre DEF SizesAre
<1>4. BoxOf(P) \in Boxes /\ \A p \in P : InBox(BoxOf(P), p)
  <2> HIDE DEF P
  <2> QED
    BY <1>3, BoxIs
<1>5. LeafBox(n, present)' = LeafBox(n, [x \in Positions |-> present[x] /\ x \notin removed])
  BY <1>1 DEF LeafBox, Slice, BoxOf
<1> QED
  BY <1>2, <1>4, <1>5

\* The nodes of a tree whose links and leaf boxes go on to hold
LeavesStay(n, removed) ==
  /\ num_points' = [num_points EXCEPT ![n] = num_points[n] - Cardinality(removed)]
  /\ \A m \in NodeIds \ {n} : IsLeaf(m) => box'[m] = box[m]
  /\ PresentIn(n)' # {} => box'[n] = LeafBox(n, present)'

LEMMA LosesKeepsLeaves ==
  ASSUME TypeOK, TreeInv, NEW n, NEW removed, Loses(n, removed), LeavesStay(n, removed)
  PROVE  \A m \in NodeIds : IsLeaf(m) /\ slice[m].first < slice[m].end =>
           /\ num_points'[m] = Cardinality(PresentIn(m)')
           /\ num_points'[m] > 0 => box'[m] = LeafBox(m, present)'
<1>1. /\ n \in NodeIds /\ IsLeaf(n) /\ items' = items /\ slice' = slice
      /\ present' = [x \in Positions |-> present[x] /\ x \notin removed]
      /\ SlicesTyped
  BY UsedAre DEF Loses
<1> SUFFICES ASSUME NEW m \in NodeIds, IsLeaf(m), slice[m].first < slice[m].end
             PROVE  /\ num_points'[m] = Cardinality(PresentIn(m)')
                    /\ num_points'[m] > 0 => box'[m] = LeafBox(m, present)'
  OBVIOUS
<1>2. CASE m = n
  <2>1. num_points'[n] = num_points[n] - Cardinality(removed)
    BY <1>1 DEF LeavesStay, TypeOK
  <2>2. num_points'[n] = Cardinality(PresentIn(n)')
    BY <2>1, LosesCounted
  <2>3. num_points'[n] > 0 => PresentIn(n)' # {}
    BY <2>2, LosesCounted
  <2> QED
    BY <1>2, <2>2, <2>3 DEF LeavesStay
<1>3. CASE m # n
  <2>1. Apart(m, n)
    BY <1>1, <1>3 DEF TreeInv, LeavesApart
  <2>2. PresentIn(m)' = PresentIn(m)
    BY <2>1, LosesOnly
  <2>3. num_points'[m] = num_points[m] /\ box'[m] = box[m]
    BY <1>1, <1>3 DEF LeavesStay, TypeOK
  <2>4. LeafBox(m, present)' = LeafBox(m, present)
    BY <1>1, <2>2 DEF LeafBox, PresentIn, Slice, BoxOf
  <2>5. LeafInv(m)
    BY DEF TreeInv
  <2> QED
    BY <2>2, <2>3, <2>4, <2>5 DEF LeafInv
<1> QED
  BY <1>2, <1>3

\* Where the links of the tree stay as they are
LEMMA LosesKeepsTree ==
  ASSUME SameKind, TypeOK, TreeInv, NEW n, NEW removed, Loses(n, removed),
         left' = left, right' = right, pc' = pc, LeavesStay(n, removed),
         box' = box \/ (PresentIn(n)' # {} /\ box' = [box EXCEPT ![n] = LeafBox(n, present)'])
  PROVE  TreeInv'
<1>1. /\ n \in NodeIds /\ IsLeaf(n) /\ items' = items /\ slice' = slice /\ build_size' = build_size
      /\ split_dimension' = split_dimension /\ split_value' = split_value
      /\ SlicesTyped
  BY UsedAre DEF Loses
<1>2. ItemsInv' /\ LeavesApart' /\ SidesInv'
  BY <1>1 DEF TreeInv, ItemsInv, Used, LeavesApart, IsLeaf, Apart, SidesInv, Children, SameKind
<1>3. ASSUME NEW m \in NodeIds  PROVE LinksInv(m)' /\ HalfInv(m)' /\ CoverInv(m)' /\ LeafInv(m)'
  <2>1. LinksInv(m) /\ HalfInv(m) /\ CoverInv(m) /\ LeafInv(m)
    BY DEF TreeInv
  <2>2. LinksInv(m)'
    BY <1>1, <2>1 DEF LinksInv, Below, Inside, Slice, GoesLeft, IsLeaf
  <2>3. HalfInv(m)'
    BY <2>1 DEF HalfInv, MayBeHalf, SameKind
  <2>4. CoverInv(m)'
    <3>1. PresentIn(m)' \subseteq PresentIn(m)
      BY LosesOnly
    <3>2. ASSUME NEW x \in PresentIn(m)'  PROVE InBox(box[m], items[x])'
      <4>1. CASE box'[m] = box[m]
        BY <1>1, <2>1, <3>1, <3>2, <4>1 DEF CoverInv, InBox
      <4>2. CASE box'[m] # box[m]
        <5>1. m = n /\ box'[n] = LeafBox(n, present)' /\ PresentIn(n)' # {}
          BY <1>1, <4>2 DEF TypeOK
        <5>2. InBox(LeafBox(n, present)', items[x])
          BY <3>2, <5>1, LeafBoxCovers
        <5> QED
          BY <1>1, <5>1, <5>2 DEF InBox
      <4> QED
        BY <4>1, <4>2
    <3>3. \A x \in PresentIn(m)' : ~IsLeaf(m)' => \E c \in Children(m)' : x \in Slice(c)'
      BY <1>1, <2>1, <3>1 DEF CoverInv, IsLeaf, Children, Slice
    <3> QED
      BY <3>2, <3>3 DEF CoverInv
  <2>5. LeafInv(m)'
    BY <1>1, LosesKeepsLeaves DEF LeafInv, IsLeaf
  <2> QED
    BY <2>2, <2>3, <2>4, <2>5
<1> QED
  BY <1>2, <1>3 DEF TreeInv

LEMMA EraseLeafKeeps ==
  ASSUME Inv, SameKind, NEW n \in NodeIds, EraseLeaf(n)
  PROVE  Inv'
<1> DEFINE removed == {x \in PresentIn(n) : items[x] \in to_erase[n]}
           flags == [x \in Positions |-> present[x] /\ x \notin removed]
           left_over == num_points[n] - Cardinality(removed)
<1>1. /\ call[n] = "called" /\ IsLeaf(n) /\ pc' = pc /\ held' = held
      /\ present' = flags
      /\ num_points' = [num_points EXCEPT ![n] = left_over]
      /\ box' = IF left_over # 0 /\ removed # {}
                  THEN [box EXCEPT ![n] = LeafBox(n, flags)] ELSE box
      /\ ret' = [ret EXCEPT ![n] = IF left_over = 0 THEN NULL ELSE n]
      /\ num_removed' = [num_removed EXCEPT ![n] = Cardinality(removed)]
      /\ call' = [call EXCEPT ![n] = "returned"]
      /\ to_erase' = [to_erase EXCEPT ![n] = {}]
      /\ items' = items /\ cur_size' = cur_size /\ build_size' = build_size
      /\ left' = left /\ right' = right
      /\ split_dimension' = split_dimension /\ split_value' = split_value /\ slice' = slice
  BY DEF EraseLeaf, splitVars
<1>2. pc = "bulk" /\ cur_size > 0
  BY <1>1 DEF Inv, CallsInv
<1>3. TypeOK /\ TreeInv /\ SizesAre /\ SlicesTyped /\ CallsInv
  BY <1>2, UsedAre DEF Inv
<1>4. /\ slice[n].first < slice[n].end /\ Loses(n, removed)
  BY <1>1, <1>3 DEF CallsInv, Loses
<1>5. left_over = Cardinality(PresentIn(n)') /\ (left_over = 0 <=> PresentIn(n)' = {}) /\ left_over \in 0..max_size
  <2>1. /\ left_over = Cardinality(PresentIn(n)') /\ Cardinality(PresentIn(n)') \in Nat
        /\ Cardinality(PresentIn(n)') <= max_size /\ (Cardinality(PresentIn(n)') = 0 <=> PresentIn(n)' = {})
    BY <1>3, <1>4, LosesCounted
  <2> QED
    BY <1>3, <2>1 DEF SizesAre
<1>6. PresentIn(n)' # {} => LeafBox(n, present)' = LeafBox(n, flags) /\ LeafBox(n, flags) \in Boxes
  BY <1>3, <1>4, LeafBoxCovers
<1>7. /\ PresentUsed' = PresentUsed \ removed /\ removed \subseteq PresentUsed /\ Used' = Used
      /\ \A m \in NodeIds : Slice(m)' = Slice(m) /\ PresentIn(m)' = PresentIn(m) \ removed
      /\ \A m \in NodeIds : Apart(m, n) => PresentIn(m)' = PresentIn(m)
      /\ present' \in [Positions -> BOOLEAN]
  BY <1>3, <1>4, LosesOnly
<1>8. /\ \A x : x \in removed <=> x \in PresentIn(n) /\ items[x] \in to_erase[n]
  OBVIOUS
<1>9. LeavesStay(n, removed)
  <2>1. \A m \in NodeIds \ {n} : box'[m] = box[m]
    BY <1>1, <1>3 DEF TypeOK
  <2>2. PresentIn(n)' # {} => box'[n] = LeafBox(n, present)'
    <3> SUFFICES ASSUME PresentIn(n)' # {}  PROVE box'[n] = LeafBox(n, present)'
      OBVIOUS
    <3>1. CASE removed # {}
      BY <1>1, <1>3, <1>5, <1>6, <3>1 DEF TypeOK
    <3>2. CASE removed = {}
      <4>1. box' = box /\ PresentIn(n)' = PresentIn(n)
        BY <1>1, <1>7, <3>2
      <4>2. num_points[n] > 0
        <5>1. num_points[n] = Cardinality(PresentIn(n)) /\ left_over # 0 /\ left_over \in Nat
          BY <1>1, <1>3, <1>4, <1>5 DEF TreeInv, LeafInv, SizesAre
        <5>2. left_over = Cardinality(PresentIn(n))
          BY <1>5, <4>1
        <5> HIDE DEF left_over
        <5> QED
          BY <5>1, <5>2
      <4>3. box[n] = LeafBox(n, present)
        BY <1>1, <1>3, <1>4, <4>2 DEF TreeInv, LeafInv
      <4>4. LeafBox(n, present)' = LeafBox(n, present)
        BY <1>1, <4>1 DEF LeafBox, PresentIn, Slice, BoxOf
      <4> QED
        BY <4>1, <4>3, <4>4
    <3> QED
      BY <3>1, <3>2
  <2> QED
    BY <1>1, <2>1, <2>2 DEF LeavesStay
<1> HIDE DEF removed, flags, left_over
<1>10. TreeInv'
  <2>1. box' = box \/ (PresentIn(n)' # {} /\ box' = [box EXCEPT ![n] = LeafBox(n, present)'])
    BY <1>1, <1>5, <1>6
  <2> QED
    BY <1>1, <1>3, <1>4, <1>9, <2>1, LosesKeepsTree
<1>11. /\ \A m \in NodeIds : call'[m] = IF m = n THEN "returned" ELSE call[m]
       /\ \A m \in NodeIds \ {n} : to_erase'[m] = to_erase[m] /\ ret'[m] = ret[m]
       /\ ret'[n] = IF left_over = 0 THEN NULL ELSE n
       /\ \A m \in NodeIds \ {n} : num_removed'[m] = num_removed[m]
       /\ num_removed'[n] = Cardinality(removed)
  BY <1>1, <1>3 DEF TypeOK
<1>12. num_removed[n] = 0
  BY <1>1 DEF Inv, CountInv
<1>13. /\ Cardinality(removed) \in Nat /\ Cardinality(removed) <= max_size
       /\ Cardinality(PresentUsed') = Cardinality(PresentUsed) - Cardinality(removed)
  BY <1>3, <1>4, LosesCounted
<1>14. TypeOK'
  <2>1. num_points' \in [NodeIds -> -1..max_size]
    <3>1. left_over \in -1..max_size
      BY <1>3, <1>5 DEF SizesAre
    <3> QED
      BY <1>1, <1>3, <3>1 DEF TypeOK
  <2>2. num_removed' \in [NodeIds -> 0..max_size]
    <3>1. Cardinality(removed) \in 0..max_size
      BY <1>3, <1>13 DEF SizesAre
    <3> QED
      BY <1>1, <1>3, <3>1 DEF TypeOK
  <2>3. box' \in [NodeIds -> Boxes]
    BY <1>1, <1>3, <1>5, <1>6 DEF TypeOK, Boxes
  <2>4. ret' \in [NodeIds -> NodeIds \cup {NULL}]
    BY <1>1, <1>3 DEF TypeOK
  <2> QED
    BY <1>1, <1>3, <1>7, <2>1, <2>2, <2>3, <2>4 DEF TypeOK, SameKind, Boxes
<1>15. CountInv'
  <2>1. \A m \in NodeIds : num_removed[m] \in Int /\ num_removed'[m] \in Int
    BY <1>3, <1>14, IdsAre DEF TypeOK
  <2>2. /\ SumFunctionOnSet(num_removed, NodeIds) = num_removed[n] + SumFunctionOnSet(num_removed, NodeIds \ {n})
        /\ SumFunctionOnSet(num_removed', NodeIds) = num_removed'[n] + SumFunctionOnSet(num_removed', NodeIds \ {n})
    BY <2>1, IdsAre, SumRemove
  <2>3. /\ SumFunctionOnSet(num_removed', NodeIds \ {n}) = SumFunctionOnSet(num_removed, NodeIds \ {n})
        /\ SumFunctionOnSet(num_removed, NodeIds \ {n}) \in Int
    <3>1. IsFiniteSet(NodeIds \ {n})
      BY IdsAre, FS_Subset
    <3> QED
      BY <1>11, <2>1, <3>1, SumSame, SumType
  <2>4. Cardinality(PresentUsed) \in Nat
    BY <1>3, UsedAre
  <2>5. cur_size = Cardinality(PresentUsed) + SumFunctionOnSet(num_removed, NodeIds)
    BY DEF Inv, CountInv
  <2>6. cur_size' = Cardinality(PresentUsed') + SumFunctionOnSet(num_removed', NodeIds)
    BY <1>1, <1>11, <1>12, <1>13, <2>2, <2>3, <2>4, <2>5
  <2>7. \A m \in NodeIds : num_removed'[m] # 0 => call'[m] = "returned"
    BY <1>11 DEF Inv, CountInv
  <2>8. build_size' # 0
    <3>1. slice[n].end <= build_size /\ slice[n].first \in Nat /\ slice[n].end \in Nat /\ build_size \in Nat
      BY <1>3, UsedAre DEF TreeInv, LinksInv, SlicesTyped
    <3> QED
      BY <1>1, <1>4, <3>1
  <2> QED
    BY <1>1, <1>2, <2>6, <2>7, <2>8 DEF CountInv
<1>16. HeldInv'
  <2>1. to_erase[n] \cap held = {}
    BY <1>1 DEF Inv, HeldInv
  <2>2. held \subseteq PresentPoints'
    <3> SUFFICES ASSUME NEW p \in held  PROVE \E x \in PresentUsed' : items[x] = p
      BY <1>1, <1>7 DEF PresentPoints, PresentUsed, Used
    <3>1. PICK x \in PresentUsed : items[x] = p
      BY <1>3, UsedAre DEF Inv, HeldInv
    <3>2. x \notin removed
      BY <1>8, <2>1, <3>1
    <3> QED
      BY <1>7, <3>1, <3>2
  <2>3. ASSUME NEW x \in PresentUsed', items[x] \notin held
        PROVE  \E m \in NodeIds : call'[m] = "called" /\ x \in Slice(m) /\ items[x] \in to_erase'[m]
    <3>1. PICK m \in NodeIds : call[m] = "called" /\ x \in Slice(m) /\ items[x] \in to_erase[m]
      BY <1>2, <1>7, <2>3 DEF Inv, HeldInv
    <3>2. m # n
      BY <1>7, <1>8, <2>3, <3>1 DEF PresentUsed, PresentIn
    <3> QED
      BY <1>11, <3>1, <3>2
  <2>4. \A m \in NodeIds : call'[m] = "called" => to_erase'[m] \cap held = {}
    BY <1>11 DEF Inv, HeldInv
  <2> QED
    BY <1>1, <1>2, <1>7, <2>2, <2>3, <2>4 DEF HeldInv
<1>17. CallsInv'
  <2>1. \A m \in NodeIds : call'[m] # "none" => call[m] # "none"
    BY <1>1, <1>11
  <2>2. \A m \in NodeIds : call'[m] = "forked" <=> call[m] = "forked"
    BY <1>1, <1>11
  <2>3. \A a, b \in NodeIds : (Apart(a, b)' <=> Apart(a, b)) /\ (Over(a, b)' <=> Over(a, b))
    BY <1>1, <2>2 DEF Apart, Over, Inside
  <2> QED
    BY <1>1, <1>2, <1>3, <2>1, <2>2, <2>3 DEF CallsInv
<1>18. RetInv'
  <2> SUFFICES ASSUME NEW m \in NodeIds, call'[m] = "returned"  PROVE Stands(m)'
    BY DEF RetInv
  <2>1. CASE m = n
    <3>1. CASE left_over = 0
      BY <1>5, <1>11, <2>1, <3>1 DEF Stands
    <3>2. CASE left_over # 0
      <4>1. FullTree({n}, n)'
        <5>1. Inside(n, n)'
          BY <1>1, <1>3, <1>4 DEF Inside, SlicesTyped
        <5>2. Children(n)' = {} /\ PresentIn(n)' # {}
          BY <1>1, <1>5, <3>2 DEF Children, IsLeaf
        <5> QED
          BY <5>1, <5>2 DEF FullTree
      <4>2. IsFull(n)'
        BY <4>1 DEF IsFull
      <4>3. StandsFor(n, n)'
        BY <1>1, <1>3, <1>4, <4>2 DEF StandsFor, Inside, SlicesTyped, PresentIn
      <4>4. ret'[n] = n /\ n # NULL
        BY <1>11, <3>2, IdsAre
      <4> QED
        BY <2>1, <4>3, <4>4 DEF Stands
    <3> QED
      BY <3>1, <3>2
  <2>2. CASE m # n
    <3>1. call[m] = "returned" /\ ret'[m] = ret[m] /\ Stands(m)
      BY <1>11, <2>2 DEF Inv, RetInv
    <3>2. Apart(m, n)
      BY <1>1, <1>3, <2>2, <3>1 DEF CallsInv, Over
    <3>3. \A j \in NodeIds : Inside(j, m) => PresentIn(j)' = PresentIn(j)
      BY <1>3, <1>7, <3>2, SlicesAre
    <3>4. Inside(m, m)
      BY <1>3, <3>1 DEF CallsInv, Inside, SlicesTyped
    <3>5. \A j \in NodeIds : \A c \in Children(j) : c \in NodeIds /\ Inside(c, j)
      BY <1>3, ChildrenAre
    <3> QED
      BY <1>1, <1>3, <3>1, <3>3, <3>4, <3>5, StandsApart
  <2> QED
    BY <2>1, <2>2
<1>19. FullInv'
  BY <1>1, <1>2 DEF FullInv
<1> QED
  BY <1>10, <1>14, <1>15, <1>16, <1>17, <1>18, <1>19 DEF Inv

-----------------------------------------------------------------------------
(* A node is given other children *)

\* The box of two boxes holds what either holds.
LEMMA CornersHold ==
  ASSUME NEW a \in Boxes, NEW b \in Boxes
  PROVE  /\ BoxOf(Corners(a, b)) \in Boxes
         /\ \A p \in [Dims -> Int] :
              InBox(a, p) \/ InBox(b, p) => InBox(BoxOf(Corners(a, b)), p)
<1> DEFINE C == Corners(a, b)
           B == BoxOf(C)
<1>1. IsFiniteSet(C)
  <2>1. IsFiniteSet({a.min}) /\ IsFiniteSet({a.max}) /\ IsFiniteSet({b.min}) /\ IsFiniteSet({b.max})
    BY FS_Singleton
  <2>2. IsFiniteSet(({a.min} \cup {a.max}) \cup ({b.min} \cup {b.max}))
    BY <2>1, FS_Union
  <2>3. C = ({a.min} \cup {a.max}) \cup ({b.min} \cup {b.max})
    BY DEF Corners
  <2> QED
    BY <2>2, <2>3
<1>2. /\ a.min \in C /\ a.max \in C /\ b.min \in C /\ b.max \in C
      /\ \A p \in C : p \in [Dims -> Int]
  BY DEF Corners, Boxes
<1> HIDE DEF C
<1>3. B \in Boxes /\ \A p \in C : InBox(B, p)
  BY <1>1, <1>2, BoxIs
<1> HIDE DEF B
<1>4. \A p \in [Dims -> Int] : InBox(a, p) \/ InBox(b, p) => InBox(B, p)
  <2> SUFFICES ASSUME NEW p \in [Dims -> Int], NEW e \in {a, b}, InBox(e, p), NEW d \in Dims
               PROVE  B.min[d] <= p[d] /\ p[d] <= B.max[d]
    BY DEF InBox
  <2>1. e.min[d] <= p[d] /\ p[d] <= e.max[d]
    BY DEF InBox
  <2>2. B.min[d] <= e.min[d] /\ e.max[d] <= B.max[d]
    BY <1>2, <1>3 DEF InBox
  <2>3. /\ B.min[d] \in Int /\ B.max[d] \in Int /\ e.min[d] \in Int /\ e.max[d] \in Int
        /\ p[d] \in Int
    BY <1>3 DEF Boxes
  <2> QED
    BY <2>1, <2>2, <2>3
<1> QED
  BY <1>3, <1>4 DEF B, C

LEMMA RecomputedHolds ==
  ASSUME TypeOK, NEW n \in NodeIds, NEW l \in NodeIds \cup {NULL}, NEW r \in NodeIds \cup {NULL}
  PROVE  /\ RecomputedBox(n, l, r) \in Boxes
         /\ \A p \in Points : /\ l # NULL /\ InBox(box[l], p) => InBox(RecomputedBox(n, l, r), p)
                              /\ r # NULL /\ InBox(box[r], p) => InBox(RecomputedBox(n, l, r), p)
<1>1. /\ \A i \in NodeIds : box[i] \in Boxes
      /\ \A p \in Points : p \in [Dims -> Int]
  BY UsedAre DEF TypeOK, Boxes, SizesAre
<1>2. CASE l # NULL /\ r # NULL
  <2>1. RecomputedBox(n, l, r) = BoxOf(Corners(box[l], box[r]))
    BY <1>2 DEF RecomputedBox
  <2>2. box[l] \in Boxes /\ box[r] \in Boxes
    BY <1>1, <1>2
  <2> QED
    BY <1>1, <2>1, <2>2, CornersHold
<1>3. CASE l = NULL \/ r = NULL
  BY <1>1, <1>3 DEF RecomputedBox
<1> QED
  BY <1>2, <1>3

\* n, which is no leaf, gets the children l and r from inside those it had, and
\* what is still present in n is in one of them.
Relinked(n, l, r) ==
  /\ left' = [left EXCEPT ![n] = l]
  /\ right' = [right EXCEPT ![n] = r]
  /\ box' = [box EXCEPT ![n] = RecomputedBox(n, l, r)]
  /\ l \in NodeIds \cup {NULL} /\ r \in NodeIds \cup {NULL} /\ ~(l = NULL /\ r = NULL)
  /\ l # NULL => left[n] # NULL /\ Inside(l, left[n])
  /\ r # NULL => right[n] # NULL /\ Inside(r, right[n])
  /\ \A x \in PresentIn(n)' : \E c \in {l, r} \ {NULL} : x \in Slice(c)

PlacesStay ==
  /\ items' = items /\ slice' = slice /\ build_size' = build_size
  /\ split_dimension' = split_dimension /\ split_value' = split_value

LEMMA RelinkedAre ==
  ASSUME TypeOK, TreeInv, NEW n \in NodeIds, ~IsLeaf(n), NEW l, NEW r, Relinked(n, l, r), slice' = slice
  PROVE  /\ left'[n] = l /\ right'[n] = r
         /\ \A m \in NodeIds \ {n} : left'[m] = left[m] /\ right'[m] = right[m] /\ box'[m] = box[m]
         /\ box'[n] = RecomputedBox(n, l, r)
         /\ \A m \in NodeIds : IsLeaf(m)' <=> IsLeaf(m)
         /\ \A c \in {l, r} \ {NULL} : c \in NodeIds /\ Below(c, n) /\ c # n
         /\ l # NULL => Below(l, n) /\ Inside(l, left[n]) /\ left[n] \in NodeIds
         /\ r # NULL => Below(r, n) /\ Inside(r, right[n]) /\ right[n] \in NodeIds
<1>1. /\ left'[n] = l /\ right'[n] = r /\ box'[n] = RecomputedBox(n, l, r)
      /\ \A m \in NodeIds \ {n} : left'[m] = left[m] /\ right'[m] = right[m] /\ box'[m] = box[m]
  BY DEF Relinked, TypeOK
<1>2. \A m \in NodeIds : IsLeaf(m)' <=> IsLeaf(m)
  BY <1>1 DEF IsLeaf, Relinked
<1>3. l # NULL => Below(l, n) /\ l # n /\ Inside(l, left[n]) /\ left[n] \in NodeIds
  <2> SUFFICES ASSUME l # NULL  PROVE Below(l, n) /\ l # n /\ Inside(l, left[n]) /\ left[n] \in NodeIds
    OBVIOUS
  <2>1. left[n] \in NodeIds /\ Below(left[n], n) /\ Inside(l, left[n]) /\ l \in NodeIds
    BY ChildrenAre DEF Relinked
  <2> QED
    BY <2>1, UsedAre, SlicesAre
<1>4. r # NULL => Below(r, n) /\ r # n /\ Inside(r, right[n]) /\ right[n] \in NodeIds
  <2> SUFFICES ASSUME r # NULL  PROVE Below(r, n) /\ r # n /\ Inside(r, right[n]) /\ right[n] \in NodeIds
    OBVIOUS
  <2>1. right[n] \in NodeIds /\ Below(right[n], n) /\ Inside(r, right[n]) /\ r \in NodeIds
    BY ChildrenAre DEF Relinked
  <2> QED
    BY <2>1, UsedAre, SlicesAre
<1>5. \A c \in {l, r} \ {NULL} : c \in NodeIds
  BY DEF Relinked
<1> QED
  BY <1>1, <1>2, <1>3, <1>4, <1>5

LEMMA RelinkKeepsTree ==
  ASSUME SameKind, TypeOK, TreeInv, NEW n \in NodeIds, ~IsLeaf(n), NEW l, NEW r, Relinked(n, l, r),
         PlacesStay,
         (l = NULL) # (r = NULL) => n = 0 /\ MayBeHalf', MayBeHalf => MayBeHalf',
         \A m \in NodeIds : PresentIn(m)' \subseteq PresentIn(m),
         \A m \in NodeIds : IsLeaf(m) /\ slice[m].first < slice[m].end =>
           /\ num_points'[m] = Cardinality(PresentIn(m)')
           /\ num_points'[m] > 0 => box'[m] = LeafBox(m, present)'
  PROVE  TreeInv'
<1>1. /\ items' = items /\ slice' = slice /\ build_size' = build_size
      /\ split_dimension' = split_dimension /\ split_value' = split_value
      /\ SlicesTyped
  BY UsedAre DEF PlacesStay
<1>2. /\ left'[n] = l /\ right'[n] = r
      /\ \A m \in NodeIds \ {n} : left'[m] = left[m] /\ right'[m] = right[m] /\ box'[m] = box[m]
      /\ box'[n] = RecomputedBox(n, l, r)
      /\ \A m \in NodeIds : IsLeaf(m)' <=> IsLeaf(m)
      /\ \A c \in {l, r} \ {NULL} : c \in NodeIds /\ Below(c, n) /\ c # n
      /\ l # NULL => Below(l, n) /\ Inside(l, left[n]) /\ left[n] \in NodeIds
      /\ r # NULL => Below(r, n) /\ Inside(r, right[n]) /\ right[n] \in NodeIds
  BY <1>1, RelinkedAre
<1>3. /\ l # NULL => left[n] # NULL /\ Inside(l, left[n])
      /\ r # NULL => right[n] # NULL /\ Inside(r, right[n])
      /\ l \in NodeIds \cup {NULL} /\ r \in NodeIds \cup {NULL} /\ ~(l = NULL /\ r = NULL)
      /\ \A x \in PresentIn(n)' : \E c \in {l, r} \ {NULL} : x \in Slice(c)
  BY DEF Relinked
<1>4. ItemsInv'
  BY <1>1 DEF TreeInv, ItemsInv, Used, SameKind
<1>5. LeavesApart'
  BY <1>1, <1>2 DEF TreeInv, LeavesApart, Apart
<1>6. SidesInv'
  <2> SUFFICES ASSUME median = "object", NEW c \in Children(0)'
               PROVE  slice[c].end - slice[c].first <= max_size \div 2
    BY <1>1 DEF SidesInv, SameKind
  <2>1. \A d \in Children(0) : slice[d].end - slice[d].first <= max_size \div 2
    BY DEF TreeInv, SidesInv
  <2>2. CASE n # 0
    BY <1>2, <2>1, <2>2, IdsAre DEF Children
  <2>3. CASE n = 0
    <3>1. PICK d \in Children(0) : Inside(c, d) /\ d \in NodeIds /\ c \in NodeIds
      <4>1. c \in {l, r} \ {NULL}
        BY <1>2, <2>3 DEF Children
      <4> QED
        BY <1>2, <1>3, <2>3, <4>1 DEF Children
    <3>2. slice[d].end - slice[d].first <= max_size \div 2
      BY <2>1, <3>1
    <3>3. /\ slice[c].first \in Nat /\ slice[c].end \in Nat
          /\ slice[d].first \in Nat /\ slice[d].end \in Nat
      BY <1>1, <3>1 DEF SlicesTyped
    <3>4. slice[d].first <= slice[c].first /\ slice[c].end <= slice[d].end
      BY <3>1 DEF Inside
    <3>5. max_size \div 2 \in Int
      BY UsedAre DEF SizesAre
    <3> QED
      BY <3>2, <3>3, <3>4, <3>5
  <2> QED
    BY <2>2, <2>3
<1>7. ASSUME NEW m \in NodeIds  PROVE LinksInv(m)'
  <2>1. LinksInv(m)
    BY DEF TreeInv
  <2>2. CASE m # n
    BY <1>1, <1>2, <2>1, <2>2 DEF LinksInv, Below, Inside, Slice, GoesLeft
  <2>3. CASE m = n
    <3>1. l # NULL => Below(l, n) /\ \A x \in Slice(l) : GoesLeft(n, items[x])
      <4> SUFFICES ASSUME l # NULL  PROVE Below(l, n) /\ \A x \in Slice(l) : GoesLeft(n, items[x])
        OBVIOUS
      <4>1. Slice(l) \subseteq Slice(left[n]) /\ Below(l, n)
        BY <1>1, <1>2, SlicesAre
      <4> QED
        BY <1>3, <2>1, <2>3, <4>1 DEF LinksInv
    <3>2. r # NULL => Below(r, n) /\ \A x \in Slice(r) : ~GoesLeft(n, items[x])
      <4> SUFFICES ASSUME r # NULL  PROVE Below(r, n) /\ \A x \in Slice(r) : ~GoesLeft(n, items[x])
        OBVIOUS
      <4>1. Slice(r) \subseteq Slice(right[n]) /\ Below(r, n)
        BY <1>1, <1>2, SlicesAre
      <4> QED
        BY <1>3, <2>1, <2>3, <4>1 DEF LinksInv
    <3>3. l # NULL /\ r # NULL => slice[l].end <= slice[r].first
      <4> SUFFICES ASSUME l # NULL, r # NULL  PROVE slice[l].end <= slice[r].first
        OBVIOUS
      <4>1. /\ l \in NodeIds /\ r \in NodeIds /\ left[n] \in NodeIds /\ right[n] \in NodeIds
            /\ left[n] # NULL /\ right[n] # NULL
            /\ slice[l].end <= slice[left[n]].end /\ slice[right[n]].first <= slice[r].first
        BY <1>2, <1>3 DEF Inside
      <4>2. slice[left[n]].end <= slice[right[n]].first
        BY <2>1, <2>3, <4>1 DEF LinksInv
      <4>3. /\ slice[l].end \in Nat /\ slice[r].first \in Nat
            /\ slice[left[n]].end \in Nat /\ slice[right[n]].first \in Nat
        BY <1>1, <4>1 DEF SlicesTyped
      <4> QED
        BY <4>1, <4>2, <4>3
    <3>4. slice[n].end <= build_size /\ split_dimension[n] \in Dims
      BY <2>1, <2>3 DEF LinksInv
    <3> QED
      BY <1>1, <1>2, <2>3, <3>1, <3>2, <3>3, <3>4 DEF LinksInv, Below, Inside, Slice, GoesLeft
  <2> QED
    BY <2>2, <2>3
<1>8. ASSUME NEW m \in NodeIds  PROVE HalfInv(m)'
  <2>1. HalfInv(m)
    BY DEF TreeInv
  <2> QED
    BY <1>2, <2>1 DEF HalfInv
<1>9. ASSUME NEW m \in NodeIds  PROVE CoverInv(m)'
  <2>1. CoverInv(m) /\ PresentIn(m)' \subseteq PresentIn(m)
    BY DEF TreeInv
  <2>2. CASE m # n
    BY <1>1, <1>2, <2>1, <2>2 DEF CoverInv, InBox, Children, Slice
  <2>3. CASE m = n
    <3> SUFFICES ASSUME NEW x \in PresentIn(n)'
                 PROVE  InBox(box[n], items[x])' /\ \E c \in Children(n)' : x \in Slice(c)'
      BY <2>3 DEF CoverInv
    <3>1. PICK c \in {l, r} \ {NULL} : x \in Slice(c)
      BY <1>3
    <3>2. c \in Children(n)' /\ c \in NodeIds /\ x \in Slice(c)'
      BY <1>1, <1>2, <3>1 DEF Children, Slice
    <3>3. x \in PresentIn(c) /\ items[x] \in Points /\ InBox(box[c], items[x])
      <4>1. x \in PresentIn(c)
        BY <2>1, <2>3, <3>1 DEF PresentIn
      <4> QED
        BY <3>2, <4>1, PresentAre
    <3>4. InBox(RecomputedBox(n, l, r), items[x])
      BY <1>3, <3>1, <3>3, RecomputedHolds
    <3>5. InBox(box[n], items[x])'
      BY <1>1, <1>2, <3>4 DEF InBox
    <3> QED
      BY <3>2, <3>5
  <2> QED
    BY <2>2, <2>3
<1>10. ASSUME NEW m \in NodeIds  PROVE LeafInv(m)'
  BY <1>1, <1>2 DEF LeafInv
<1> QED
  BY <1>4, <1>5, <1>6, <1>7, <1>8, <1>9, <1>10 DEF TreeInv

-----------------------------------------------------------------------------
(* The two halves of a bulk erase are joined *)

LEMMA SumNat ==
  ASSUME NEW S, IsFiniteSet(S), NEW f, \A x \in S : f[x] \in Nat
  PROVE  SumFunctionOnSet(f, S) \in Nat
<1> DEFINE F == {s \in SUBSET S : SumFunctionOnSet(f, s) \in Nat}
<1>1. ASSUME NEW s \in SUBSET S, \A q \in SUBSET S : Cardinality(q) < Cardinality(s) => q \in F
      PROVE  s \in F
  <2>1. CASE s = {}
    BY <2>1, SumEmpty
  <2>2. CASE s # {}
    <3>1. PICK x \in s : TRUE
      BY <2>2
    <3>2. IsFiniteSet(s) /\ \A y \in s : f[y] \in Int /\ f[y] \in Nat
      BY FS_Subset
    <3>3. SumFunctionOnSet(f, s) = f[x] + SumFunctionOnSet(f, s \ {x})
      BY <3>2, SumRemove
    <3>4. s \ {x} \in F
      <4>1. /\ s \ {x} \in SUBSET S /\ Cardinality(s) \in Nat /\ Cardinality(s \ {x}) \in Nat
            /\ Cardinality(s) = Cardinality(s \ {x}) + 1
        BY SmallerSubset
      <4>2. PICK big \in Nat, small \in Nat : big = Cardinality(s) /\ small = Cardinality(s \ {x})
        BY <4>1
      <4>3. small < big
        BY <4>1, <4>2
      <4>4. Cardinality(s \ {x}) < Cardinality(s)
        BY <4>2, <4>3, Zenon
      <4> HIDE DEF F
      <4> QED
        BY <1>1, <4>1, <4>4, Zenon
    <3> QED
      BY <3>2, <3>3, <3>4
  <2> QED
    BY <2>1, <2>2
<1> HIDE DEF F
<1>2. \A s \in SUBSET S : s \in F
  BY <1>1, SubsetInduction
<1> QED
  BY <1>2 DEF F

\* Nobody else has points removed to count: n takes over what l and r have counted.
LEMMA JoinCounts ==
  ASSUME NEW S, IsFiniteSet(S), NEW f \in [S -> Nat], NEW g \in [S -> Nat],
         NEW n \in S, NEW l \in S, NEW r \in S, l # r, l # n, r # n,
         f[n] = 0, g[n] = f[l] + f[r], g[l] = 0, g[r] = 0,
         \A x \in S \ {n, l, r} : g[x] = f[x]
  PROVE  /\ SumFunctionOnSet(g, S) = SumFunctionOnSet(f, S)
         /\ f[l] + f[r] <= SumFunctionOnSet(f, S)
<1> DEFINE A == S \ {n}
           B == A \ {l}
           C == B \ {r}
<1>1. /\ IsFiniteSet(A) /\ IsFiniteSet(B) /\ IsFiniteSet(C)
      /\ A \subseteq S /\ B \subseteq S /\ C \subseteq S /\ l \in A /\ r \in B
      /\ \A x \in C : g[x] = f[x] /\ f[x] \in Nat
  BY FS_Subset
<1>2. ASSUME NEW h \in [S -> Nat]
      PROVE  /\ SumFunctionOnSet(h, S) = h[n] + SumFunctionOnSet(h, A)
             /\ SumFunctionOnSet(h, A) = h[l] + SumFunctionOnSet(h, B)
             /\ SumFunctionOnSet(h, B) = h[r] + SumFunctionOnSet(h, C)
             /\ SumFunctionOnSet(h, C) \in Nat
             /\ h[n] \in Nat /\ h[l] \in Nat /\ h[r] \in Nat
  <2>1. \A x \in S : h[x] \in Int /\ h[x] \in Nat
    OBVIOUS
  <2>2. /\ \A x \in A : h[x] \in Int
        /\ \A x \in B : h[x] \in Int
        /\ \A x \in C : h[x] \in Nat
    BY <1>1, <2>1
  <2>3. SumFunctionOnSet(h, S) = h[n] + SumFunctionOnSet(h, A)
    BY <2>1, SumRemove
  <2> HIDE DEF A, B, C
  <2>4. SumFunctionOnSet(h, A) = h[l] + SumFunctionOnSet(h, A \ {l})
    BY <1>1, <2>2, SumRemove
  <2>5. SumFunctionOnSet(h, B) = h[r] + SumFunctionOnSet(h, B \ {r})
    BY <1>1, <2>2, SumRemove
  <2>6. SumFunctionOnSet(h, C) \in Nat
    BY <1>1, <2>2, SumNat
  <2> QED
    BY <2>1, <2>3, <2>4, <2>5, <2>6 DEF B, C
<1>3. SumFunctionOnSet(g, C) = SumFunctionOnSet(f, C)
  <2> HIDE DEF C
  <2>1. \A x \in C : g[x] \in Int /\ g[x] = f[x]
    BY <1>1
  <2> QED
    BY <1>1, <2>1, SumSame
<1> HIDE DEF A, B, C
<1> QED
  BY <1>2, <1>3

LEMMA JoinKeeps ==
  ASSUME Inv, SameKind, NEW n \in NodeIds, Join(n)
  PROVE  Inv'
<1> DEFINE l == left[n]
           r == right[n]
           new_left == ret[l]
           new_right == ret[r]
<1>1. /\ call[n] = "forked" /\ call[l] = "returned" /\ call[r] = "returned"
      /\ pc' = pc /\ held' = held /\ to_erase' = to_erase
      /\ num_removed' = [num_removed EXCEPT ![l] = 0, ![r] = 0, ![n] = num_removed[l] + num_removed[r]]
      /\ call' = [call EXCEPT ![l] = "none", ![r] = "none", ![n] = "returned"]
      /\ items' = items /\ present' = present /\ cur_size' = cur_size /\ build_size' = build_size
      /\ num_points' = num_points
      /\ split_dimension' = split_dimension /\ split_value' = split_value /\ slice' = slice
  BY DEF Join, splitVars
<1>2. \/ /\ new_left # NULL /\ new_right # NULL
         /\ left' = [left EXCEPT ![n] = new_left]
         /\ right' = [right EXCEPT ![n] = new_right]
         /\ box' = [box EXCEPT ![n] = RecomputedBox(n, new_left, new_right)]
         /\ ret' = [ret EXCEPT ![l] = NULL, ![r] = NULL, ![n] = n]
      \/ /\ new_left = NULL \/ new_right = NULL
         /\ ret' = [ret EXCEPT ![l] = NULL, ![r] = NULL, ![n] = Survivor(new_left, new_right)]
         /\ left' = left /\ right' = right /\ box' = box
  BY DEF Join
<1>3. pc = "bulk" /\ cur_size > 0
  BY <1>1 DEF Inv, CallsInv
<1>4. TypeOK /\ TreeInv /\ SizesAre /\ SlicesTyped /\ CallsInv
  BY <1>3, UsedAre DEF Inv
<1>5. /\ l \in NodeIds /\ r \in NodeIds /\ l # r /\ l # n /\ r # n
      /\ Below(l, n) /\ Below(r, n) /\ Inside(l, n) /\ Inside(r, n) /\ Apart(l, r)
      /\ Children(n) = {l, r} /\ l # NULL /\ r # NULL
  <2>1. l # NULL /\ r # NULL
    BY <1>1, <1>4 DEF CallsInv
  <2> QED
    BY <1>4, <2>1, ChildrenAre DEF Children
<1>6. Stands(l) /\ Stands(r)
  BY <1>1, <1>5 DEF Inv, RetInv
<1>7. new_left \in NodeIds \cup {NULL} /\ new_right \in NodeIds \cup {NULL}
  BY <1>4, <1>5 DEF TypeOK
<1>8. ~IsLeaf(n) /\ left[n] = l /\ right[n] = r
  BY <1>5 DEF IsLeaf
<1> HIDE DEF l, r, new_left, new_right
<1>9. /\ call'[n] = "returned" /\ call'[l] = "none" /\ call'[r] = "none"
      /\ \A m \in NodeIds : m \notin {n, l, r} => call'[m] = call[m] /\ num_removed'[m] = num_removed[m]
      /\ num_removed'[n] = num_removed[l] + num_removed[r]
      /\ num_removed'[l] = 0 /\ num_removed'[r] = 0
      /\ \A m \in NodeIds : m \notin {n, l, r} => ret'[m] = ret[m]
  <2>1. /\ DOMAIN call = NodeIds /\ DOMAIN num_removed = NodeIds /\ DOMAIN ret = NodeIds
    BY <1>4 DEF TypeOK
  <2>2. \A m \in NodeIds : m \notin {n, l, r} => ret'[m] = ret[m]
    BY <1>2, <2>1
  <2> QED
    BY <1>1, <1>5, <2>1, <2>2
<1>10. /\ \A m \in NodeIds : Slice(m)' = Slice(m) /\ PresentIn(m)' = PresentIn(m)
       /\ \A a, b \in NodeIds : (Inside(a, b)' <=> Inside(a, b)) /\ (Apart(a, b)' <=> Apart(a, b))
       /\ PresentUsed' = PresentUsed /\ PresentPoints' = PresentPoints
  BY <1>1 DEF Slice, PresentIn, Inside, Apart, PresentUsed, Used, PresentPoints
<1>11. PresentIn(n) \subseteq PresentIn(l) \cup PresentIn(r)
  BY <1>4, <1>5, <1>8 DEF TreeInv, CoverInv, PresentIn
<1>12. ASSUME new_left # NULL
       PROVE  /\ Inside(new_left, l) /\ PresentIn(l) \subseteq Slice(new_left) /\ IsFull(new_left)
              /\ new_left \in NodeIds
  BY <1>6, <1>7, <1>12 DEF Stands, StandsFor, new_left
<1>13. ASSUME new_right # NULL
       PROVE  /\ Inside(new_right, r) /\ PresentIn(r) \subseteq Slice(new_right) /\ IsFull(new_right)
              /\ new_right \in NodeIds
  BY <1>6, <1>7, <1>13 DEF Stands, StandsFor, new_right
<1>14. ASSUME NEW a \in NodeIds, a \notin {n, l, r}, call[a] # "none"
       PROVE  Apart(a, n) \/ Over(a, n)
  <2>1. Apart(a, n) \/ Over(a, n) \/ Over(n, a)
    BY <1>1, <1>4, <1>14 DEF CallsInv
  <2>2. ~Inside(a, l) /\ ~Inside(a, r)
    BY <1>1, <1>4, <1>5, <1>14, NoneInside
  <2> QED
    BY <1>8, <2>1, <2>2 DEF Over
<1>15. ASSUME new_left # NULL, new_right # NULL
       PROVE  Relinked(n, new_left, new_right)
  <2>1. \A x \in PresentIn(n)' : \E c \in {new_left, new_right} \ {NULL} : x \in Slice(c)
    BY <1>10, <1>11, <1>12, <1>13, <1>15
  <2> QED
    BY <1>2, <1>5, <1>8, <1>12, <1>13, <1>15, <2>1 DEF Relinked
<1>16. TreeInv'
  <2>1. CASE new_left # NULL /\ new_right # NULL
    <3>1. Relinked(n, new_left, new_right)
      BY <1>15, <2>1
    <3>2. PlacesStay /\ MayBeHalf' = MayBeHalf
      BY <1>1 DEF PlacesStay, MayBeHalf, SameKind
    <3>3. \A m \in NodeIds : IsLeaf(m) /\ slice[m].first < slice[m].end =>
             /\ num_points'[m] = Cardinality(PresentIn(m)')
             /\ num_points'[m] > 0 => box'[m] = LeafBox(m, present)'
      <4> SUFFICES ASSUME NEW m \in NodeIds, IsLeaf(m), slice[m].first < slice[m].end
                   PROVE  /\ num_points'[m] = Cardinality(PresentIn(m)')
                          /\ num_points'[m] > 0 => box'[m] = LeafBox(m, present)'
        OBVIOUS
      <4>1. LeafInv(m) /\ m # n
        BY <1>4, <1>8 DEF TreeInv
      <4>2. box'[m] = box[m]
        BY <1>1, <1>4, <1>8, <3>1, <4>1, RelinkedAre
      <4>3. LeafBox(m, present)' = LeafBox(m, present)
        BY <1>1 DEF LeafBox, Slice, BoxOf
      <4> QED
        BY <1>1, <1>10, <4>1, <4>2, <4>3 DEF LeafInv
    <3>4. \A m \in NodeIds : PresentIn(m)' \subseteq PresentIn(m)
      BY <1>10
    <3> QED
      BY <1>4, <1>8, <2>1, <3>1, <3>2, <3>3, <3>4, RelinkKeepsTree
  <2>2. CASE ~(new_left # NULL /\ new_right # NULL)
    <3>1. TreeSame
      BY <1>1, <1>2, <2>2 DEF TreeSame
    <3>2. \A m \in NodeIds : HalfInv(m)'
      BY <1>1, <1>4, <3>1 DEF TreeInv, HalfInv, MayBeHalf, TreeSame, SameKind
    <3> QED
      BY <1>4, <3>1, <3>2, TreeStays
  <2> QED
    BY <2>1, <2>2
<1>17. num_removed[n] = 0
  BY <1>1 DEF Inv, CountInv
<1>18. /\ num_removed \in [NodeIds -> Nat] /\ num_removed' \in [NodeIds -> Nat]
       /\ num_removed[l] \in Nat /\ num_removed[r] \in Nat
  <2>1. num_removed \in [NodeIds -> Nat]
    BY <1>4 DEF TypeOK, SizesAre
  <2>2. num_removed[l] \in Nat /\ num_removed[r] \in Nat
    BY <1>5, <2>1
  <2>3. num_removed[l] + num_removed[r] \in Nat
    BY <2>2
  <2>4. num_removed' \in [NodeIds -> Nat]
    BY <1>1, <2>1, <2>3
  <2> QED
    BY <2>1, <2>2, <2>4
<1>19. /\ SumFunctionOnSet(num_removed', NodeIds) = SumFunctionOnSet(num_removed, NodeIds)
       /\ num_removed[l] + num_removed[r] <= SumFunctionOnSet(num_removed, NodeIds)
  <2>1. \A m \in NodeIds \ {n, l, r} : num_removed'[m] = num_removed[m]
    BY <1>9
  <2>2. IsFiniteSet(NodeIds) /\ num_removed'[n] = num_removed[l] + num_removed[r]
        /\ num_removed'[l] = 0 /\ num_removed'[r] = 0
    BY <1>9, IdsAre
  <2>3. /\ num_removed \in [NodeIds -> Nat] /\ num_removed' \in [NodeIds -> Nat]
        /\ l \in NodeIds /\ r \in NodeIds /\ l # r /\ l # n /\ r # n
    BY <1>5, <1>18
  <2> QED
    BY <1>17, <2>1, <2>2, <2>3, JoinCounts
<1>20. CountInv'
  <2>1. \A m \in NodeIds : num_removed'[m] # 0 => call'[m] = "returned"
    BY <1>9 DEF Inv, CountInv
  <2> QED
    BY <1>1, <1>3, <1>10, <1>19, <2>1 DEF Inv, CountInv
<1>21. TypeOK'
  <2>1. num_removed[l] + num_removed[r] \in 0..max_size
    <3>1. cur_size = Cardinality(PresentUsed) + SumFunctionOnSet(num_removed, NodeIds)
      BY DEF Inv, CountInv
    <3>2. /\ Cardinality(PresentUsed) \in Nat /\ SumFunctionOnSet(num_removed, NodeIds) \in Nat
          /\ cur_size \in Nat /\ cur_size <= max_size /\ max_size \in Nat
      <4>1. SumFunctionOnSet(num_removed, NodeIds) \in Nat
        BY <1>18, IdsAre, SumNat
      <4>2. cur_size \in 0..max_size /\ max_size \in Nat
        BY <1>4 DEF TypeOK, SizesAre
      <4> QED
        BY <1>4, <4>1, <4>2, UsedAre
    <3> QED
      BY <1>18, <1>19, <3>1, <3>2
  <2>2. num_removed' \in [NodeIds -> 0..max_size]
    <3>1. 0 \in 0..max_size /\ num_removed \in [NodeIds -> 0..max_size]
      BY <1>4 DEF TypeOK, SizesAre
    <3> QED
      BY <1>1, <2>1, <3>1
  <2>3. call' \in [NodeIds -> {"none", "called", "forked", "returned"}]
    BY <1>1, <1>4 DEF TypeOK
  <2>4. ret' \in [NodeIds -> NodeIds \cup {NULL}]
    <3>1. Survivor(new_left, new_right) \in NodeIds \cup {NULL}
      BY <1>7 DEF Survivor
    <3>2. ret \in [NodeIds -> NodeIds \cup {NULL}]
      BY <1>4 DEF TypeOK
    <3>3. \E m \in NodeIds \cup {NULL} : ret' = [ret EXCEPT ![l] = NULL, ![r] = NULL, ![n] = m]
      BY <1>2, <3>1
    <3> QED
      BY <3>2, <3>3
  <2>5. left' \in [NodeIds -> NodeIds \cup {NULL}] /\ right' \in [NodeIds -> NodeIds \cup {NULL}]
    <3>1. left \in [NodeIds -> NodeIds \cup {NULL}] /\ right \in [NodeIds -> NodeIds \cup {NULL}]
      BY <1>4 DEF TypeOK
    <3>2. \/ left' = left /\ right' = right
          \/ left' = [left EXCEPT ![n] = new_left] /\ right' = [right EXCEPT ![n] = new_right]
      BY <1>2
    <3> QED
      BY <1>7, <3>1, <3>2
  <2>6. box' \in [NodeIds -> Boxes]
    <3>1. RecomputedBox(n, new_left, new_right) \in Boxes
      BY <1>4, <1>7, RecomputedHolds
    <3> QED
      BY <1>2, <1>4, <3>1 DEF TypeOK, Boxes
  <2> QED
    BY <1>1, <1>4, <2>2, <2>3, <2>4, <2>5, <2>6 DEF TypeOK, SameKind, Boxes
<1>22. HeldInv'
  <2>1. \A m \in NodeIds : call'[m] = "called" <=> call[m] = "called"
    BY <1>1, <1>9
  <2> QED
    BY <1>1, <1>3, <1>10, <2>1 DEF Inv, HeldInv
<1>23. CallsInv'
  <2>1. \A m \in NodeIds : call'[m] # "none" => m \notin {l, r} /\ call[m] # "none"
    BY <1>1, <1>9
  <2>2. \A m \in NodeIds : call'[m] = "forked" <=> m # n /\ call[m] = "forked"
    BY <1>1, <1>9
  <2>3. \A m \in NodeIds \ {n} : left'[m] = left[m] /\ right'[m] = right[m]
    BY <1>2, <1>4 DEF TypeOK
  <2>4. ASSUME NEW a \in NodeIds, NEW b \in NodeIds, a # n
        PROVE  Over(a, b)' <=> Over(a, b)
    BY <1>1, <2>2, <2>3, <2>4 DEF Over, Inside
  <2>5. ASSUME NEW a \in NodeIds, NEW b \in NodeIds, a # b, call'[a] # "none", call'[b] # "none"
        PROVE  Apart(a, b) \/ Over(a, b)' \/ Over(b, a)'
    <3>1. a \notin {l, r} /\ b \notin {l, r} /\ call[a] # "none" /\ call[b] # "none"
      BY <2>1, <2>5
    <3>2. CASE a = n
      BY <1>4, <1>14, <2>4, <2>5, <3>1, <3>2, SlicesAre
    <3>3. CASE b = n
      BY <1>14, <2>4, <2>5, <3>1, <3>3
    <3>4. CASE a # n /\ b # n
      BY <1>4, <2>4, <2>5, <3>1, <3>4 DEF CallsInv
    <3> QED
      BY <3>2, <3>3, <3>4
  <2>6. \A m \in NodeIds : call'[m] # "none" => slice'[m].first < slice'[m].end
    BY <1>1, <1>4, <2>1 DEF CallsInv
  <2>7. \A m \in NodeIds : call'[m] = "forked" => left'[m] # NULL /\ right'[m] # NULL
    BY <1>4, <2>2, <2>3 DEF CallsInv
  <2> QED
    BY <1>1, <1>3, <1>10, <2>5, <2>6, <2>7 DEF CallsInv
<1>24. RetInv'
  <2> SUFFICES ASSUME NEW m \in NodeIds, call'[m] = "returned"  PROVE Stands(m)'
    BY DEF RetInv
  <2>1. CASE m # n
    <3>1. m \notin {n, l, r} /\ call[m] = "returned" /\ ret'[m] = ret[m] /\ Stands(m)
      BY <1>9, <2>1 DEF Inv, RetInv
    <3>2. Apart(m, n)
      BY <1>14, <3>1 DEF Over
    <3>3. \A j \in NodeIds : Inside(j, m) => j # n
      BY <1>4, <3>2, SlicesAre
    <3>4. \A j \in NodeIds \ {n} : left'[j] = left[j] /\ right'[j] = right[j]
      BY <1>2, <1>4 DEF TypeOK
    <3>5. Inside(m, m)
      BY <1>4, <3>1 DEF CallsInv, Inside, SlicesTyped
    <3>6. \A j \in NodeIds : \A c \in Children(j) : c \in NodeIds /\ Inside(c, j)
      BY <1>4, ChildrenAre
    <3> QED
      BY <1>1, <1>4, <1>10, <3>1, <3>3, <3>4, <3>5, <3>6, StandsApart
  <2>2. CASE m = n /\ ~(new_left # NULL /\ new_right # NULL)
    <3>1. ret'[n] = Survivor(new_left, new_right) /\ TreeSame
      BY <1>1, <1>2, <1>4, <1>5, <2>2 DEF TypeOK, TreeSame
    <3>2. CASE new_left = NULL /\ new_right = NULL
      <4>1. PresentIn(l) = {} /\ PresentIn(r) = {}
        BY <1>6, <3>2 DEF Stands, new_left, new_right
      <4>2. PresentIn(n)' = {}
        BY <1>10, <1>11, <4>1
      <4>3. ret'[n] = NULL
        BY <3>1, <3>2 DEF Survivor
      <4> QED
        BY <2>2, <4>2, <4>3 DEF Stands
    <3>3. CASE new_left # NULL \/ new_right # NULL
      <4>1. PICK k \in NodeIds, c \in Children(n), d \in Children(n) :
              /\ k = Survivor(new_left, new_right)
              /\ PresentIn(c) = {} /\ PresentIn(d) \subseteq Slice(k) /\ Inside(k, d) /\ IsFull(k)
              /\ PresentIn(n) \subseteq PresentIn(c) \cup PresentIn(d)
        <5>1. CASE new_left # NULL
          <6>1. new_right = NULL
            BY <2>2, <5>1
          <6>2. PresentIn(r) = {}
            BY <1>6, <6>1 DEF Stands, new_right
          <6>3. Survivor(new_left, new_right) = new_left
            BY <5>1 DEF Survivor
          <6>4. /\ new_left \in NodeIds /\ PresentIn(l) \subseteq Slice(new_left)
                /\ Inside(new_left, l) /\ IsFull(new_left)
                /\ l \in Children(n) /\ r \in Children(n)
            BY <1>5, <1>12, <5>1
          <6> QED
            BY <1>11, <6>2, <6>3, <6>4
        <5>2. CASE new_left = NULL
          <6>1. new_right # NULL
            BY <3>3, <5>2
          <6>2. PresentIn(l) = {}
            BY <1>6, <5>2 DEF Stands, new_left
          <6>3. Survivor(new_left, new_right) = new_right
            BY <5>2 DEF Survivor
          <6>4. /\ new_right \in NodeIds /\ PresentIn(r) \subseteq Slice(new_right)
                /\ Inside(new_right, r) /\ IsFull(new_right)
                /\ l \in Children(n) /\ r \in Children(n)
            BY <1>5, <1>13, <6>1
          <6> QED
            BY <1>11, <6>2, <6>3, <6>4
        <5> QED
          BY <5>1, <5>2
      <4>2. d \in NodeIds /\ Below(d, n) /\ Inside(d, n) /\ c \in NodeIds
        BY <1>5
      <4>3. Inside(k, n)
        BY <1>4, <4>1, <4>2, SlicesAre
      <4>4. Children(n)' = Children(n) /\ ~IsLeaf(n)' /\ PresentIn(c)' = {}
        BY <1>8, <1>10, <3>1, <4>1, <4>2 DEF TreeSame, Children, IsLeaf
      <4>5. PresentIn(n)' \subseteq Slice(k)' /\ Inside(k, n)'
        BY <1>10, <4>1, <4>2, <4>3
      <4>6. IsFull(k)'
        BY <3>1, <4>1, TreeStays
      <4>7. StandsFor(k, n)'
        BY <4>1, <4>4, <4>5, <4>6 DEF StandsFor
      <4>8. ret'[n] = k /\ k # NULL
        BY <3>1, <4>1, IdsAre
      <4> QED
        BY <2>2, <4>7, <4>8 DEF Stands
    <3> QED
      BY <3>2, <3>3
  <2>3. CASE m = n /\ new_left # NULL /\ new_right # NULL
    <3>1. ret'[n] = n /\ Relinked(n, new_left, new_right)
      BY <1>2, <1>4, <1>5, <1>15, <2>3 DEF TypeOK
    <3>2. /\ left'[n] = new_left /\ right'[n] = new_right
          /\ \A j \in NodeIds \ {n} : left'[j] = left[j] /\ right'[j] = right[j]
          /\ Below(new_left, n) /\ Below(new_right, n)
      BY <1>1, <1>4, <1>8, <2>3, <3>1, RelinkedAre
    <3>3. PICK L \in SUBSET NodeIds, R \in SUBSET NodeIds :
            FullTree(L, new_left) /\ FullTree(R, new_right)
      BY <1>12, <1>13, <2>3 DEF IsFull
    <3> DEFINE T == {n} \cup L \cup R
    <3>4. FullTree(T, n)'
      <4>1. new_left \in L /\ new_right \in R
        BY <3>3 DEF FullTree
      <4>2. /\ \A j \in L : /\ j \in NodeIds /\ Inside(j, new_left) /\ PresentIn(j) # {}
                          /\ Children(j) \subseteq L
            /\ \A j \in R : /\ j \in NodeIds /\ Inside(j, new_right) /\ PresentIn(j) # {}
                          /\ Children(j) \subseteq R
            /\ \A a, b \in L : a # b => Children(a) \cap Children(b) = {}
            /\ \A a, b \in R : a # b => Children(a) \cap Children(b) = {}
        BY <3>3 DEF FullTree
      <4>3. \A j \in L \cup R : j \in NodeIds /\ Inside(j, n) /\ j # n
        <5>1. \A j \in L : Below(j, n)
          BY <1>4, <1>7, <2>3, <3>2, <4>2, SlicesAre
        <5>2. \A j \in R : Below(j, n)
          BY <1>4, <1>7, <2>3, <3>2, <4>2, SlicesAre
        <5> QED
          BY <1>4, <4>2, <5>1, <5>2, SlicesAre DEF Below
      <4>4. L \cap R = {}
        <5> SUFFICES ASSUME NEW j \in L, j \in R  PROVE FALSE
          OBVIOUS
        <5>1. new_left \in NodeIds /\ new_right \in NodeIds
          BY <1>12, <1>13, <2>3
        <5>2. Inside(j, l) /\ Inside(j, r)
          BY <1>4, <1>5, <1>12, <1>13, <2>3, <4>2, <5>1, SlicesAre
        <5>3. Apart(j, r)
          BY <1>4, <1>5, <4>2, <5>2, SlicesAre
        <5> QED
          BY <1>4, <1>5, <4>2, <5>2, <5>3, SlicesAre
      <4>5. /\ Children(n)' = {new_left, new_right}
            /\ \A j \in L \cup R : Children(j)' = Children(j)
        BY <1>7, <2>3, <3>2, <4>3 DEF Children
      <4>6. \A j \in L : new_left \notin Children(j)
        <5>1. \A j \in L : \A c \in Children(j) : Below(c, j)
          BY <1>4, <4>2, ChildrenAre
        <5> QED
          BY <1>4, <1>12, <2>3, <4>2, <5>1, SlicesAre
      <4>7. \A j \in R : new_right \notin Children(j)
        <5>1. \A j \in R : \A c \in Children(j) : Below(c, j)
          BY <1>4, <4>2, ChildrenAre
        <5> QED
          BY <1>4, <1>13, <2>3, <4>2, <5>1, SlicesAre
      <4>8. \A j \in L \cup R : Children(n)' \cap Children(j)' = {}
        <5>1. \A j \in L : new_right \notin Children(j)
          BY <4>1, <4>2, <4>4
        <5>2. \A j \in R : new_left \notin Children(j)
          BY <4>1, <4>2, <4>4
        <5> QED
          BY <4>5, <4>6, <4>7, <5>1, <5>2
      <4>9. \A a, b \in L \cup R : a # b => Children(a)' \cap Children(b)' = {}
        <5>1. \A a \in L, b \in R : Children(a) \cap Children(b) = {}
          BY <4>2, <4>4
        <5> QED
          BY <4>2, <4>5, <5>1
      <4>10. \A a, b \in T : a # b => Children(a)' \cap Children(b)' = {}
        BY <4>8, <4>9
      <4>11. \A j \in T : (Inside(j, n))' /\ PresentIn(j)' # {} /\ Children(j)' \subseteq T
        <5>1. \A j \in L \cup R : (Inside(j, n))' /\ PresentIn(j)' # {} /\ Children(j)' \subseteq T
          BY <1>10, <4>2, <4>3, <4>5
        <5>2. Inside(n, n)'
          BY <1>1, <1>4 DEF CallsInv, Inside, SlicesTyped
        <5>3. PresentIn(n)' # {}
          <6>1. PresentIn(new_left) # {} /\ new_left \in NodeIds /\ Inside(new_left, n)
            BY <4>1, <4>2, <4>3
          <6>2. PresentIn(new_left) \subseteq PresentIn(n)
            BY <1>4, <6>1, SlicesAre
          <6> QED
            BY <1>10, <6>1, <6>2
        <5>4. Children(n)' \subseteq T
          BY <4>1, <4>5
        <5> QED
          BY <5>1, <5>2, <5>3, <5>4
      <4> HIDE DEF T
      <4>12. T \subseteq NodeIds /\ n \in T
        BY <4>2 DEF T
      <4> QED
        BY <4>10, <4>11, <4>12 DEF FullTree
    <3>5. IsFull(n)'
      <4> HIDE DEF T
      <4>1. T \in SUBSET NodeIds
        BY <3>4 DEF FullTree
      <4> QED
        BY <3>4, <4>1 DEF IsFull
    <3>6. StandsFor(n, n)'
      BY <1>1, <1>4, <3>5 DEF StandsFor, CallsInv, Inside, SlicesTyped, PresentIn
    <3> QED
      BY <2>3, <3>1, <3>6, IdsAre DEF Stands
  <2> QED
    BY <2>1, <2>2, <2>3
<1>25. FullInv'
  BY <1>1, <1>3 DEF FullInv
<1> QED
  BY <1>16, <1>20, <1>21, <1>22, <1>23, <1>24, <1>25 DEF Inv

-----------------------------------------------------------------------------
(* An erase of one point *)

LEMMA ChildNotRoot ==
  ASSUME TypeOK, TreeInv, NEW n \in NodeIds
  PROVE  0 \notin Children(n)
<1>1. slice[0].first = 0 /\ slice[0].end = build_size /\ slice[n].end <= build_size
  BY DEF TreeInv, ItemsInv, LinksInv
<1>2. slice[n].first \in Nat /\ slice[n].end \in Nat /\ build_size \in Nat
  BY UsedAre DEF SlicesTyped
<1>3. ~Below(0, n)
  BY <1>1, <1>2 DEF Below, Inside
<1> QED
  BY <1>3, ChildrenAre

\* A node keeps some point, if it is another leaf, or if it has two children
\* that have points.
LEMMA StillThere ==
  ASSUME TypeOK, TreeInv, NEW f, NEW removed, Loses(f, removed), NEW n \in NodeIds, n # f,
         PresentIn(n) # {}, \A c \in Children(n) : PresentIn(c) # {},
         (left[n] = NULL) <=> (right[n] = NULL)
  PROVE  PresentIn(n)' # {}
<1>1. /\ f \in NodeIds /\ IsLeaf(f) /\ SlicesTyped
      /\ \A m \in NodeIds : PresentIn(m)' = PresentIn(m) \ removed
      /\ \A m \in NodeIds : Apart(m, f) => PresentIn(m)' = PresentIn(m)
  BY LosesOnly, UsedAre DEF Loses
<1>2. CASE IsLeaf(n)
  BY <1>1, <1>2 DEF TreeInv, LeavesApart
<1>3. CASE ~IsLeaf(n)
  <2>1. /\ left[n] \in NodeIds /\ right[n] \in NodeIds /\ Apart(left[n], right[n])
        /\ Inside(left[n], n) /\ Inside(right[n], n)
        /\ PresentIn(left[n]) # {} /\ PresentIn(right[n]) # {}
    BY <1>3, ChildrenAre DEF IsLeaf
  <2>2. PICK i \in NodeIds : IsLeaf(i) /\ Inside(i, left[n]) /\ PresentIn(i) # {}
    BY <2>1, SomeLeaf
  <2>3. PICK j \in NodeIds : IsLeaf(j) /\ Inside(j, right[n]) /\ PresentIn(j) # {}
    BY <2>1, SomeLeaf
  <2>4. i # j
    <3>1. Apart(i, right[n])
      BY <1>1, <2>1, <2>2, SlicesAre
    <3> QED
      BY <1>1, <2>1, <2>3, <3>1, SlicesAre
  <2>5. Inside(i, n) /\ Inside(j, n)
    BY <1>1, <2>1, <2>2, <2>3, SlicesAre
  <2>6. PICK k \in {i, j} : k # f
    BY <2>4
  <2>7. k \in NodeIds /\ IsLeaf(k) /\ Inside(k, n) /\ PresentIn(k) # {}
    BY <2>2, <2>3, <2>5
  <2>8. PresentIn(k)' = PresentIn(k)
    BY <1>1, <2>6, <2>7 DEF TreeInv, LeavesApart
  <2>9. PresentIn(k) \subseteq PresentIn(n)
    BY <1>1, <2>7, SlicesAre
  <2> QED
    BY <1>1, <2>7, <2>8, <2>9
<1> QED
  BY <1>2, <1>3

Erased(p, f) == {x \in PresentIn(f) : items[x] = p}

\* The point that is found is the one that is removed.
LEMMA ErasedIs ==
  ASSUME TypeOK, TreeInv, NEW p, NEW f \in NodeIds, IsLeaf(f), Erased(p, f) # {},
         present' = [x \in Positions |-> present[x] /\ x \notin Erased(p, f)], PlacesStay
  PROVE  /\ Loses(f, Erased(p, f)) /\ Cardinality(Erased(p, f)) = 1
         /\ PresentPoints' = PresentPoints \ {p} /\ p \in PresentPoints
         /\ PresentIn(f)' = {} => PresentIn(f) = Erased(p, f) /\ {items[x] : x \in PresentIn(f)} = {p}
<1>1. PICK x \in PresentIn(f) : items[x] = p
  BY DEF Erased
<1>2. SlicesTyped /\ PresentIn(f) \subseteq PresentUsed /\ PresentUsed \subseteq Used
      /\ PresentPoints = {items[y] : y \in PresentUsed}
  BY UsedAre, PresentAre
<1>3. \A y, z \in Used : items[y] = items[z] => y = z
  BY DEF TreeInv, ItemsInv
<1>4. Erased(p, f) = {x}
  BY <1>1, <1>2, <1>3 DEF Erased
<1>5. slice[f].first < slice[f].end
  <2>1. x \in slice[f].first..(slice[f].end - 1) /\ slice[f].first \in Nat /\ slice[f].end \in Nat
    BY <1>1, <1>2 DEF PresentIn, Slice, SlicesTyped
  <2> QED
    BY <2>1
<1>6. Loses(f, Erased(p, f))
  BY <1>5 DEF Loses, PlacesStay, Erased
<1>7. Cardinality(Erased(p, f)) = 1
  BY <1>4, FS_Singleton
<1>8. /\ PresentUsed' = PresentUsed \ {x} /\ PresentIn(f)' = PresentIn(f) \ {x} /\ Used' = Used
  BY <1>4, <1>6, LosesOnly
<1>9. PresentPoints' = {items[y] : y \in PresentUsed'}
  BY DEF PresentPoints, PresentUsed, Used, PlacesStay
<1>10. PresentPoints' = PresentPoints \ {p} /\ p \in PresentPoints
  BY <1>1, <1>2, <1>3, <1>8, <1>9
<1>11. PresentIn(f)' = {} => PresentIn(f) = Erased(p, f) /\ {items[y] : y \in PresentIn(f)} = {p}
  BY <1>1, <1>4, <1>8
<1> QED
  BY <1>6, <1>7, <1>10, <1>11

\* The nodes that are reached, after the links of some have changed
LEMMA FullAgain ==
  ASSUME TypeOK, TreeInv, NEW f, NEW removed, Loses(f, removed), PresentIn(0)' # {},
         NEW T \in SUBSET NodeIds, FullTree(T, 0), NEW R \in SUBSET T, 0 \in R,
         f \in R => PresentIn(f)' # {},
         \A j \in R : Children(j)' \subseteq R,
         \A a, b \in R : a # b => Children(a)' \cap Children(b)' = {}
  PROVE  IsFull(0)'
<1>1. slice' = slice /\ \A n \in NodeIds : HalfInv(n)
  BY DEF Loses, TreeInv
<1>2. \A j \in T : Inside(j, 0) /\ PresentIn(j) # {} /\ Children(j) \subseteq T
  BY DEF FullTree
<1>3. ASSUME NEW j \in R  PROVE PresentIn(j)' # {}
  <2>1. CASE j = 0 \/ j = f
    BY <2>1
  <2>2. CASE j # 0 /\ j # f
    <3>1. (left[j] = NULL) <=> (right[j] = NULL)
      BY <1>1, <2>2 DEF HalfInv
    <3>2. PresentIn(j) # {} /\ \A c \in Children(j) : PresentIn(c) # {}
      BY <1>2
    <3> QED
      BY <2>2, <3>1, <3>2, StillThere
  <2> QED
    BY <2>1, <2>2
<1>4. \A j \in R : (Inside(j, 0))'
  BY <1>1, <1>2 DEF Inside
<1>5. FullTree(R, 0)'
  BY <1>3, <1>4 DEF FullTree
<1> QED
  BY <1>5 DEF IsFull

\* The tree between the erases of single points
FullOrOneSided == IsFull(0) \/ (LOG_TREE /\ ~RootHasBothSides)

\* p is at the leaf f of the walk w, and is removed.
Removes(w, p) ==
  /\ w \in Walks /\ w.node \in NodeIds /\ IsLeaf(w.node) /\ Linked(w, p)
  /\ Erased(p, w.node) # {}
  /\ present' = [x \in Positions |-> present[x] /\ x \notin Erased(p, w.node)]
  /\ num_points' = [num_points EXCEPT ![w.node] = num_points[w.node] - 1]
  /\ PlacesStay /\ pc = "each" /\ pc' = pc

\* A LogTree's tree that has lost a side of its root does not get it back.
LEMMA OneSidedStays ==
  ASSUME TypeOK, TreeInv, SameKind, slice' = slice,
         \A n \in NodeIds : PresentIn(n)' \subseteq PresentIn(n),
         \A n \in NodeIds : PresentIn(n)' = {y \in Slice(n) : present'[y]},
         left'[0] \in NodeIds, right'[0] \in NodeIds, left[0] \in NodeIds, right[0] \in NodeIds,
         Inside(left'[0], left[0]), Inside(right'[0], right[0]),
         LOG_TREE, ~RootHasBothSides
  PROVE  (LOG_TREE /\ ~RootHasBothSides)'
<1>1. LOG_TREE' /\ SlicesTyped /\ NULL \notin NodeIds
  BY UsedAre, IdsAre DEF SameKind
<1>2. PICK l \in NodeIds, r \in NodeIds : l = left'[0] /\ r = right'[0]
  OBVIOUS
<1>3. PresentIn(l) \subseteq PresentIn(left[0]) /\ PresentIn(r) \subseteq PresentIn(right[0])
  BY <1>1, <1>2, SlicesAre
<1>4. PresentIn(left[0]) = {} \/ PresentIn(right[0]) = {}
  BY DEF RootHasBothSides
<1>5. PresentIn(l)' = {} \/ PresentIn(r)' = {}
  BY <1>2, <1>3, <1>4
<1>6. ~IsLeaf(0)'
  BY <1>1, <1>2 DEF IsLeaf
<1>7. PresentIn(left[0])' = PresentIn(l)' /\ PresentIn(right[0])' = PresentIn(r)'
  BY <1>2 DEF PresentIn, Slice
<1> QED
  BY <1>1, <1>5, <1>6, <1>7 DEF RootHasBothSides

LEMMA RemovesIs ==
  ASSUME TypeOK, TreeInv, NEW p, NEW w, Removes(w, p)
  PROVE  /\ Loses(w.node, Erased(p, w.node))
         /\ num_points' = [num_points EXCEPT ![w.node] = num_points[w.node] - Cardinality(Erased(p, w.node))]
         /\ num_points[w.node] - 1 = Cardinality(PresentIn(w.node)')
         /\ num_points[w.node] - 1 = 0 <=> PresentIn(w.node)' = {}
         /\ num_points[w.node] - 1 \in 0..max_size
         /\ PresentPoints' = PresentPoints \ {p} /\ p \in PresentPoints
         /\ \A n \in NodeIds : PresentIn(n)' \subseteq PresentIn(n)
         /\ slice' = slice
<1>1. /\ Loses(w.node, Erased(p, w.node)) /\ Cardinality(Erased(p, w.node)) = 1
      /\ PresentPoints' = PresentPoints \ {p} /\ p \in PresentPoints
  BY ErasedIs DEF Removes
<1>2. /\ num_points[w.node] - 1 = Cardinality(PresentIn(w.node)')
      /\ Cardinality(PresentIn(w.node)') \in Nat
      /\ Cardinality(PresentIn(w.node)') <= max_size
      /\ (Cardinality(PresentIn(w.node)') = 0 <=> PresentIn(w.node)' = {})
  <2>1. /\ num_points[w.node] - Cardinality(Erased(p, w.node)) = Cardinality(PresentIn(w.node)')
        /\ Cardinality(PresentIn(w.node)') \in Nat
        /\ Cardinality(PresentIn(w.node)') <= max_size
        /\ (Cardinality(PresentIn(w.node)') = 0 <=> PresentIn(w.node)' = {})
    BY <1>1, LosesCounted
  <2> QED
    BY <1>1, <2>1
<1>3. max_size \in Nat
  BY UsedAre DEF SizesAre
<1>4. \A n \in NodeIds : PresentIn(n)' \subseteq PresentIn(n)
  BY <1>1, LosesOnly
<1>5. num_points[w.node] - 1 \in 0..max_size
  BY <1>2, <1>3
<1> QED
  BY <1>1, <1>2, <1>4, <1>5 DEF Removes, PlacesStay

\* The leaf keeps some points.
LEMMA LeafRemains ==
  ASSUME TypeOK, TreeInv, SameKind, NEW p, NEW w, Removes(w, p), FullOrOneSided,
         PresentIn(w.node)' # {}, left' = left, right' = right,
         box' = [box EXCEPT ![w.node] = LeafBox(w.node, present)']
  PROVE  TreeInv' /\ FullOrOneSided'
<1> DEFINE f == w.node
           removed == Erased(p, f)
<1>1. /\ Loses(f, removed) /\ slice' = slice /\ f \in NodeIds /\ pc' = pc
      /\ num_points' = [num_points EXCEPT ![f] = num_points[f] - Cardinality(removed)]
      /\ \A n \in NodeIds : PresentIn(n)' \subseteq PresentIn(n)
  BY RemovesIs DEF Removes
<1>2. LeavesStay(f, removed)
  BY <1>1 DEF LeavesStay, TypeOK
<1> HIDE DEF removed
<1>3. TreeInv'
  BY <1>1, <1>2, LosesKeepsTree
<1>4. 0 \in NodeIds /\ SlicesTyped
  BY IdsAre, UsedAre
<1>5. PresentIn(0)' # {}
  <2>1. slice[0].first = 0 /\ slice[0].end = build_size /\ slice[f].end <= build_size
    BY <1>1 DEF TreeInv, ItemsInv, LinksInv
  <2>2. f = 0 \/ Slice(f) \subseteq Slice(0)
    BY <1>1, <1>4, <2>1 DEF Slice, SlicesTyped
  <2>3. PresentIn(f)' \subseteq PresentIn(0)'
    BY <1>1, <2>2 DEF PresentIn, Slice
  <2> QED
    BY <2>3
<1>6. CASE IsFull(0)
  <2>1. PICK T \in SUBSET NodeIds : FullTree(T, 0)
    BY <1>6 DEF IsFull
  <2>2. /\ 0 \in T /\ \A j \in T : Children(j)' \subseteq T
        /\ \A a, b \in T : a # b => Children(a)' \cap Children(b)' = {}
    BY <2>1 DEF FullTree, Children
  <2>3. IsFull(0)'
    BY <1>1, <1>5, <2>1, <2>2, FullAgain
  <2> QED
    BY <1>3, <2>3 DEF FullOrOneSided
<1>7. CASE ~IsFull(0)
  <2>1. LOG_TREE /\ ~RootHasBothSides
    BY <1>7 DEF FullOrOneSided
  <2>2. ~IsLeaf(0) /\ HalfInv(0) /\ ~MayBeHalf
    BY <1>4, <2>1 DEF RootHasBothSides, TreeInv, MayBeHalf
  <2>3. left[0] \in Children(0) /\ right[0] \in Children(0)
    BY <1>4, <2>2, ChildrenAre DEF HalfInv, IsLeaf
  <2>4. left[0] \in NodeIds /\ right[0] \in NodeIds /\ Inside(left[0], left[0]) /\ Inside(right[0], right[0])
    BY <1>4, <2>3, ChildrenAre DEF Inside, SlicesTyped
  <2>5. \A n \in NodeIds : PresentIn(n)' = {y \in Slice(n) : present'[y]}
    BY <1>1 DEF PresentIn, Slice
  <2>6. (LOG_TREE /\ ~RootHasBothSides)'
    BY <1>1, <2>1, <2>4, <2>5, OneSidedStays
  <2> QED
    BY <1>3, <2>6 DEF FullOrOneSided
<1> QED
  BY <1>3, <1>6, <1>7

\* A leaf that is emptied, and a node above it whose links change
LEMMA RelinkKeeps ==
  ASSUME TypeOK, TreeInv, SameKind, NEW p, NEW w, Removes(w, p), PresentIn(w.node)' = {},
         NEW n \in NodeIds, ~IsLeaf(n), NEW l, NEW r, Relinked(n, l, r),
         (l = NULL) # (r = NULL) => n = 0 /\ MayBeHalf
  PROVE  TreeInv'
<1> DEFINE f == w.node
           removed == Erased(p, f)
<1>1. /\ Loses(f, removed) /\ slice' = slice /\ f \in NodeIds /\ IsLeaf(f) /\ pc' = pc /\ PlacesStay
      /\ num_points' = [num_points EXCEPT ![f] = num_points[f] - Cardinality(removed)]
      /\ \A m \in NodeIds : PresentIn(m)' \subseteq PresentIn(m)
  BY RemovesIs DEF Removes
<1>2. MayBeHalf' <=> MayBeHalf
  BY <1>1 DEF MayBeHalf, SameKind
<1>3. LeavesStay(f, removed)
  <2>1. \A m \in NodeIds \ {n} : box'[m] = box[m]
    BY <1>1, RelinkedAre
  <2> QED
    BY <1>1, <2>1 DEF LeavesStay
<1> HIDE DEF removed
<1>4. \A m \in NodeIds : IsLeaf(m) /\ slice[m].first < slice[m].end =>
        /\ num_points'[m] = Cardinality(PresentIn(m)')
        /\ num_points'[m] > 0 => box'[m] = LeafBox(m, present)'
  BY <1>1, <1>3, LosesKeepsLeaves
<1> QED
  BY <1>1, <1>2, <1>4, RelinkKeepsTree

\* The parent of the emptied leaf is cut out, and its other child moves up.
LEMMA ParentGoes ==
  ASSUME TypeOK, TreeInv, SameKind, NEW p, NEW w, Removes(w, p), FullOrOneSided,
         PresentIn(w.node)' = {}, w.gparent # NULL, RemoveLeaf(w)
  PROVE  /\ TreeInv' /\ (PresentIn(0)' # {} => FullOrOneSided')
         /\ left' \in [NodeIds -> NodeIds \cup {NULL}]
         /\ right' \in [NodeIds -> NodeIds \cup {NULL}]
         /\ box' \in [NodeIds -> Boxes]
<1> DEFINE f == w.node
           a == w.parent
           g == w.gparent
           s == Sibling(a, f)
           l == IF left[g] = a THEN s ELSE left[g]
           r == IF left[g] = a THEN right[g] ELSE s
<1>1. /\ Loses(f, Erased(p, f)) /\ slice' = slice /\ f \in NodeIds /\ IsLeaf(f)
      /\ \A m \in NodeIds : PresentIn(m)' \subseteq PresentIn(m)
      /\ 0 \in NodeIds /\ SlicesTyped /\ NULL \notin NodeIds
  BY RemovesIs, IdsAre, UsedAre DEF Removes
<1>2. /\ g \in NodeIds /\ a \in NodeIds /\ a \in Children(g) /\ f \in Children(a)
  <2>1. Linked(w, p) /\ f # NULL
    BY <1>1 DEF Removes
  <2> QED
    BY <2>1 DEF Linked
<1>3. a # 0 /\ f # 0 /\ a # g /\ f # a /\ ~IsLeaf(g) /\ ~IsLeaf(a)
  BY <1>2, ChildNotRoot, ChildrenAre DEF IsLeaf, Children
<1>4. /\ left[a] \in NodeIds /\ right[a] \in NodeIds /\ left[a] # right[a]
      /\ left[a] \in Children(a) /\ right[a] \in Children(a)
  <2>1. HalfInv(a)
    BY <1>2 DEF TreeInv
  <2>2. left[a] # NULL /\ right[a] # NULL
    BY <1>3, <2>1 DEF HalfInv, IsLeaf
  <2> QED
    BY <1>2, <2>2, ChildrenAre
<1>5. /\ s \in Children(a) /\ s \in NodeIds /\ s # f /\ s # a /\ Inside(s, a) /\ Children(a) = {s, f}
  <2>1. /\ s \in Children(a) /\ s # f /\ Children(a) = {s, f}
    BY <1>2, <1>4 DEF Sibling, Children
  <2> QED
    BY <1>2, <2>1, ChildrenAre
<1> HIDE DEF s
<1>6. /\ left[g] \in NodeIds \cup {NULL} /\ right[g] \in NodeIds \cup {NULL}
      /\ left[g] = a \/ right[g] = a
      /\ left[g] # NULL => Inside(left[g], left[g])
      /\ right[g] # NULL => Inside(right[g], right[g])
  <2>1. left[g] \in NodeIds \cup {NULL} /\ right[g] \in NodeIds \cup {NULL}
    BY <1>2, ChildrenAre
  <2>2. /\ left[g] # NULL => Inside(left[g], g)
        /\ right[g] # NULL => Inside(right[g], g)
    BY <1>2, ChildrenAre
  <2>3. /\ left[g] # NULL => Inside(left[g], left[g])
        /\ right[g] # NULL => Inside(right[g], right[g])
    BY <1>1, <2>1, <2>2 DEF Inside, SlicesTyped
  <2> QED
    BY <1>2, <2>1, <2>3 DEF Children
<1>7. /\ l \in NodeIds \cup {NULL} /\ r \in NodeIds \cup {NULL} /\ ~(l = NULL /\ r = NULL)
      /\ l # NULL => left[g] # NULL /\ Inside(l, left[g])
      /\ r # NULL => right[g] # NULL /\ Inside(r, right[g])
  BY <1>1, <1>2, <1>5, <1>6
<1>8. left[g] = a => right[g] # a
  <2>1. left[g] # NULL /\ right[g] # NULL => left[g] # right[g]
    BY <1>2, ChildrenAre
  <2> QED
    BY <1>1, <1>2, <2>1
<1>9. /\ left' = [left EXCEPT ![g] = l]
      /\ right' = [right EXCEPT ![g] = r]
      /\ box' = [box EXCEPT ![g] = RecomputedBox(g, l, r)]
  BY DEF RemoveLeaf, s
<1>10. {l, r} \ {NULL} = (Children(g) \ {a}) \cup {s}
  BY <1>1, <1>2, <1>5, <1>6, <1>8 DEF Children
<1>11. \A x \in PresentIn(g)' : \E c \in {l, r} \ {NULL} : x \in Slice(c)
  <2> SUFFICES ASSUME NEW x \in PresentIn(g)'  PROVE \E c \in (Children(g) \ {a}) \cup {s} : x \in Slice(c)
    BY <1>10
  <2>1. x \in PresentIn(g) /\ present'[x]
    BY <1>1, <1>2 DEF PresentIn
  <2>2. PICK c \in Children(g) : x \in Slice(c)
    BY <1>2, <1>3, <2>1 DEF TreeInv, CoverInv
  <2>3. CASE c # a
    BY <2>2, <2>3
  <2>4. CASE c = a
    <3>1. x \in PresentIn(a)
      BY <2>1, <2>2, <2>4 DEF PresentIn
    <3>2. PICK d \in Children(a) : x \in Slice(d)
      BY <1>2, <1>3, <3>1 DEF TreeInv, CoverInv
    <3>3. d # f
      BY <1>1, <2>1, <3>2 DEF PresentIn, Slice
    <3> QED
      BY <1>5, <3>2, <3>3
  <2> QED
    BY <2>3, <2>4
<1> HIDE DEF l, r
<1>12. Relinked(g, l, r)
  BY <1>7, <1>9, <1>11 DEF Relinked
<1>13. /\ left' \in [NodeIds -> NodeIds \cup {NULL}]
       /\ right' \in [NodeIds -> NodeIds \cup {NULL}]
       /\ box' \in [NodeIds -> Boxes]
  <2>1. RecomputedBox(g, l, r) \in Boxes
    BY <1>2, <1>7, RecomputedHolds
  <2>2. /\ left \in [NodeIds -> NodeIds \cup {NULL}]
        /\ right \in [NodeIds -> NodeIds \cup {NULL}]
        /\ box \in [NodeIds -> Boxes]
    BY DEF TypeOK, Boxes
  <2> QED
    BY <1>7, <1>9, <2>1, <2>2
<1>14. TreeInv'
  <2>1. (l = NULL) # (r = NULL) => (left[g] = NULL) # (right[g] = NULL)
    BY <1>1, <1>2, <1>5, <1>6 DEF l, r
  <2>2. HalfInv(g)
    BY <1>2 DEF TreeInv
  <2>3. (l = NULL) # (r = NULL) => g = 0 /\ MayBeHalf
    BY <2>1, <2>2 DEF HalfInv
  <2> QED
    BY <1>2, <1>3, <1>12, <2>3, RelinkKeeps
<1>15. /\ \A m \in NodeIds \ {g} : left'[m] = left[m] /\ right'[m] = right[m]
       /\ left'[g] = l /\ right'[g] = r
  BY <1>1, <1>2, <1>3, <1>12, RelinkedAre
<1>16. /\ Children(g)' = (Children(g) \ {a}) \cup {s}
       /\ \A m \in NodeIds \ {g} : Children(m)' = Children(m)
  BY <1>2, <1>10, <1>15 DEF Children
<1>17. CASE IsFull(0)
  <2>1. PICK T \in SUBSET NodeIds : FullTree(T, 0)
    BY <1>17 DEF IsFull
  <2>2. /\ 0 \in T /\ \A j \in T : Children(j) \subseteq T
        /\ \A i, j \in T : i # j => Children(i) \cap Children(j) = {}
    BY <2>1 DEF FullTree
  <2>3. f \in T /\ a \in T /\ g \in T
    BY <1>1, <1>2, <2>2 DEF Removes, Linked
  <2> DEFINE R == T \ {f, a}
  <2>4. R \in SUBSET T /\ 0 \in R /\ f \notin R
    BY <1>3, <2>2
  <2>5. \A j \in R : Children(j)' \subseteq R
    <3> SUFFICES ASSUME NEW j \in R  PROVE Children(j)' \subseteq R
      OBVIOUS
    <3>1. CASE j = g
      <4>1. f \notin Children(g) /\ a \in Children(g) /\ Children(g) \subseteq T
        BY <1>2, <1>3, <2>2, <2>3
      <4>2. s \in R
        BY <1>5, <2>2, <2>3
      <4> QED
        BY <1>16, <3>1, <4>1, <4>2
    <3>2. CASE j # g
      <4>1. f \notin Children(j) /\ a \notin Children(j) /\ Children(j) \subseteq T
        BY <1>2, <2>2, <2>3, <3>2
      <4>2. Children(j)' = Children(j)
        BY <1>16, <3>2
      <4> QED
        BY <4>1, <4>2
    <3> QED
      BY <3>1, <3>2
  <2>6. \A i, j \in R : i # j => Children(i)' \cap Children(j)' = {}
    <3>1. \A j \in R \ {g} : Children(j)' = Children(j) /\ Children(j) \cap Children(g) = {}
                             /\ s \notin Children(j)
      BY <1>5, <1>16, <2>2, <2>3
    <3>2. \A j \in R \ {g} : Children(j)' \cap Children(g)' = {}
      BY <1>16, <3>1
    <3>3. \A i, j \in R \ {g} : i # j => Children(i)' \cap Children(j)' = {}
      BY <2>2, <3>1
    <3> QED
      BY <3>2, <3>3
  <2> HIDE DEF R
  <2>7. PresentIn(0)' # {} => IsFull(0)'
    BY <1>1, <2>1, <2>4, <2>5, <2>6, FullAgain
  <2> QED
    BY <1>13, <1>14, <2>7 DEF FullOrOneSided
<1>18. CASE ~IsFull(0)
  <2>1. LOG_TREE /\ ~RootHasBothSides
    BY <1>18 DEF FullOrOneSided
  <2>2. ~IsLeaf(0) /\ HalfInv(0) /\ ~MayBeHalf
    BY <1>1, <2>1 DEF RootHasBothSides, TreeInv, MayBeHalf
  <2>3. left[0] \in Children(0) /\ right[0] \in Children(0)
    BY <1>1, <2>2, ChildrenAre DEF HalfInv, IsLeaf
  <2>4. left[0] \in NodeIds /\ right[0] \in NodeIds /\ Inside(left[0], left[0]) /\ Inside(right[0], right[0])
    BY <1>1, <2>3, ChildrenAre DEF Inside, SlicesTyped
  <2>5. \A n \in NodeIds : PresentIn(n)' = {y \in Slice(n) : present'[y]}
    BY <1>1 DEF PresentIn, Slice
  <2>6. /\ left'[0] \in NodeIds /\ right'[0] \in NodeIds
        /\ Inside(left'[0], left[0]) /\ Inside(right'[0], right[0])
    <3>1. CASE g # 0
      BY <1>1, <1>15, <2>4, <3>1
    <3>2. CASE g = 0
      <4>1. l # NULL /\ r # NULL
        BY <1>1, <1>5, <2>4, <3>2 DEF l, r
      <4> QED
        BY <1>7, <1>15, <3>2, <4>1
    <3> QED
      BY <3>1, <3>2
  <2>7. (LOG_TREE /\ ~RootHasBothSides)'
    BY <1>1, <2>1, <2>4, <2>5, <2>6, OneSidedStays
  <2> QED
    BY <1>13, <1>14, <2>7 DEF FullOrOneSided
<1> QED
  BY <1>17, <1>18

\* The emptied leaf is a child of the root of a tree on its own.
LEMMA ChildGoes ==
  ASSUME TypeOK, TreeInv, SameKind, NEW p, NEW w, Removes(w, p), FullOrOneSided,
         PresentIn(w.node)' = {}, w.gparent = NULL, w.parent # NULL, ~LOG_TREE, RemoveLeaf(w)
  PROVE  /\ PresentIn(0)' # {} => TreeInv' /\ FullOrOneSided'
         /\ left' \in [NodeIds -> NodeIds \cup {NULL}]
         /\ right' \in [NodeIds -> NodeIds \cup {NULL}]
         /\ box' \in [NodeIds -> Boxes]
<1> DEFINE f == w.node
           l == IF left[0] = f THEN NULL ELSE left[0]
           r == IF left[0] = f THEN right[0] ELSE NULL
<1>1. /\ Loses(f, Erased(p, f)) /\ slice' = slice /\ f \in NodeIds /\ IsLeaf(f)
      /\ \A m \in NodeIds : PresentIn(m)' \subseteq PresentIn(m)
      /\ 0 \in NodeIds /\ SlicesTyped /\ NULL \notin NodeIds
  BY RemovesIs, IdsAre, UsedAre DEF Removes
<1>2. w.parent = 0 /\ f \in Children(0)
  <2>1. Linked(w, p) /\ f # NULL
    BY <1>1 DEF Removes
  <2> QED
    BY <2>1, <1>1 DEF Linked
<1>3. f # 0 /\ ~IsLeaf(0)
  BY <1>1, <1>2, ChildrenAre DEF IsLeaf, Children
<1>4. /\ left[0] \in NodeIds \cup {NULL} /\ right[0] \in NodeIds \cup {NULL}
      /\ left[0] = f \/ right[0] = f
      /\ left[0] # NULL => Inside(left[0], left[0])
      /\ right[0] # NULL => Inside(right[0], right[0])
      /\ left[0] = f => right[0] # f
  <2>1. /\ left[0] \in NodeIds \cup {NULL} /\ right[0] \in NodeIds \cup {NULL}
        /\ left[0] # NULL /\ right[0] # NULL => left[0] # right[0]
    BY <1>1, ChildrenAre
  <2>2. /\ left[0] # NULL => Inside(left[0], 0)
        /\ right[0] # NULL => Inside(right[0], 0)
    BY <1>1, ChildrenAre
  <2>3. /\ left[0] # NULL => Inside(left[0], left[0])
        /\ right[0] # NULL => Inside(right[0], right[0])
    BY <1>1, <2>1, <2>2 DEF Inside, SlicesTyped
  <2> QED
    BY <1>1, <1>2, <2>1, <2>3 DEF Children
<1>5. /\ left' = [left EXCEPT ![0] = l]
      /\ right' = [right EXCEPT ![0] = r]
      /\ box' = [box EXCEPT ![0] = RecomputedBox(0, l, r)]
  BY <1>2 DEF RemoveLeaf
<1>6. /\ l \in NodeIds \cup {NULL} /\ r \in NodeIds \cup {NULL}
      /\ l # NULL => left[0] # NULL /\ Inside(l, left[0])
      /\ r # NULL => right[0] # NULL /\ Inside(r, right[0])
      /\ {l, r} \ {NULL} = Children(0) \ {f}
      /\ l = NULL \/ r = NULL
  BY <1>1, <1>4 DEF Children
<1>7. \A x \in PresentIn(0)' : \E c \in {l, r} \ {NULL} : x \in Slice(c)
  <2> SUFFICES ASSUME NEW x \in PresentIn(0)'  PROVE \E c \in Children(0) \ {f} : x \in Slice(c)
    BY <1>6
  <2>1. x \in PresentIn(0) /\ present'[x]
    BY <1>1 DEF PresentIn
  <2>2. PICK c \in Children(0) : x \in Slice(c)
    BY <1>1, <1>3, <2>1 DEF TreeInv, CoverInv
  <2>3. c # f
    BY <1>1, <2>1, <2>2 DEF PresentIn, Slice
  <2> QED
    BY <2>2, <2>3
<1> HIDE DEF l, r
<1>8. /\ left' \in [NodeIds -> NodeIds \cup {NULL}]
      /\ right' \in [NodeIds -> NodeIds \cup {NULL}]
      /\ box' \in [NodeIds -> Boxes]
  <2>1. RecomputedBox(0, l, r) \in Boxes
    BY <1>1, <1>6, RecomputedHolds
  <2>2. /\ left \in [NodeIds -> NodeIds \cup {NULL}]
        /\ right \in [NodeIds -> NodeIds \cup {NULL}]
        /\ box \in [NodeIds -> Boxes]
    BY DEF TypeOK, Boxes
  <2> QED
    BY <1>5, <1>6, <2>1, <2>2
<1>9. ASSUME PresentIn(0)' # {}  PROVE TreeInv' /\ FullOrOneSided'
  <2>1. ~(l = NULL /\ r = NULL)
    BY <1>7, <1>9
  <2>2. Relinked(0, l, r)
    BY <1>5, <1>6, <1>7, <2>1 DEF Relinked
  <2>3. MayBeHalf
    BY DEF MayBeHalf, Removes
  <2>4. TreeInv'
    BY <1>1, <1>3, <2>2, <2>3, RelinkKeeps
  <2>5. /\ \A m \in NodeIds \ {0} : left'[m] = left[m] /\ right'[m] = right[m]
        /\ left'[0] = l /\ right'[0] = r
    BY <1>1, <1>3, <2>2, RelinkedAre
  <2>6. /\ Children(0)' = Children(0) \ {f}
        /\ \A m \in NodeIds \ {0} : Children(m)' = Children(m)
    BY <1>6, <2>5 DEF Children
  <2>7. PICK T \in SUBSET NodeIds : FullTree(T, 0)
    BY DEF FullOrOneSided, IsFull
  <2>8. /\ 0 \in T /\ \A j \in T : Children(j) \subseteq T
        /\ \A i, j \in T : i # j => Children(i) \cap Children(j) = {}
    BY <2>7 DEF FullTree
  <2> DEFINE R == T \ {f}
  <2>9. R \in SUBSET T /\ 0 \in R /\ f \notin R
    BY <1>3, <2>8
  <2>10. \A j \in R : Children(j)' \subseteq R
    <3> SUFFICES ASSUME NEW j \in R  PROVE Children(j)' \subseteq R
      OBVIOUS
    <3>1. CASE j = 0
      BY <2>6, <2>8, <3>1
    <3>2. CASE j # 0
      <4>1. f \notin Children(j) /\ Children(j) \subseteq T
        BY <1>2, <2>8, <3>2
      <4> QED
        BY <2>6, <3>2, <4>1
    <3> QED
      BY <3>1, <3>2
  <2>11. \A i, j \in R : i # j => Children(i)' \cap Children(j)' = {}
    <3>1. \A j \in R : Children(j)' \subseteq Children(j)
      BY <2>6
    <3> QED
      BY <2>8, <3>1
  <2> HIDE DEF R
  <2>12. IsFull(0)'
    BY <1>1, <1>9, <2>7, <2>9, <2>10, <2>11, FullAgain
  <2> QED
    BY <2>4, <2>12 DEF FullOrOneSided
<1> QED
  BY <1>8, <1>9

\* The emptied leaf of a LogTree's tree is the root, or a child of it, and stays.
LEMMA LeafStays ==
  ASSUME TypeOK, TreeInv, SameKind, NEW p, NEW w, Removes(w, p),
         PresentIn(w.node)' = {}, PresentIn(0)' # {}, w.gparent = NULL, LOG_TREE, RemoveLeaf(w)
  PROVE  TreeInv' /\ FullOrOneSided' /\ left' = left /\ right' = right /\ box' = box
<1> DEFINE f == w.node
           removed == Erased(p, f)
<1>1. /\ Loses(f, removed) /\ slice' = slice /\ f \in NodeIds /\ IsLeaf(f) /\ pc' = pc
      /\ num_points' = [num_points EXCEPT ![f] = num_points[f] - Cardinality(removed)]
      /\ 0 \in NodeIds /\ NULL \notin NodeIds
  BY RemovesIs, IdsAre DEF Removes
<1>2. left' = left /\ right' = right /\ box' = box
  BY DEF RemoveLeaf
<1>3. LeavesStay(f, removed)
  BY <1>1, <1>2 DEF LeavesStay
<1> HIDE DEF removed
<1>4. TreeInv'
  BY <1>1, <1>2, <1>3, LosesKeepsTree
<1>5. f \in Children(0)
  <2>1. Linked(w, p) /\ f # NULL /\ f # 0
    BY <1>1 DEF Removes
  <2> QED
    BY <1>1, <2>1 DEF Linked
<1>6. f = left'[0] \/ f = right'[0]
  BY <1>2, <1>5 DEF Children
<1>7. ~IsLeaf(0)'
  BY <1>1, <1>6 DEF IsLeaf
<1>8. \A n \in NodeIds : PresentIn(n)' = {y \in Slice(n) : present'[y]}
  BY <1>1 DEF PresentIn, Slice
<1>9. (PresentIn(left[0]) = {} \/ PresentIn(right[0]) = {})'
  BY <1>6 DEF PresentIn, Slice
<1>10. (LOG_TREE /\ ~RootHasBothSides)'
  BY <1>7, <1>9 DEF RootHasBothSides, SameKind
<1> QED
  BY <1>2, <1>4, <1>10 DEF FullOrOneSided

\* erase(p) of a point that is not there
LEMMA EraseNothingKeeps ==
  ASSUME Inv, SameKind, NEW p \in Points, pc = "each", pc' = pc,
         cur_size > 0 => Walk(p).node # NULL /\ Erased(p, Walk(p).node) = {},
         to_erase' = [to_erase EXCEPT ![0] = PointsAfter(p)],
         TreeSame, cur_size' = cur_size, call' = call, ret' = ret, num_removed' = num_removed, held' = held
  PROVE  Inv'
<1>1. /\ TypeOK /\ (cur_size > 0 => TreeInv /\ build_size > 0) /\ 0 \in NodeIds
      /\ \A n \in NodeIds : call[n] = "none" /\ num_removed[n] = 0
      /\ cur_size = Cardinality(PresentUsed)
  BY Between, IdsAre
<1>2. /\ PresentUsed' = PresentUsed /\ PresentPoints' = PresentPoints
      /\ RootHasBothSides' <=> RootHasBothSides
      /\ IsFull(0)' <=> IsFull(0)
  BY <1>1, TreeStays
<1>3. /\ PresentPoints = {items[x] : x \in PresentUsed} /\ IsFiniteSet(PresentUsed) /\ cur_size \in Nat
  BY <1>1, UsedAre
<1>4. p \notin PresentPoints
  <2>1. CASE cur_size = 0
    BY <1>1, <1>3, <2>1, FS_EmptySet
  <2>2. CASE cur_size > 0
    <3>1. Linked(Walk(p), p)
      BY <1>1, <2>2, WalkIs
    <3>2. \A x \in PresentUsed : items[x] = p => x \in PresentIn(Walk(p).node)
      BY <3>1 DEF Linked
    <3>3. \A x \in PresentUsed : items[x] # p
      BY <2>2, <3>2 DEF Erased
    <3> QED
      BY <1>3, <3>3
  <2> QED
    BY <1>3, <2>1, <2>2
<1>5. to_erase'[0] = to_erase[0] \ {p}
  BY <1>1 DEF TypeOK, PointsAfter
<1>6. TypeOK'
  <2>1. to_erase' \in [NodeIds -> SUBSET Points]
    BY <1>1 DEF TypeOK, PointsAfter
  <2> QED
    BY <1>1, <2>1 DEF TypeOK, TreeSame, SameKind
<1>7. cur_size' > 0 => TreeInv'
  <2>1. TreeInv => \A n \in NodeIds : HalfInv(n)'
    BY DEF TreeInv, HalfInv, MayBeHalf, TreeSame, SameKind
  <2> QED
    BY <1>1, <2>1, TreeStays
<1>8. CountInv'
  BY <1>1, <1>2 DEF Inv, CountInv, TreeSame
<1>9. HeldInv'
  <2>1. /\ held \subseteq PresentPoints /\ PresentPoints \subseteq held \cup to_erase[0]
        /\ held \cap to_erase[0] = {}
    BY DEF Inv, HeldInv
  <2>2. held' \subseteq PresentPoints' /\ PresentPoints' \subseteq held' \cup to_erase'[0]
        /\ held' \cap to_erase'[0] = {}
    BY <1>2, <1>4, <1>5, <2>1
  <2> QED
    BY <1>1, <2>2 DEF HeldInv
<1>10. CallsInv' /\ RetInv'
  BY <1>1 DEF CallsInv, RetInv
<1>11. FullInv'
  BY <1>2 DEF Inv, FullInv, SameKind
<1> QED
  BY <1>6, <1>7, <1>8, <1>9, <1>10, <1>11 DEF Inv

\* erase(p) of a point that is found
LEMMA EraseFoundKeeps ==
  ASSUME Inv, SameKind, NEW p \in Points, p \in to_erase[0], NEW w, Removes(w, p), cur_size > 0,
         to_erase' = [to_erase EXCEPT ![0] = PointsAfter(p)],
         cur_size' = cur_size - 1, call' = call, ret' = ret, num_removed' = num_removed, held' = held,
         PresentIn(w.node)' = {} /\ w.gparent = NULL /\ ~LOG_TREE => w.parent # NULL,
         \/ PresentIn(w.node)' = {} /\ RemoveLeaf(w)
         \/ /\ PresentIn(w.node)' # {} /\ left' = left /\ right' = right
            /\ box' = [box EXCEPT ![w.node] = LeafBox(w.node, present)']
  PROVE  Inv'
<1> DEFINE f == w.node
<1>1. /\ TypeOK /\ TreeInv /\ build_size > 0 /\ 0 \in NodeIds
      /\ \A n \in NodeIds : call[n] = "none" /\ num_removed[n] = 0
      /\ cur_size = Cardinality(PresentUsed)
      /\ pc = "each" /\ pc' = pc
  <2>1. pc = "each" /\ pc' = pc
    BY DEF Removes
  <2> QED
    BY <2>1, Between, IdsAre
<1>2. /\ Loses(f, Erased(p, f)) /\ PlacesStay /\ f \in NodeIds
      /\ num_points' = [num_points EXCEPT ![f] = num_points[f] - 1]
      /\ num_points[f] - 1 \in 0..max_size
      /\ PresentPoints' = PresentPoints \ {p} /\ p \in PresentPoints
      /\ Cardinality(Erased(p, f)) = 1
  BY <1>1, RemovesIs, ErasedIs DEF Removes
<1>3. /\ PresentUsed' = PresentUsed \ Erased(p, f) /\ present' \in [Positions -> BOOLEAN]
      /\ PresentIn(0)' = PresentIn(0) \ Erased(p, f)
      /\ Cardinality(PresentUsed') = Cardinality(PresentUsed) - 1
  BY <1>1, <1>2, LosesOnly, LosesCounted
<1>4. FullOrOneSided
  BY <1>1 DEF Inv, FullInv, FullOrOneSided
<1>5. cur_size' = Cardinality(PresentUsed')
  BY <1>1, <1>3
<1>6. PresentIn(0)' = PresentUsed'
  BY <1>1, <1>3, RootIs
<1>7. cur_size' > 0 => PresentIn(0)' # {}
  BY <1>5, <1>6, FS_EmptySet
<1>8. /\ PresentIn(0)' # {} => TreeInv' /\ FullOrOneSided'
      /\ left' \in [NodeIds -> NodeIds \cup {NULL}]
      /\ right' \in [NodeIds -> NodeIds \cup {NULL}]
      /\ box' \in [NodeIds -> Boxes]
  <2>0. /\ left \in [NodeIds -> NodeIds \cup {NULL}]
        /\ right \in [NodeIds -> NodeIds \cup {NULL}]
        /\ box \in [NodeIds -> Boxes]
    BY <1>1 DEF TypeOK, Boxes
  <2>1. CASE PresentIn(f)' # {}
    <3>1. left' = left /\ right' = right /\ box' = [box EXCEPT ![f] = LeafBox(f, present)']
      BY <2>1
    <3>2. TreeInv' /\ FullOrOneSided'
      BY <1>1, <1>4, <2>1, <3>1, LeafRemains
    <3>3. LeafBox(f, present)' \in Boxes
      BY <1>1, <1>2, <2>1, LeafBoxCovers
    <3> QED
      BY <2>0, <3>1, <3>2, <3>3
  <2>2. CASE PresentIn(f)' = {} /\ w.gparent # NULL
    <3>1. RemoveLeaf(w)
      BY <2>2
    <3> QED
      BY <1>1, <1>4, <2>2, <3>1, ParentGoes
  <2>3. CASE PresentIn(f)' = {} /\ w.gparent = NULL /\ ~LOG_TREE
    <3>1. w.parent # NULL /\ RemoveLeaf(w)
      BY <2>3
    <3> QED
      BY <1>1, <1>4, <2>3, <3>1, ChildGoes
  <2>4. CASE PresentIn(f)' = {} /\ w.gparent = NULL /\ LOG_TREE
    <3>1. RemoveLeaf(w)
      BY <2>4
    <3>2. left' = left /\ right' = right /\ box' = box
      BY <2>4, <3>1 DEF RemoveLeaf
    <3>3. PresentIn(0)' # {} => TreeInv' /\ FullOrOneSided'
      BY <1>1, <2>4, <3>1, LeafStays
    <3> QED
      BY <2>0, <3>2, <3>3
  <2> QED
    BY <2>1, <2>2, <2>3, <2>4
<1>9. to_erase'[0] = to_erase[0] \ {p}
  BY <1>1 DEF TypeOK, PointsAfter
<1>10. TypeOK'
  <2>1. to_erase' \in [NodeIds -> SUBSET Points]
    BY <1>1 DEF TypeOK, PointsAfter
  <2>2. num_points' \in [NodeIds -> -1..max_size]
    <3>1. num_points[f] - 1 \in -1..max_size
      <4>1. 0..max_size \subseteq -1..max_size
        BY <1>1, UsedAre DEF SizesAre
      <4> QED
        BY <1>2, <4>1
    <3> QED
      BY <1>1, <1>2, <3>1 DEF TypeOK
  <2>3. cur_size' \in 0..max_size
    <3>1. cur_size \in 0..max_size /\ max_size \in Nat
      BY <1>1, UsedAre DEF TypeOK, SizesAre
    <3> QED
      BY <3>1
  <2> QED
    BY <1>1, <1>2, <1>3, <1>8, <2>1, <2>2, <2>3 DEF TypeOK, PlacesStay, SameKind, Boxes
<1>11. cur_size' > 0 => TreeInv'
  BY <1>7, <1>8
<1>12. CountInv'
  <2>1. SumFunctionOnSet(num_removed, NodeIds) = 0
    BY <1>1, IdsAre, SumZero
  <2>2. cur_size' \in Int
    BY <1>1, UsedAre
  <2>3. cur_size' = Cardinality(PresentUsed') + SumFunctionOnSet(num_removed', NodeIds)
    BY <1>5, <2>1, <2>2
  <2>4. build_size' # 0
    BY <1>1, <1>2 DEF PlacesStay
  <2> QED
    BY <1>1, <2>3, <2>4 DEF CountInv
<1>13. HeldInv'
  <2>1. /\ held \subseteq PresentPoints /\ PresentPoints \subseteq held \cup to_erase[0]
        /\ held \cap to_erase[0] = {}
    BY <1>1 DEF Inv, HeldInv
  <2>2. held' \subseteq PresentPoints' /\ PresentPoints' \subseteq held' \cup to_erase'[0]
        /\ held' \cap to_erase'[0] = {}
    BY <1>2, <1>9, <2>1
  <2> QED
    BY <1>1, <2>2 DEF HeldInv
<1>14. CallsInv' /\ RetInv'
  BY <1>1 DEF CallsInv, RetInv
<1>15. FullInv'
  BY <1>7, <1>8 DEF FullInv, FullOrOneSided
<1> QED
  BY <1>10, <1>11, <1>12, <1>13, <1>14, <1>15 DEF Inv

LEMMA EraseOneKeeps ==
  ASSUME Inv, SameKind, NEW p \in Points, EraseOne(p)
  PROVE  Inv'
<1>0. PICK w : w = Walk(p)
  OBVIOUS
<1> DEFINE f == w.node
           flags == [x \in Positions |-> present[x] /\ x \notin Erased(p, f)]
<1>1. /\ pc = "each" /\ pc' = pc /\ p \in to_erase[0] /\ ~(cur_size > 0 /\ Crashes(p))
      /\ to_erase' = [to_erase EXCEPT ![0] = PointsAfter(p)]
      /\ items' = items /\ build_size' = build_size
      /\ call' = call /\ ret' = ret /\ num_removed' = num_removed /\ held' = held
  BY DEF EraseOne
<1>2. \/ /\ cur_size = 0 \/ Erased(p, f) = {}
         /\ UNCHANGED <<present, cur_size, nodeVars>>
      \/ /\ cur_size > 0 /\ Erased(p, f) # {}
         /\ present' = flags
         /\ cur_size' = cur_size - 1
         /\ num_points' = [num_points EXCEPT ![f] = num_points[f] - 1]
         /\ \/ num_points[f] - 1 = 0 /\ RemoveLeaf(w)
            \/ /\ num_points[f] - 1 # 0
               /\ box' = [box EXCEPT ![f] = LeafBox(f, flags)]
               /\ UNCHANGED <<left, right>>
         /\ UNCHANGED splitVars
  BY <1>0 DEF EraseOne, Erased
<1>3. cur_size > 0 => /\ f # NULL
                      /\ w.parent = NULL /\ ~LOG_TREE => {items[x] : x \in PresentIn(f)} # {p}
  BY <1>0, <1>1 DEF Crashes
<1>4. CASE /\ cur_size = 0 \/ Erased(p, f) = {}
           /\ UNCHANGED <<present, cur_size, nodeVars>>
  <2>1. TreeSame /\ cur_size' = cur_size
    BY <1>1, <1>4 DEF TreeSame, nodeVars
  <2>2. cur_size > 0 => Walk(p).node # NULL /\ Erased(p, Walk(p).node) = {}
    BY <1>0, <1>3, <1>4
  <2> QED
    BY <1>1, <2>1, <2>2, EraseNothingKeeps
<1>5. CASE /\ cur_size > 0 /\ Erased(p, f) # {}
           /\ present' = flags
           /\ cur_size' = cur_size - 1
           /\ num_points' = [num_points EXCEPT ![f] = num_points[f] - 1]
           /\ \/ num_points[f] - 1 = 0 /\ RemoveLeaf(w)
              \/ /\ num_points[f] - 1 # 0
                 /\ box' = [box EXCEPT ![f] = LeafBox(f, flags)]
                 /\ UNCHANGED <<left, right>>
           /\ UNCHANGED splitVars
  <2>1. TypeOK /\ TreeInv
    BY <1>5 DEF Inv
  <2>2. Linked(w, p) /\ w \in Walks /\ f \in NodeIds /\ IsLeaf(f)
    <3>1. Linked(w, p) /\ (w.node = NULL \/ IsLeaf(w.node))
      BY <1>0, <1>5, <2>1, WalkIs
    <3> QED
      BY <1>3, <1>5, <3>1 DEF Linked, Walks
  <2>3. Removes(w, p)
    BY <1>1, <1>5, <2>2 DEF Removes, PlacesStay, splitVars
  <2>4. num_points[f] - 1 = 0 <=> PresentIn(f)' = {}
    BY <2>1, <2>3, RemovesIs
  <2>5. PresentIn(f)' # {} => LeafBox(f, flags) = LeafBox(f, present)'
    <3>1. Loses(f, Erased(p, f))
      BY <2>1, <2>3, RemovesIs
    <3> QED
      BY <2>1, <3>1, LeafBoxCovers
  <2>6. PresentIn(f)' = {} /\ w.gparent = NULL /\ ~LOG_TREE => w.parent # NULL
    <3>1. PresentIn(f)' = {} => {items[x] : x \in PresentIn(f)} = {p}
      BY <2>1, <2>3, ErasedIs DEF Removes
    <3> QED
      BY <1>3, <1>5, <3>1
  <2>7. \/ PresentIn(f)' = {} /\ RemoveLeaf(w)
        \/ /\ PresentIn(f)' # {} /\ left' = left /\ right' = right
           /\ box' = [box EXCEPT ![f] = LeafBox(f, present)']
    BY <1>5, <2>4, <2>5
  <2> QED
    BY <1>1, <1>5, <2>3, <2>6, <2>7, EraseFoundKeeps
<1> QED
  BY <1>2, <1>4, <1>5

-----------------------------------------------------------------------------
(* The invariant holds *)

LEMMA InitHolds ==
  ASSUME Init
  PROVE  Inv
<1>1. /\ kind \in DOMAIN Kinds
      /\ items = [x \in Positions |-> <<>>] /\ present = AllPresent
      /\ cur_size = 0 /\ build_size = 0
      /\ pc = "idle" /\ held = {}
      /\ call = [n \in NodeIds |-> "none"]
      /\ to_erase = [n \in NodeIds |-> {}]
      /\ ret = [n \in NodeIds |-> NULL]
      /\ num_removed = [n \in NodeIds |-> 0]
  BY DEF Init, NoCall
<1>2. max_size \in Nat /\ SizesAre
  BY <1>1, SizesHold DEF SizesAre
<1>3. 0 \in 0..max_size /\ -1 \in -1..max_size
  BY <1>2
<1>4. TypeOK
  <2>1. /\ left \in [NodeIds -> NodeIds \cup {NULL}]
        /\ right \in [NodeIds -> NodeIds \cup {NULL}]
        /\ num_points \in [NodeIds -> -1..max_size]
        /\ split_dimension \in [NodeIds -> Dims \cup {-1}]
        /\ split_value \in [NodeIds -> Int]
    BY <1>3 DEF Init, NoNode
  <2>2. slice \in [NodeIds -> [first : 0..max_size, end : 0..max_size]]
    BY <1>3 DEF Init, NoNode
  <2>3. box \in [NodeIds -> [min : [Dims -> Int], max : [Dims -> Int]]]
    BY DEF Init, NoNode
  <2>4. /\ items \in [Positions -> Points \cup {<<>>}]
        /\ present \in [Positions -> BOOLEAN]
        /\ to_erase \in [NodeIds -> SUBSET Points]
        /\ ret \in [NodeIds -> NodeIds \cup {NULL}]
        /\ num_removed \in [NodeIds -> 0..max_size]
        /\ call \in [NodeIds -> {"none", "called", "forked", "returned"}]
    BY <1>1, <1>3 DEF AllPresent
  <2> QED
    BY <1>1, <1>3, <2>1, <2>2, <2>3, <2>4 DEF TypeOK
<1>5. /\ PresentUsed = {} /\ PresentPoints = {}
  BY <1>1, <1>4, UsedAre
<1>6. CountInv
  <2>1. SumFunctionOnSet(num_removed, NodeIds) = 0
    BY <1>1, IdsAre, SumZero
  <2>2. Cardinality(PresentUsed) = 0
    BY <1>5, FS_EmptySet
  <2> QED
    BY <1>1, <2>1, <2>2 DEF CountInv
<1>7. HeldInv /\ CallsInv /\ RetInv /\ FullInv
  BY <1>1, <1>5 DEF HeldInv, CallsInv, RetInv, FullInv
<1> QED
  BY <1>1, <1>4, <1>6, <1>7 DEF Inv

LEMMA StutterKeeps ==
  ASSUME Inv, UNCHANGED vars
  PROVE  Inv'
<1>1. /\ kind' = kind /\ pc' = pc /\ held' = held /\ to_erase' = to_erase
      /\ cur_size' = cur_size /\ call' = call /\ ret' = ret /\ num_removed' = num_removed
      /\ TreeSame
  BY DEF vars, nodeVars, callVars, TreeSame
<1>2. SameKind
  BY <1>1, KindStays
<1>3. /\ PresentUsed' = PresentUsed /\ PresentPoints' = PresentPoints
      /\ RootHasBothSides' <=> RootHasBothSides
      /\ IsFull(0)' <=> IsFull(0)
      /\ \A n \in NodeIds : Slice(n)' = Slice(n)
      /\ \A a, b \in NodeIds : /\ Inside(a, b)' <=> Inside(a, b)
                               /\ Apart(a, b)' <=> Apart(a, b)
  BY <1>1, <1>2, IdsAre, TreeStays, ShapeStays DEF TreeSame
<1>4. TypeOK' /\ TypeOK
  BY <1>1, <1>2 DEF Inv, TypeOK, TreeSame, SameKind
<1>5. cur_size' > 0 => TreeInv'
  <2>1. TreeInv => \A n \in NodeIds : HalfInv(n)'
    BY <1>1, <1>2 DEF TreeInv, HalfInv, MayBeHalf, TreeSame, SameKind
  <2> QED
    BY <1>1, <1>2, <2>1, TreeStays DEF Inv
<1>6. CountInv'
  BY <1>1, <1>2, <1>3 DEF Inv, CountInv, TreeSame, SameKind
<1>7. HeldInv'
  BY <1>1, <1>3 DEF Inv, HeldInv, TreeSame
<1>8. CallsInv'
  <2>1. \A a, b \in NodeIds : Over(a, b)' <=> Over(a, b)
    BY <1>1 DEF Over, Inside, TreeSame
  <2> QED
    BY <1>1, <1>3, <2>1 DEF Inv, CallsInv, TreeSame
<1>9. RetInv'
  <2> SUFFICES ASSUME NEW n \in NodeIds, call[n] = "returned"  PROVE Stands(n)'
    BY <1>1 DEF RetInv
  <2>1. Stands(n) /\ ret'[n] = ret[n] /\ ret[n] \in NodeIds \cup {NULL}
    BY <1>1, <1>4 DEF Inv, RetInv, TypeOK
  <2> QED
    BY <1>1, <1>2, <2>1, StandsStays
<1>10. FullInv'
  BY <1>1, <1>2, <1>3 DEF Inv, FullInv, SameKind
<1> QED
  BY <1>4, <1>5, <1>6, <1>7, <1>8, <1>9, <1>10 DEF Inv

LEMMA CallerKeeps ==
  ASSUME NoTies, Inv, SameKind, Caller
  PROVE  Inv'
<1>1. TypeOK
  BY DEF Inv
<1>2. CASE \E S \in Kinds[kind].inserts : Insert(S)
  <2>1. PICK S \in Kinds[kind].inserts : Insert(S)
    BY <1>2
  <2>2. S \in SUBSET Points
    BY <1>1, ErasesAre
  <2> QED
    BY <2>1, <2>2, InsertKeeps
<1>3. CASE MoveOut
  BY <1>3, MoveOutKeeps
<1>4. CASE \E S \in Kinds[kind].erases : BulkErase(S)
  <2>1. PICK S \in Kinds[kind].erases : BulkErase(S)
    BY <1>4
  <2>2. S \in SUBSET Points
    BY <1>1, ErasesAre
  <2> QED
    BY <2>1, <2>2, BulkEraseKeeps
<1>5. CASE \E S \in Kinds[kind].erases : EraseEach(S)
  <2>1. PICK S \in Kinds[kind].erases : EraseEach(S)
    BY <1>5
  <2>2. S \in SUBSET Points
    BY <1>1, ErasesAre
  <2> QED
    BY <2>1, <2>2, EraseEachKeeps
<1> QED
  BY <1>2, <1>3, <1>4, <1>5 DEF Caller

LEMMA StepKeeps ==
  ASSUME NoTies, Inv, [Next]_vars
  PROVE  Inv'
<1>1. CASE Caller /\ UNCHANGED kind
  BY <1>1, KindStays, CallerKeeps
<1>2. CASE Step
  <2>1. SameKind
    BY <1>2, KindStays DEF Step
  <2>2. CASE RunBulk
    <3>1. PICK n \in NodeIds : Fork(n) \/ EraseLeaf(n) \/ Join(n)
      BY <2>2 DEF RunBulk
    <3> QED
      BY <2>1, <3>1, ForkKeeps, EraseLeafKeeps, JoinKeeps
  <2>3. CASE EndBulk
    BY <2>1, <2>3, EndBulkKeeps
  <2>4. CASE RunEach
    <3>1. CASE \E p \in Points : EraseOne(p)
      BY <2>1, <3>1, EraseOneKeeps
    <3>2. CASE Crash
      BY <2>1, <3>2, CrashKeeps
    <3>3. CASE EndEach
      BY <2>1, <3>3, EndEachKeeps
    <3> QED
      BY <2>4, <3>1, <3>2, <3>3 DEF RunEach
  <2>5. CASE AfterErase
    BY <2>1, <2>5, AfterEraseKeeps
  <2> QED
    BY <1>2, <2>2, <2>3, <2>4, <2>5 DEF Step
<1>3. CASE UNCHANGED vars
  BY <1>3, StutterKeeps
<1> QED
  BY <1>1, <1>2, <1>3 DEF Next

(***************************************************************************)
(* The inductive invariant.  Without ties a split sends every point to the *)
(* side it was put on; with them it may not, as the run kdtree_ties shows.  *)
(***************************************************************************)
THEOREM InvHolds == NoTies => (Spec => []Inv)
<1> SUFFICES ASSUME NoTies  PROVE Spec => []Inv
  OBVIOUS
<1>1. Init => Inv
  BY InitHolds
<1>2. Inv /\ [Next]_vars => Inv'
  BY StepKeeps
<1> QED
  BY <1>1, <1>2, PTL DEF Spec

(***************************************************************************)
(* Type correctness: in particular the sizes stay between 0 and the        *)
(* capacity, and the links within the array of nodes.                      *)
(***************************************************************************)
THEOREM TypesAreKept == NoTies => (Spec => []TypeOK)
<1>1. Inv => TypeOK
  BY DEF Inv
<1> QED
  BY <1>1, InvHolds, PTL

(***************************************************************************)
(* Whatever the interleaving of a bulk_erase, and whether points are       *)
(* erased in bulk or one by one, the tree holds afterwards what was put    *)
(* into it and not erased, and size() counts it.                           *)
(***************************************************************************)
THEOREM HeldExactly == NoTies => (Spec => []HoldsExactly)
BY InvHolds, HoldsExactlyHolds, PTL

(***************************************************************************)
(* contains finds a point iff it is held, through a tree whose nodes have  *)
(* been cut out, by split values that are as old as the tree.              *)
(***************************************************************************)
THEOREM ContainsIsExact == NoTies => (Spec => []ContainsExact)
BY InvHolds, ContainsExactHolds, PTL

(***************************************************************************)
(* orthogonalQuery returns the points held that lie in the box: no box is  *)
(* too small for what is left below it, in a tree with half a root too.    *)
(***************************************************************************)
THEOREM RangeQueryIsExact == NoTies => (Spec => []RangeQueryExact)
BY InvHolds, RangeQueryExactHolds, PTL

(***************************************************************************)
(* The leaves that are reached hold every point, are counted right, have   *)
(* tight boxes, and none is empty unless a root that a LogTree keeps has   *)
(* lost a side.                                                            *)
(***************************************************************************)
THEOREM LeavesAreExact == NoTies => (Spec => []LeavesExact)
BY InvHolds, LeavesExactHolds, PTL

(***************************************************************************)
(* What a task of a bulk_erase has returned for a node stands for all that *)
(* is left of it, while the other tasks go on.                             *)
(***************************************************************************)
THEOREM ReturnedStands == NoTies => (Spec => []ReturnedHoldsTheRest)
BY InvHolds, ReturnedHoldsTheRestHolds, PTL

(***************************************************************************)
(* A static tree that splits at the object median has points on both sides *)
(* of its root, or has been emptied: what allows erase to leave the root   *)
(* as it is.                                                               *)
(***************************************************************************)
THEOREM RootKept == NoTies => (Spec => []RootKeepsBothSides)
BY InvHolds, RootKeepsBothSidesHolds, PTL

=============================================================================
