---------------------------- MODULE KnnBuffer_proofs ----------------------------
(***************************************************************************)
(* What the proofs about the searches need to know of distances, of the    *)
(* nodes of a tree, and of what a buffer keeps.                            *)
(***************************************************************************)
EXTENDS KnnBuffer, Counting_proofs

-----------------------------------------------------------------------------
(* Distances *)

LEMMA Squares ==
  /\ \A x \in Int : x * x \in Nat
  /\ \A x, y \in Nat : x <= y => x * x <= y * y
<1>1. ASSUME NEW x \in Int  PROVE x * x \in Nat
  <2>1. CASE x >= 0
    BY <2>1
  <2>2. CASE x < 0
    <3>1. (0 - x) * (0 - x) \in Nat
      BY <2>2
    <3>2. x * x = (0 - x) * (0 - x)
      OBVIOUS
    <3> QED
      BY <3>1, <3>2
  <2> QED
    BY <2>1, <2>2
<1>2. ASSUME NEW x \in Nat, NEW y \in Nat, x <= y  PROVE x * x <= y * y
  BY <1>2
<1> QED
  BY <1>1, <1>2

IsPoint(p) == \A d \in Dims : p[d] \in Int

SquareStep(f, q, p, d) == IF d = 0 THEN 0 ELSE f[d - 1] + (q[d] - p[d]) * (q[d] - p[d])

SquareGraph(f, q, p) == f = [d \in 0..DIM |-> SquareStep(f, q, p, d)]

\* The squares of a distance, added up to a dimension
LEMMA SquareExists ==
  ASSUME NEW q, NEW p
  PROVE  \E f : SquareGraph(f, q, p)
<1> DEFINE N == {n \in Nat : \E f : \A d \in 0..n : f[d] = SquareStep(f, q, p, d)}
<1>1. 0 \in N
  <2> DEFINE f == [d \in 0..0 |-> 0]
  <2>1. \A d \in 0..0 : f[d] = SquareStep(f, q, p, d)
    BY DEF SquareStep
  <2> QED
    BY <2>1
<1>2. ASSUME NEW n \in Nat, n \in N  PROVE n + 1 \in N
  <2>1. PICK f : \A d \in 0..n : f[d] = SquareStep(f, q, p, d)
    BY <1>2
  <2> DEFINE g == [d \in 0..(n + 1) |-> SquareStep(f, q, p, d)]
  <2>2. \A d \in 0..n : g[d] = f[d]
    BY <2>1
  <2>3. \A d \in 0..(n + 1) : g[d] = SquareStep(g, q, p, d)
    BY <2>2 DEF SquareStep
  <2> HIDE DEF g
  <2> QED
    BY <2>3
<1>3. DIM \in N
  <2> HIDE DEF N
  <2> QED
    BY <1>1, <1>2, NatSetInduction, DimAssumption
<1>4. PICK f : \A d \in 0..DIM : f[d] = SquareStep(f, q, p, d)
  BY <1>3
<1> DEFINE g == [d \in 0..DIM |-> f[d]]
<1>5. \A d \in 0..DIM : g[d] = SquareStep(g, q, p, d)
  BY <1>4, DimAssumption DEF SquareStep
<1>6. g = [d \in 0..DIM |-> SquareStep(g, q, p, d)]
  BY <1>5
<1> QED
  BY <1>6 DEF SquareGraph

LEMMA CostIs ==
  ASSUME NEW q, NEW p
  PROVE  \E f : SquareGraph(f, q, p) /\ Cost(q, p) = f[DIM]
<1> DEFINE f == CHOOSE f : SquareGraph(f, q, p)
<1>1. SquareGraph(f, q, p)
  <2>1. \E g : SquareGraph(g, q, p)
    BY SquareExists
  <2> QED
    BY <2>1
<1>2. Cost(q, p) = f[DIM]
  BY DEF Cost, SquareStep, SquareGraph
<1> QED
  BY <1>1, <1>2

\* No dimension is farther than the distance.
LEMMA CostBounds ==
  ASSUME NEW q, NEW p, IsPoint(q), IsPoint(p)
  PROVE  /\ Cost(q, p) \in Nat
         /\ \A d \in Dims : (q[d] - p[d]) * (q[d] - p[d]) <= Cost(q, p)
<1>1. PICK f : SquareGraph(f, q, p) /\ Cost(q, p) = f[DIM]
  BY CostIs
<1> DEFINE sq(d) == (q[d] - p[d]) * (q[d] - p[d])
           N == {n \in Nat : n <= DIM => f[n] \in Nat /\ \A d \in 1..n : sq(d) <= f[n]}
<1>2. \A d \in Dims : sq(d) \in Nat
  BY Squares DEF IsPoint
<1>3. 0 \in N
  BY <1>1, DimAssumption DEF SquareStep, SquareGraph
<1>4. ASSUME NEW n \in Nat, n \in N  PROVE n + 1 \in N
  <2> SUFFICES ASSUME n + 1 <= DIM
               PROVE  f[n + 1] \in Nat /\ \A d \in 1..(n + 1) : sq(d) <= f[n + 1]
    OBVIOUS
  <2>1. f[n] \in Nat /\ \A d \in 1..n : sq(d) <= f[n]
    BY <1>4, DimAssumption
  <2>2. f[n + 1] = SquareStep(f, q, p, n + 1)
    BY <1>1, DimAssumption DEF SquareGraph
  <2>3. f[n + 1] = f[n] + sq(n + 1)
    BY <2>2 DEF SquareStep
  <2>4. sq(n + 1) \in Nat /\ \A d \in 1..n : sq(d) \in Nat
    BY <1>2, DimAssumption DEF Dims
  <2> HIDE DEF sq
  <2>5. \A d \in 1..(n + 1) : d \in 1..n \/ d = n + 1
    OBVIOUS
  <2> QED
    BY <2>1, <2>3, <2>4, <2>5
<1>5. DIM \in N
  <2> HIDE DEF N
  <2> QED
    BY <1>3, <1>4, NatSetInduction, DimAssumption
<1> QED
  BY <1>1, <1>5, DimAssumption DEF Dims

-----------------------------------------------------------------------------
(* Trees *)

LEMMA LowerHalfExists ==
  ASSUME NEW S, IsFiniteSet(S), NEW d, \A p \in S : p[d] \in Int
  PROVE  \E L \in SUBSET S : /\ Cardinality(L) = Cardinality(S) \div 2
                            /\ \A p \in L, q \in S \ L : p[d] <= q[d]
<1> DEFINE Lowest(n) == \E L \in SUBSET S : /\ Cardinality(L) = n
                                            /\ \A p \in L, q \in S \ L : p[d] <= q[d]
           N == {n \in Nat : n <= Cardinality(S) => Lowest(n)}
<1>1. 0 \in N
  <2>1. Cardinality({}) = 0 /\ {} \in SUBSET S
    BY FS_EmptySet
  <2> QED
    BY <2>1
<1>2. ASSUME NEW n \in Nat, n \in N  PROVE n + 1 \in N
  <2> SUFFICES ASSUME n + 1 <= Cardinality(S)
               PROVE  Lowest(n + 1)
    OBVIOUS
  <2>0. Cardinality(S) \in Nat
    BY FS_CardinalityType
  <2>1. PICK L \in SUBSET S : /\ Cardinality(L) = n
                             /\ \A p \in L, q \in S \ L : p[d] <= q[d]
    BY <1>2, <2>0
  <2> DEFINE R == S \ L
  <2>2. R # {}
    BY <2>0, <2>1
  <2>3. R \in SUBSET S /\ IsFiniteSet(R) /\ IsFiniteSet(L)
    BY FS_Subset
  <2>4. PICK m \in {p[d] : p \in R} : \A y \in {p[d] : p \in R} : m <= y
    <3>1. \A p \in R : p[d] \in Int
      OBVIOUS
    <3> DEFINE C == {p[d] : p \in R}
    <3>2. C \in SUBSET Int /\ IsFiniteSet(C) /\ C # {}
      <4> HIDE DEF R
      <4> QED
        BY <2>2, <2>3, <3>1, CoordinatesAre
    <3> HIDE DEF C
    <3>3. \E x \in C : \A y \in C : x <= y
      BY <3>2, LeastExists
    <3> QED
      BY <3>3 DEF C
  <2>5. PICK z \in R : m = z[d]
    BY <2>4
  <2>6. \A q \in R : z[d] <= q[d]
    BY <2>4, <2>5
  <2>7. Cardinality(L \cup {z}) = n + 1
    BY <2>1, <2>3, FS_AddElement
  <2>8. L \cup {z} \in SUBSET S
    OBVIOUS
  <2>9. \A p \in L \cup {z}, q \in S \ (L \cup {z}) : p[d] <= q[d]
    BY <2>1, <2>6
  <2> QED
    BY <2>7, <2>8, <2>9
<1>3. Nat \subseteq N
  <2> HIDE DEF N
  <2> QED
    BY <1>1, <1>2, NatSetInduction
<1>4. Cardinality(S) \in Nat
  BY FS_CardinalityType
<1>5. Cardinality(S) \div 2 \in Nat /\ Cardinality(S) \div 2 <= Cardinality(S)
  BY <1>4
<1> HIDE DEF Lowest
<1>6. Lowest(Cardinality(S) \div 2)
  BY <1>3, <1>5
<1> QED
  BY <1>6 DEF Lowest

\* Both halves of two points or more are smaller.
LEMMA HalvesAreSmaller ==
  ASSUME NEW S, IsFiniteSet(S), NEW d, \A p \in S : p[d] \in Int, Cardinality(S) > 1
  PROVE  /\ LowerHalf(S, d) \in SUBSET S /\ LowerHalf(S, d) # {}
         /\ S \ LowerHalf(S, d) # {}
         /\ Cardinality(LowerHalf(S, d)) < Cardinality(S)
         /\ Cardinality(S \ LowerHalf(S, d)) < Cardinality(S)
<1> DEFINE L == LowerHalf(S, d)
<1>1. L \in SUBSET S /\ Cardinality(L) = Cardinality(S) \div 2
  BY LowerHalfExists DEF LowerHalf, kSubset
<1> HIDE DEF L
<1>2. Cardinality(S) \in Nat
  BY FS_CardinalityType
<1>3. Cardinality(L) \in 1..(Cardinality(S) - 1)
  BY <1>1, <1>2
<1>4. IsFiniteSet(L) /\ L # {} /\ L # S
  BY <1>1, <1>2, <1>3, FS_Subset, FS_EmptySet
<1>5. IsFiniteSet(S \ L) /\ Cardinality(S \ L) <= Cardinality(S) /\ S \ L # S
  BY <1>1, <1>4, FS_Subset
<1>6. Cardinality(S \ L) # Cardinality(S) /\ Cardinality(S \ L) \in Nat
  <2>1. S \ L \in SUBSET S
    OBVIOUS
  <2> QED
    BY <1>5, <2>1, FS_Subset, FS_CardinalityType
<1>7. S \ L # {}
  BY <1>1, <1>4
<1>8. Cardinality(S \ L) < Cardinality(S)
  BY <1>2, <1>5, <1>6
<1> QED
  BY <1>1, <1>2, <1>3, <1>4, <1>7, <1>8 DEF L

Next1(d) == (d % DIM) + 1

LEMMA NextIn == \A d \in Dims : Next1(d) \in Dims
BY DimAssumption DEF Dims, Next1

\* One step of the recursion that makes the nodes
NodeOf(f, built, present, tight, S, d) ==
  LET lower == LowerHalf(S, d)
      upper == S \ lower
      next == (d % DIM) + 1
      keepsBoth == lower \cap present # {} /\ upper \cap present # {}
  IN  IF Cardinality(S) <= LEAF_SIZE
        THEN [points |-> S \cap present,
              box |-> BoxOf(IF S \cap present # {} THEN S \cap present ELSE S),
              split_dimension |-> d, split_value |-> 0, children |-> <<>>]
      ELSE IF S # built /\ ~keepsBoth /\ upper \cap present # {}
        THEN f[upper][next]
      ELSE IF S # built /\ ~keepsBoth /\ lower \cap present # {}
        THEN f[lower][next]
      ELSE [points |-> S \cap present,
            box |-> BoxOf(IF tight /\ keepsBoth THEN S \cap present ELSE S),
            split_dimension |-> d,
            split_value |-> Min({p[d] : p \in upper}),
            children |-> <<f[lower][next], f[upper][next]>>]

NodesOf(f, built, present, tight, S) == [d \in Dims |-> NodeOf(f, built, present, tight, S, d)]

NodeGraph(f, built, present, tight) ==
  f = [S \in SUBSET built |-> NodesOf(f, built, present, tight, S)]

LEMMA NodesAreChosen ==
  ASSUME NEW built, NEW present, NEW tight
  PROVE  Nodes(built, present, tight) = CHOOSE f : NodeGraph(f, built, present, tight)
BY DEF Nodes, NodeGraph, NodesOf, NodeOf

\* A step looks at smaller sets only.
LEMMA NodesAgree ==
  ASSUME NEW built, IsFiniteSet(built), \A p \in built : IsPoint(p),
         NEW present, NEW tight, NEW S \in SUBSET built, NEW f, NEW g,
         \A T \in SUBSET built : Cardinality(T) < Cardinality(S) => f[T] = g[T]
  PROVE  NodesOf(f, built, present, tight, S) = NodesOf(g, built, present, tight, S)
<1> SUFFICES ASSUME NEW d \in Dims
             PROVE  NodeOf(f, built, present, tight, S, d) = NodeOf(g, built, present, tight, S, d)
  BY DEF NodesOf
<1>1. CASE Cardinality(S) <= LEAF_SIZE
  BY <1>1 DEF NodeOf
<1>2. CASE ~(Cardinality(S) <= LEAF_SIZE)
  <2> DEFINE lower == LowerHalf(S, d)  upper == S \ lower
  <2>1. IsFiniteSet(S) /\ Cardinality(S) \in Nat /\ \A p \in S : p[d] \in Int
    BY FS_Subset, FS_CardinalityType DEF IsPoint
  <2>2. /\ lower \in SUBSET built /\ Cardinality(lower) < Cardinality(S)
        /\ upper \in SUBSET built /\ Cardinality(upper) < Cardinality(S)
    <3>1. Cardinality(S) > 1
      BY <1>2, <2>1, LeafSizeAssumption
    <3> QED
      BY <2>1, <3>1, HalvesAreSmaller
  <2>3. f[lower] = g[lower] /\ f[upper] = g[upper]
    BY <2>2
  <2> QED
    BY <2>3 DEF NodeOf
<1> QED
  BY <1>1, <1>2

LEMMA NodeGraphExists ==
  ASSUME NEW built, IsFiniteSet(built), \A p \in built : IsPoint(p),
         NEW present, NEW tight
  PROVE  \E f : NodeGraph(f, built, present, tight)
<1> DEFINE At(f, S) == f[S] = NodesOf(f, built, present, tight, S)
           N == {n \in Nat : \E f : \A S \in SUBSET built : Cardinality(S) < n => At(f, S)}
<1>1. \A S \in SUBSET built : Cardinality(S) \in Nat /\ Cardinality(S) <= Cardinality(built)
  BY FS_Subset, FS_CardinalityType
<1>2. 0 \in N
  BY <1>1
<1>3. ASSUME NEW n \in Nat, n \in N  PROVE n + 1 \in N
  <2>1. PICK f : \A S \in SUBSET built : Cardinality(S) < n => At(f, S)
    BY <1>3
  <2> DEFINE g == [S \in SUBSET built |-> NodesOf(f, built, present, tight, S)]
  <2>2. \A S \in SUBSET built : Cardinality(S) < n => g[S] = f[S]
    BY <2>1
  <2>3. \A S \in SUBSET built : g[S] = NodesOf(f, built, present, tight, S)
    OBVIOUS
  <2> HIDE DEF g
  <2>4. ASSUME NEW S \in SUBSET built, Cardinality(S) < n + 1  PROVE At(g, S)
    <3>1. \A T \in SUBSET built : Cardinality(T) < Cardinality(S) => f[T] = g[T]
      BY <1>1, <2>2, <2>4
    <3>2. NodesOf(f, built, present, tight, S) = NodesOf(g, built, present, tight, S)
      BY <3>1, NodesAgree
    <3> QED
      BY <2>3, <3>2
  <2> HIDE DEF At
  <2> QED
    BY <2>4
<1>4. Cardinality(built) + 1 \in N
  <2> HIDE DEF N
  <2>1. Nat \subseteq N
    BY <1>2, <1>3, NatSetInduction
  <2> QED
    BY <2>1, FS_CardinalityType
<1>5. PICK f : \A S \in SUBSET built : Cardinality(S) < Cardinality(built) + 1 => At(f, S)
  BY <1>4
<1> DEFINE g == [S \in SUBSET built |-> NodesOf(f, built, present, tight, S)]
<1>6. \A S \in SUBSET built : g[S] = f[S] /\ g[S] = NodesOf(f, built, present, tight, S)
  <2>1. \A S \in SUBSET built : Cardinality(S) < Cardinality(built) + 1
    BY <1>1, FS_CardinalityType
  <2> QED
    BY <1>5, <2>1
<1>7. DOMAIN g = SUBSET built /\ g = [S \in SUBSET built |-> g[S]]
  OBVIOUS
<1> HIDE DEF g
<1>8. \A S \in SUBSET built : g[S] = NodesOf(g, built, present, tight, S)
  BY <1>6, NodesAgree
<1>9. g = [S \in SUBSET built |-> NodesOf(g, built, present, tight, S)]
  BY <1>7, <1>8
<1> QED
  BY <1>9 DEF NodeGraph

LEMMA NodesAre ==
  ASSUME NEW built, IsFiniteSet(built), \A p \in built : IsPoint(p),
         NEW present, NEW tight, NEW S \in SUBSET built, NEW d \in Dims
  PROVE  Nodes(built, present, tight)[S][d]
           = NodeOf(Nodes(built, present, tight), built, present, tight, S, d)
<1> DEFINE f == Nodes(built, present, tight)
<1>1. NodeGraph(f, built, present, tight)
  BY NodeGraphExists, NodesAreChosen
<1> HIDE DEF f
<1>2. f[S] = NodesOf(f, built, present, tight, S)
  BY <1>1 DEF NodeGraph
<1>3. f[S][d] = NodeOf(f, built, present, tight, S, d)
  BY <1>2 DEF NodesOf
<1> QED
  BY <1>3 DEF f

-----------------------------------------------------------------------------
(* Nodes *)

\* The box of a node holds its points.
BoxHolds(box, S) ==
  \A d \in Dims : /\ box.min[d] \in Int /\ box.max[d] \in Int
                  /\ \A p \in S : box.min[d] <= p[d] /\ p[d] <= box.max[d]

LEMMA BoxOfHolds ==
  ASSUME NEW S, IsFiniteSet(S), S # {}, \A p \in S : IsPoint(p), NEW T \in SUBSET S
  PROVE  BoxHolds(BoxOf(S), T)
<1> SUFFICES ASSUME NEW d \in Dims
             PROVE  /\ BoxOf(S).min[d] \in Int /\ BoxOf(S).max[d] \in Int
                    /\ \A p \in S : BoxOf(S).min[d] <= p[d] /\ p[d] <= BoxOf(S).max[d]
  BY DEF BoxHolds
<1> DEFINE C == {p[d] : p \in S}
<1>1. C \in SUBSET Int /\ IsFiniteSet(C) /\ C # {}
  BY CoordinatesAre DEF IsPoint
<1>2. BoxOf(S).min[d] = Min(C) /\ BoxOf(S).max[d] = Max(C)
  BY DEF BoxOf
<1>3. \A p \in S : p[d] \in C
  OBVIOUS
<1> HIDE DEF C
<1>4. Min(C) \in C /\ Max(C) \in C /\ \A y \in C : Min(C) <= y /\ Max(C) >= y
  BY <1>1, MinIs, MaxIs
<1>5. Min(C) \in Int /\ Max(C) \in Int /\ \A p \in S : Min(C) <= p[d] /\ p[d] <= Max(C)
  BY <1>1, <1>3, <1>4
<1> QED
  BY <1>2, <1>5

\* The nodes of a tree, and of all trees over points
NodesOfTree(built, present, tight) ==
  {Nodes(built, present, tight)[S][d] : S \in (SUBSET built) \ {{}}, d \in Dims}

TreeNodes(points) ==
  UNION {NodesOfTree(t[1], t[2], t[3]) :
         t \in (SUBSET points) \X (SUBSET points) \X BOOLEAN}

LEMMA TreeNodesAre ==
  ASSUME NEW points, NEW built \in SUBSET points, NEW present \in SUBSET points,
         NEW tight \in BOOLEAN, NEW S \in (SUBSET built) \ {{}}, NEW d \in Dims
  PROVE  Nodes(built, present, tight)[S][d] \in TreeNodes(points)
<1>1. Nodes(built, present, tight)[S][d] \in NodesOfTree(built, present, tight)
  BY DEF NodesOfTree
<1> DEFINE t == <<built, present, tight>>
<1>2. /\ t \in (SUBSET points) \X (SUBSET points) \X BOOLEAN
      /\ t[1] = built /\ t[2] = present /\ t[3] = tight
  OBVIOUS
<1> HIDE DEF t
<1>3. NodesOfTree(built, present, tight) \in
        {NodesOfTree(u[1], u[2], u[3]) : u \in (SUBSET points) \X (SUBSET points) \X BOOLEAN}
  BY <1>2
<1> QED
  BY <1>1, <1>3 DEF TreeNodes

\* A node is a leaf, or has two children that share out its points.
Splits(n, points) ==
  n.children # <<>> =>
    /\ n.children \in Seq(TreeNodes(points)) /\ Len(n.children) = 2
    /\ n.children[1].points \cup n.children[2].points = n.points
    /\ n.children[1].points \cap n.children[2].points = {}

NodeFacts(n, S, points) ==
  n.points = S /\ BoxHolds(n.box, n.points) /\ Splits(n, points)

LEMMA NodesHold ==
  ASSUME NEW points, IsFiniteSet(points), \A p \in points : IsPoint(p),
         NEW built \in SUBSET points, NEW present \in SUBSET points, NEW tight \in BOOLEAN
  PROVE  \A S \in SUBSET built : S # {} =>
           \A d \in Dims : NodeFacts(Nodes(built, present, tight)[S][d], S \cap present, points)
<1> DEFINE f == Nodes(built, present, tight)
           F == {S \in SUBSET built : S # {} =>
                   \A d \in Dims : NodeFacts(f[S][d], S \cap present, points)}
<1>0. IsFiniteSet(built) /\ \A p \in built : IsPoint(p)
  BY FS_Subset
<1>1. ASSUME NEW S \in SUBSET built,
             \A T \in SUBSET built : Cardinality(T) < Cardinality(S) => T \in F
      PROVE  S \in F
  <2> SUFFICES ASSUME S # {}, NEW d \in Dims
               PROVE  NodeFacts(f[S][d], S \cap present, points)
    OBVIOUS
  <2> DEFINE lower == LowerHalf(S, d)  upper == S \ lower  next == (d % DIM) + 1
             keepsBoth == lower \cap present # {} /\ upper \cap present # {}
  <2>1. f[S][d] = NodeOf(f, built, present, tight, S, d)
    BY <1>0, NodesAre
  <2>2. IsFiniteSet(S) /\ Cardinality(S) \in Nat /\ \A p \in S : IsPoint(p)
    BY <1>0, FS_Subset, FS_CardinalityType
  <2>3. next \in Dims
    BY NextIn DEF Next1
  <2>4. \A T \in SUBSET S : IsFiniteSet(T) /\ \A p \in T : IsPoint(p)
    BY <2>2, FS_Subset
  <2>5. CASE Cardinality(S) <= LEAF_SIZE
    <3> DEFINE B == IF S \cap present # {} THEN S \cap present ELSE S
    <3>1. f[S][d] = [points |-> S \cap present, box |-> BoxOf(B),
                     split_dimension |-> d, split_value |-> 0, children |-> <<>>]
      BY <2>1, <2>5 DEF NodeOf
    <3>2. BoxHolds(BoxOf(B), S \cap present)
      <4>1. IsFiniteSet(B) /\ B # {} /\ (\A p \in B : IsPoint(p)) /\ S \cap present \in SUBSET B
        BY <2>4
      <4> HIDE DEF B
      <4> QED
        BY <4>1, BoxOfHolds
    <3> HIDE DEF B, f
    <3> QED
      BY <3>1, <3>2 DEF NodeFacts, Splits
  <2>6. CASE ~(Cardinality(S) <= LEAF_SIZE)
    <3>1. /\ lower \in SUBSET S /\ lower # {} /\ Cardinality(lower) < Cardinality(S)
          /\ upper \in SUBSET S /\ upper # {} /\ Cardinality(upper) < Cardinality(S)
      <4>1. Cardinality(S) > 1
        BY <2>2, <2>6, LeafSizeAssumption
      <4> QED
        BY <2>2, <4>1, HalvesAreSmaller DEF IsPoint
    <3>2. /\ NodeFacts(f[lower][next], lower \cap present, points)
          /\ NodeFacts(f[upper][next], upper \cap present, points)
      <4>1. lower \in F /\ upper \in F
        <5> HIDE DEF lower, F
        <5> QED
          BY <1>1, <3>1
      <4> QED
        BY <2>3, <3>1, <4>1
    <3>3. lower \cup upper = S /\ lower \cap upper = {}
      BY <3>1
    <3>4. CASE S # built /\ ~keepsBoth /\ upper \cap present # {}
      <4>1. f[S][d] = f[upper][next]
        BY <2>1, <2>6, <3>4 DEF NodeOf
      <4>2. S \cap present = upper \cap present
        BY <3>3, <3>4
      <4> QED
        BY <3>2, <4>1, <4>2
    <3>5. CASE S # built /\ ~keepsBoth /\ ~(upper \cap present # {}) /\ lower \cap present # {}
      <4>1. f[S][d] = f[lower][next]
        BY <2>1, <2>6, <3>5 DEF NodeOf
      <4>2. S \cap present = lower \cap present
        BY <3>3, <3>5
      <4> QED
        BY <3>2, <4>1, <4>2
    <3>6. CASE /\ ~(S # built /\ ~keepsBoth /\ upper \cap present # {})
               /\ ~(S # built /\ ~keepsBoth /\ ~(upper \cap present # {})
                                             /\ lower \cap present # {})
      <4> DEFINE B == IF tight /\ keepsBoth THEN S \cap present ELSE S
      <4>1. f[S][d] = [points |-> S \cap present, box |-> BoxOf(B),
                       split_dimension |-> d,
                       split_value |-> Min({p[d] : p \in upper}),
                       children |-> <<f[lower][next], f[upper][next]>>]
        BY <2>1, <2>6, <3>6 DEF NodeOf
      <4>2. BoxHolds(BoxOf(B), S \cap present)
        <5>1. IsFiniteSet(B) /\ B # {} /\ (\A p \in B : IsPoint(p)) /\ S \cap present \in SUBSET B
          BY <2>4, <3>3
        <5> HIDE DEF B
        <5> QED
          BY <5>1, BoxOfHolds
      <4>3. f[lower][next] \in TreeNodes(points) /\ f[upper][next] \in TreeNodes(points)
        <5>1. lower \in (SUBSET built) \ {{}} /\ upper \in (SUBSET built) \ {{}}
          BY <3>1
        <5> HIDE DEF lower
        <5> QED
          BY <2>3, <5>1, TreeNodesAre
      <4>4. /\ f[lower][next].points \cup f[upper][next].points = S \cap present
            /\ f[lower][next].points \cap f[upper][next].points = {}
        BY <3>2, <3>3 DEF NodeFacts
      <4> DEFINE a == f[lower][next]  b == f[upper][next]
      <4> HIDE DEF B, f, lower, a, b
      <4>5. /\ f[S][d].points = S \cap present /\ f[S][d].box = BoxOf(B)
            /\ f[S][d].children = <<a, b>>
        BY <4>1 DEF a, b
      <4>6. a \in TreeNodes(points) /\ b \in TreeNodes(points)
        BY <4>3 DEF a, b
      <4>7. a.points \cup b.points = S \cap present /\ a.points \cap b.points = {}
        BY <4>4 DEF a, b
      <4> QED
        BY <4>2, <4>5, <4>6, <4>7 DEF NodeFacts, Splits
    <3> QED
      BY <3>4, <3>5, <3>6
  <2> QED
    BY <2>5, <2>6
<1>2. \A S \in SUBSET built : S \in F
  <2> HIDE DEF F
  <2> QED
    BY <1>0, <1>1, SubsetInduction
<1> QED
  BY <1>2

\* The children of a node come from two smaller sets.
FromSmaller(f, S, children) ==
  children # <<>> =>
    \E A, B \in SUBSET S, e \in Dims :
      /\ A # {} /\ Cardinality(A) < Cardinality(S)
      /\ B # {} /\ Cardinality(B) < Cardinality(S)
      /\ children = <<f[A][e], f[B][e]>>

LEMMA NodesShrink ==
  ASSUME NEW built, IsFiniteSet(built), \A p \in built : IsPoint(p),
         NEW present, NEW tight
  PROVE  \A S \in SUBSET built : S # {} =>
           \A d \in Dims : FromSmaller(Nodes(built, present, tight), S,
                                       Nodes(built, present, tight)[S][d].children)
<1> DEFINE f == Nodes(built, present, tight)
           F == {S \in SUBSET built : S # {} =>
                   \A d \in Dims : FromSmaller(f, S, f[S][d].children)}
<1>1. ASSUME NEW S \in SUBSET built,
             \A T \in SUBSET built : Cardinality(T) < Cardinality(S) => T \in F
      PROVE  S \in F
  <2> SUFFICES ASSUME S # {}, NEW d \in Dims
               PROVE  FromSmaller(f, S, f[S][d].children)
    OBVIOUS
  <2> DEFINE lower == LowerHalf(S, d)  upper == S \ lower  next == (d % DIM) + 1
             keepsBoth == lower \cap present # {} /\ upper \cap present # {}
  <2>1. f[S][d] = NodeOf(f, built, present, tight, S, d)
    BY NodesAre
  <2>2. IsFiniteSet(S) /\ Cardinality(S) \in Nat /\ \A p \in S : IsPoint(p)
    BY FS_Subset, FS_CardinalityType
  <2>3. next \in Dims
    BY NextIn DEF Next1
  <2>4. CASE Cardinality(S) <= LEAF_SIZE
    <3>1. f[S][d].children = <<>>
      BY <2>1, <2>4 DEF NodeOf
    <3> HIDE DEF f
    <3> QED
      BY <3>1 DEF FromSmaller
  <2>5. CASE ~(Cardinality(S) <= LEAF_SIZE)
    <3>1. /\ lower \in SUBSET S /\ lower # {} /\ Cardinality(lower) < Cardinality(S)
          /\ upper \in SUBSET S /\ upper # {} /\ Cardinality(upper) < Cardinality(S)
      <4>1. Cardinality(S) > 1
        BY <2>2, <2>5, LeafSizeAssumption
      <4> QED
        BY <2>2, <4>1, HalvesAreSmaller DEF IsPoint
    <3>2. ASSUME NEW T \in SUBSET S, T # {}, Cardinality(T) < Cardinality(S),
                 f[S][d] = f[T][next]
          PROVE  FromSmaller(f, S, f[S][d].children)
      <4>1. T \in F
        <5> HIDE DEF F
        <5> QED
          BY <1>1, <3>2
      <4>2. FromSmaller(f, T, f[S][d].children)
        BY <2>3, <3>2, <4>1
      <4>3. \A A \in SUBSET T : Cardinality(A) < Cardinality(T) =>
              A \in SUBSET S /\ Cardinality(A) < Cardinality(S)
        BY <2>2, <3>2, FS_Subset, FS_CardinalityType
      <4> HIDE DEF f
      <4> QED
        BY <4>2, <4>3 DEF FromSmaller
    <3>3. CASE S # built /\ ~keepsBoth /\ upper \cap present # {}
      <4>1. f[S][d] = f[upper][next]
        BY <2>1, <2>5, <3>3 DEF NodeOf
      <4> QED
        BY <3>1, <3>2, <4>1
    <3>4. CASE S # built /\ ~keepsBoth /\ ~(upper \cap present # {}) /\ lower \cap present # {}
      <4>1. f[S][d] = f[lower][next]
        BY <2>1, <2>5, <3>4 DEF NodeOf
      <4> QED
        BY <3>1, <3>2, <4>1
    <3>5. CASE /\ ~(S # built /\ ~keepsBoth /\ upper \cap present # {})
               /\ ~(S # built /\ ~keepsBoth /\ ~(upper \cap present # {})
                                             /\ lower \cap present # {})
      <4> DEFINE pair == <<f[lower][next], f[upper][next]>>
                 inner == [points |-> S \cap present,
                           box |-> BoxOf(IF tight /\ keepsBoth THEN S \cap present ELSE S),
                           split_dimension |-> d,
                           split_value |-> Min({p[d] : p \in upper}),
                           children |-> pair]
      <4> HIDE DEF f
      <4>1. NodeOf(f, built, present, tight, S, d) = inner
        BY <2>5, <3>5 DEF NodeOf
      <4>2. inner.children = pair
        <5> HIDE DEF pair
        <5> QED
          OBVIOUS
      <4>3. f[S][d].children = pair
        <5> HIDE DEF pair, inner
        <5> QED
          BY <2>1, <4>1, <4>2
      <4> HIDE DEF lower, upper
      <4> QED
        BY <2>3, <3>1, <4>3 DEF FromSmaller
    <3> QED
      BY <3>3, <3>4, <3>5
  <2> QED
    BY <2>4, <2>5
<1>2. \A S \in SUBSET built : S \in F
  <2> HIDE DEF F
  <2> QED
    BY <1>1, SubsetInduction
<1> QED
  BY <1>2

\* What a search may rely on, at any node
LEMMA NodesAreSound ==
  ASSUME NEW points, IsFiniteSet(points), \A p \in points : IsPoint(p),
         NEW n \in TreeNodes(points)
  PROVE  n.points \in SUBSET points /\ BoxHolds(n.box, n.points) /\ Splits(n, points)
<1>0. PICK t \in (SUBSET points) \X (SUBSET points) \X BOOLEAN :
           n \in NodesOfTree(t[1], t[2], t[3])
  BY DEF TreeNodes
<1>1. PICK built \in SUBSET points, present \in SUBSET points, tight \in BOOLEAN :
           n \in NodesOfTree(built, present, tight)
  BY <1>0
<1>2. PICK S \in (SUBSET built) \ {{}}, d \in Dims :
           n = Nodes(built, present, tight)[S][d]
  BY <1>1 DEF NodesOfTree
<1>3. NodeFacts(n, S \cap present, points)
  BY <1>2, NodesHold
<1> QED
  BY <1>3 DEF NodeFacts

LEMMA TreesAreNodes ==
  ASSUME NEW points, IsFiniteSet(points), \A p \in points : IsPoint(p),
         NEW built \in (SUBSET points) \ {{}}, NEW present \in SUBSET points,
         NEW tight \in BOOLEAN
  PROVE  /\ Tree(built, present, tight) \in TreeNodes(points)
         /\ Tree(built, present, tight).points = built \cap present
<1>1. 1 \in Dims
  BY DimAssumption DEF Dims
<1>2. NodeFacts(Nodes(built, present, tight)[built][1], built \cap present, points)
  BY <1>1, NodesHold
<1> QED
  BY <1>1, <1>2, TreeNodesAre DEF Tree, NodeFacts

-----------------------------------------------------------------------------
(* Buffers *)

\* The distances of the points, for one query point
CostsAre(q, points) == \A p \in points : Cost(q, p) \in Int

\* At least k of E are within c.
Within(q, E, c) ==
  \E K \in SUBSET E : Cardinality(K) = k /\ \A p \in K : Cost(q, p) <= c

\* A buffer as keepK leaves it
IsFull(q, b) == b.cached /\ ptr(b) = k /\ b.kth \in Farthest(q, b.elems)

BufferInv(q, b) ==
  /\ ptr(b) < 2 * k
  /\ b.cached => b.elems = {} \/ IsFull(q, b)

LEMMA WithinMore ==
  ASSUME NEW q, NEW E, NEW F, E \subseteq F, NEW c, Within(q, E, c)
  PROVE  Within(q, F, c)
BY DEF Within

\* A subset of the k that are left, and of the points of A, is as near as one
\* before.
LEMMA WithinKept ==
  ASSUME NEW q, NEW E, NEW A, CostsAre(q, E \cup A), NEW N \in KNearest(q, E),
         NEW c \in Int, Within(q, E \cup A, c)
  PROVE  Within(q, N \cup A, c)
<1>1. N \in SUBSET E /\ Cardinality(N) = k /\ \A p \in N, o \in E \ N : Cost(q, p) <= Cost(q, o)
  BY DEF KNearest, kSubset
<1>2. PICK K \in SUBSET (E \cup A) : Cardinality(K) = k /\ \A p \in K : Cost(q, p) <= c
  BY DEF Within
<1>3. CASE K \subseteq N \cup A
  BY <1>2, <1>3 DEF Within
<1>4. CASE ~(K \subseteq N \cup A)
  <2>1. PICK o \in K : o \in E \ N
    BY <1>4
  <2>2. \A p \in N : Cost(q, p) <= c
    BY <1>1, <1>2, <2>1 DEF CostsAre
  <2> QED
    BY <1>1, <2>2 DEF Within
<1> QED
  BY <1>3, <1>4

\* The k that are left are as near as any point dropped.
LEMMA WithinDropped ==
  ASSUME NEW q, NEW E, NEW N \in KNearest(q, E), NEW o \in E \ N
  PROVE  Within(q, N, Cost(q, o))
BY DEF KNearest, kSubset, Within

\* Where there are just k, all of them are as near as that.
LEMMA WithinAll ==
  ASSUME NEW q, NEW E, IsFiniteSet(E), Cardinality(E) = k, NEW c, Within(q, E, c)
  PROVE  \A p \in E : Cost(q, p) <= c
<1>1. PICK K \in SUBSET E : Cardinality(K) = k /\ \A p \in K : Cost(q, p) <= c
  BY DEF Within
<1>2. K = E
  BY <1>1, FS_Subset
<1> QED
  BY <1>1, <1>2

\* With k points or more, one of them is that far.
LEMMA WithinSize ==
  ASSUME NEW q, NEW E, IsFiniteSet(E), NEW c, Within(q, E, c)
  PROVE  Cardinality(E) >= k
<1>1. PICK K \in SUBSET E : Cardinality(K) = k
  BY DEF Within
<1>2. Cardinality(K) <= Cardinality(E)
  BY FS_Subset
<1> QED
  BY <1>1, <1>2, FS_CardinalityType, kAssumption

LEMMA SizeWithin ==
  ASSUME NEW q, NEW E, IsFiniteSet(E), Cardinality(E) = k, NEW c, \A p \in E : Cost(q, p) <= c
  PROVE  Within(q, E, c)
BY DEF Within

LEMMA KeepKIs ==
  ASSUME NEW points, IsFiniteSet(points), NEW q, CostsAre(q, points),
         NEW b \in Buffers(points), HasK(b), b.cached => IsFull(q, b),
         NEW c \in KeepK(q, b)
  PROVE  c \in Buffers(points) /\ IsFull(q, c) /\ c.elems \in KNearest(q, b.elems)
<1>0. b.elems \in SUBSET points /\ IsFiniteSet(b.elems) /\ b.cached \in BOOLEAN
  BY FS_Subset DEF Buffers
<1>1. CASE b.cached
  <2>1. c = b /\ IsFull(q, b)
    BY <1>1 DEF KeepK
  <2>2. Cardinality(b.elems) = k
    BY <2>1 DEF IsFull, ptr
  <2>3. b.elems \in KNearest(q, b.elems)
    BY <2>2 DEF KNearest, kSubset
  <2> QED
    BY <2>1, <2>3
<1>2. CASE ~b.cached
  <2>1. PICK N \in KNearest(q, b.elems) :
          c \in {[elems |-> N, kth |-> x, cached |-> TRUE] : x \in Farthest(q, N)}
    BY <1>2 DEF KeepK
  <2>2. PICK x \in Farthest(q, N) : c = [elems |-> N, kth |-> x, cached |-> TRUE]
    BY <2>1
  <2>3. N \in SUBSET b.elems /\ Cardinality(N) = k
    BY DEF KNearest, kSubset
  <2>4. x \in N
    BY DEF Farthest
  <2> QED
    BY <1>0, <2>2, <2>3, <2>4 DEF Buffers, IsFull, ptr
<1> QED
  BY <1>0, <1>1, <1>2

LEMMA InsertIs ==
  ASSUME NEW points, IsFiniteSet(points), NEW q, CostsAre(q, points),
         NEW b \in Buffers(points), ptr(b) < 2 * k, NEW p \in points, p \notin b.elems,
         NEW c \in Insert(q, b, p)
  PROVE  /\ c \in Buffers(points)
         /\ \/ ptr(b) + 1 < 2 * k /\ c.elems = b.elems \cup {p} /\ ~c.cached
            \/ ptr(b) + 1 = 2 * k /\ IsFull(q, c) /\ c.elems \in KNearest(q, b.elems \cup {p})
<1> DEFINE grown == Put(b, p)
<1>1. b.elems \in SUBSET points /\ IsFiniteSet(b.elems) /\ ptr(b) \in Nat
  BY FS_Subset, FS_CardinalityType DEF Buffers, ptr
<1>2. grown \in Buffers(points) /\ grown.elems = b.elems \cup {p} /\ ~grown.cached
  BY <1>1 DEF Put, Buffers
<1>3. ptr(grown) = ptr(b) + 1
  BY <1>1, <1>2, FS_AddElement DEF ptr
<1> HIDE DEF grown
<1>4. c \in IF ptr(grown) >= 2 * k THEN KeepK(q, grown) ELSE {grown}
  BY DEF Insert, grown
<1>5. CASE ptr(b) + 1 < 2 * k
  <2>1. c = grown
    BY <1>1, <1>3, <1>4, <1>5, kAssumption
  <2> QED
    BY <1>2, <1>5, <2>1
<1>6. CASE ~(ptr(b) + 1 < 2 * k)
  <2>1. ptr(b) + 1 = 2 * k
    BY <1>1, <1>6, kAssumption
  <2>2. HasK(grown)
    BY <1>3, <2>1, kAssumption DEF HasK
  <2>3. c \in KeepK(q, grown)
    BY <1>3, <1>4, <2>1, kAssumption
  <2>4. c \in Buffers(points) /\ IsFull(q, c) /\ c.elems \in KNearest(q, grown.elems)
    BY <1>2, <2>2, <2>3, KeepKIs
  <2> QED
    BY <1>2, <2>1, <2>4
<1> QED
  BY <1>5, <1>6

\* What is read from a buffer of k entries are these.
LEMMA FirstKIs ==
  ASSUME NEW points, IsFiniteSet(points), NEW q, NEW b \in Buffers(points), IsFull(q, b)
  PROVE  FirstK(b) = {b.elems}
<1>1. b.elems \in SUBSET points /\ IsFiniteSet(b.elems) /\ Cardinality(b.elems) = k
  BY FS_Subset DEF Buffers, IsFull, ptr
<1>2. b.kth \in b.elems
  BY DEF IsFull, Farthest
<1>3. \A N \in SUBSET b.elems : Cardinality(N) = k => N = b.elems
  BY <1>1, FS_Subset
<1> QED
  BY <1>1, <1>2, <1>3 DEF FirstK, kSubset

=============================================================================
