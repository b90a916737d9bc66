----------------------------- MODULE DualKnn_proofs -----------------------------
(***************************************************************************)
(* The dual-tree query is exact, for any trees, query points, k, dimension *)
(* and size of leaves, and for any order of the tasks: in the three modes, *)
(* but where ATOMIC_LEAF searches trees in parallel.                       *)
(***************************************************************************)
EXTENDS DualKnn, KnnBuffer_proofs

-----------------------------------------------------------------------------
(* Paths *)

Paths == Seq(1..2)

\* Neither path leads on from the other.
Parted(a, b) == ~IsPrefix(a, b) /\ ~IsPrefix(b, a)

LEMMA PrefixIs ==
  ASSUME NEW a \in Paths, NEW b \in Paths
  PROVE  IsPrefix(a, b) <=> Len(a) <= Len(b) /\ \A i \in 1..Len(a) : a[i] = b[i]
<1>1. Len(a) \in Nat /\ Len(b) \in Nat /\ DOMAIN a = 1..Len(a) /\ DOMAIN b = 1..Len(b)
  BY DEF Paths
<1>2. ASSUME Len(a) <= Len(b)
      PROVE  SubSeq(a, 1, Len(a)) = SubSeq(b, 1, Len(a)) <=> \A i \in 1..Len(a) : a[i] = b[i]
  <2> DEFINE s == SubSeq(a, 1, Len(a))  t == SubSeq(b, 1, Len(a))
  <2>1. s \in Seq(1..2) /\ Len(s) = Len(a) /\ \A i \in 1..Len(a) : s[i] = a[i]
    BY DEF Paths
  <2>2. t \in Seq(1..2) /\ Len(t) = Len(a) /\ \A i \in 1..Len(a) : t[i] = b[i]
    BY <1>2 DEF Paths
  <2>3. s = t <=> \A i \in 1..Len(a) : s[i] = t[i]
    <3> HIDE DEF s, t
    <3> QED
      BY <2>1, <2>2
  <2> HIDE DEF s, t
  <2> QED
    BY <2>1, <2>2, <2>3 DEF s, t
<1> QED
  BY <1>1, <1>2 DEF IsPrefix

LEMMA PrefixesOrder ==
  /\ <<>> \in Paths /\ \A a \in Paths : IsPrefix(<<>>, a)
  /\ \A a \in Paths : IsPrefix(a, a)
  /\ \A a, b \in Paths : IsPrefix(a, b) /\ IsPrefix(b, a) => a = b
  /\ \A a, b, c \in Paths : IsPrefix(a, b) /\ IsPrefix(b, c) => IsPrefix(a, c)
  /\ \A a, b, c \in Paths : IsPrefix(a, c) /\ IsPrefix(b, c) => IsPrefix(a, b) \/ IsPrefix(b, a)
<1>1. <<>> \in Paths /\ \A a \in Paths : IsPrefix(<<>>, a)
  <2>1. <<>> \in Seq(1..2) /\ Len(<<>>) = 0
    OBVIOUS
  <2>2. PICK e \in Paths : e = <<>> /\ Len(e) = 0
    BY <2>1 DEF Paths
  <2>3. ASSUME NEW a \in Paths  PROVE IsPrefix(e, a)
    <3>1. Len(a) \in Nat
      BY DEF Paths
    <3>2. Len(e) <= Len(a) /\ \A i \in 1..Len(e) : e[i] = a[i]
      BY <2>2, <3>1
    <3> QED
      BY <3>2, PrefixIs
  <2> QED
    BY <2>2, <2>3
<1>2. \A a \in Paths : IsPrefix(a, a)
  BY PrefixIs DEF Paths
<1>3. ASSUME NEW a \in Paths, NEW b \in Paths, IsPrefix(a, b), IsPrefix(b, a)  PROVE a = b
  BY <1>3, PrefixIs DEF Paths
<1>4. ASSUME NEW a \in Paths, NEW b \in Paths, NEW c \in Paths, IsPrefix(a, b), IsPrefix(b, c)
      PROVE  IsPrefix(a, c)
  BY <1>4, PrefixIs DEF Paths
<1>5. ASSUME NEW a \in Paths, NEW b \in Paths, NEW c \in Paths, IsPrefix(a, c), IsPrefix(b, c)
      PROVE  IsPrefix(a, b) \/ IsPrefix(b, a)
  BY <1>5, PrefixIs DEF Paths
<1> QED
  BY <1>1, <1>2, <1>3, <1>4, <1>5

LEMMA PrefixAppend ==
  ASSUME NEW a \in Paths, NEW i \in 1..2
  PROVE  /\ Append(a, i) \in Paths /\ IsPrefix(a, Append(a, i))
         /\ ~IsPrefix(Append(a, i), a) /\ Append(a, i) # a
         /\ \A j \in 1..2 : i # j => Append(a, i) # Append(a, j)
                                     /\ Parted(Append(a, i), Append(a, j))
<1>1. \A j \in 1..2 : /\ Append(a, j) \in Paths /\ Len(Append(a, j)) = Len(a) + 1
                      /\ Append(a, j)[Len(a) + 1] = j
                      /\ \A m \in 1..Len(a) : Append(a, j)[m] = a[m]
  BY DEF Paths
<1>2. Len(a) \in Nat
  BY DEF Paths
<1>3. PICK b \in Paths : /\ b = Append(a, i)
                        /\ Len(b) = Len(a) + 1 /\ b[Len(a) + 1] = i
                        /\ \A m \in 1..Len(a) : b[m] = a[m]
  BY <1>1
<1>4. IsPrefix(a, b) /\ ~IsPrefix(b, a) /\ b # a
  <2>1. Len(a) <= Len(b) /\ \A m \in 1..Len(a) : a[m] = b[m]
    BY <1>2, <1>3
  <2>2. ~(Len(b) <= Len(a))
    BY <1>2, <1>3
  <2>3. IsPrefix(a, b)
    BY <2>1, PrefixIs
  <2>4. ~IsPrefix(b, a)
    BY <2>2, PrefixIs
  <2> QED
    BY <2>3, <2>4
<1>5. ASSUME NEW j \in 1..2, i # j
      PROVE  b # Append(a, j) /\ Parted(b, Append(a, j))
  <2>1. PICK c \in Paths : c = Append(a, j) /\ Len(c) = Len(a) + 1 /\ c[Len(a) + 1] = j
    BY <1>1
  <2>2. Len(a) + 1 \in 1..Len(b) /\ Len(a) + 1 \in 1..Len(c) /\ b[Len(a) + 1] # c[Len(a) + 1]
    BY <1>2, <1>3, <1>5, <2>1
  <2>3. ~IsPrefix(b, c)
    BY <2>2, PrefixIs
  <2>4. ~IsPrefix(c, b)
    BY <2>2, PrefixIs
  <2> QED
    BY <2>1, <2>2, <2>3, <2>4 DEF Parted
<1> QED
  BY <1>3, <1>4, <1>5

\* What parts two paths parts those that lead on from them.
LEMMA PartedOn ==
  ASSUME NEW a \in Paths, NEW b \in Paths, NEW c \in Paths, NEW d \in Paths,
         Parted(a, b), IsPrefix(a, c), IsPrefix(b, d)
  PROVE  Parted(c, d)
<1>1. ASSUME IsPrefix(c, d)  PROVE FALSE
  <2>1. IsPrefix(a, d)
    BY <1>1, PrefixesOrder
  <2> QED
    BY <2>1, PrefixesOrder DEF Parted
<1>2. ASSUME IsPrefix(d, c)  PROVE FALSE
  <2>1. IsPrefix(b, c)
    BY <1>2, PrefixesOrder
  <2> QED
    BY <2>1, PrefixesOrder DEF Parted
<1> QED
  BY <1>1, <1>2 DEF Parted

-----------------------------------------------------------------------------
(* Nodes by their paths *)

ShortPaths(n) == BoundedSeq(1..2, n)

LEMMA ShortPathsAre ==
  ASSUME NEW n \in Nat
  PROVE  /\ <<>> \in ShortPaths(n)
         /\ \A a \in ShortPaths(n) : a \in Paths /\ Len(a) \in 0..n
         /\ \A a \in ShortPaths(n) : a # <<>> =>
              /\ Len(a) \in 1..n /\ Last(a) \in 1..2
              /\ Front(a) \in ShortPaths(n) /\ Len(Front(a)) = Len(a) - 1
         /\ \A a \in ShortPaths(n), i \in 1..2 : Len(a) < n =>
              /\ Append(a, i) \in ShortPaths(n) /\ Append(a, i) # <<>>
              /\ Front(Append(a, i)) = a /\ Last(Append(a, i)) = i
<1>1. \A a : a \in ShortPaths(n) <=> a \in Paths /\ Len(a) <= n
  <2>1. ASSUME NEW a \in ShortPaths(n)  PROVE a \in Paths /\ Len(a) <= n
    <3>1. PICK m \in 0..n : a \in [1..m -> 1..2]
      BY DEF ShortPaths, BoundedSeq, SeqOf
    <3> QED
      BY <3>1 DEF Paths
  <2>2. ASSUME NEW a \in Paths, Len(a) <= n  PROVE a \in ShortPaths(n)
    <3>1. Len(a) \in 0..n /\ a \in [1..Len(a) -> 1..2]
      BY <2>2 DEF Paths
    <3> QED
      BY <3>1 DEF ShortPaths, BoundedSeq, SeqOf
  <2> QED
    BY <2>1, <2>2
<1>2. <<>> \in Paths /\ Len(<<>>) = 0
  BY PrefixesOrder
<1>3. ASSUME NEW a \in Paths, Len(a) <= n, a # <<>>
      PROVE  /\ Len(a) \in 1..n /\ Last(a) \in 1..2
             /\ Front(a) \in Paths /\ Len(Front(a)) = Len(a) - 1
  BY <1>3 DEF Paths, Last, Front
<1>4. ASSUME NEW a \in Paths, NEW i \in 1..2
      PROVE  /\ Append(a, i) \in Paths /\ Append(a, i) # <<>> /\ Len(Append(a, i)) = Len(a) + 1
             /\ Front(Append(a, i)) = a /\ Last(Append(a, i)) = i
  <2>0. Append(a, i) \in Seq(1..2) /\ Len(Append(a, i)) = Len(a) + 1 /\ Len(a) \in Nat
    BY DEF Paths
  <2>1. Append(a, i) \in Paths /\ Len(Append(a, i)) = Len(a) + 1 /\ Append(a, i) # <<>>
    <3>1. PICK b \in Paths : b = Append(a, i) /\ Len(b) = Len(a) + 1
      BY <2>0 DEF Paths
    <3>2. PICK e \in Paths : e = <<>> /\ Len(e) = 0
      BY <1>2
    <3>3. Len(b) # Len(e)
      BY <2>0, <3>1, <3>2
    <3> QED
      BY <3>1, <3>2, <3>3
  <2>2. Last(Append(a, i)) = i
    BY <2>1 DEF Last, Paths
  <2>3. Front(Append(a, i)) = a
    BY <2>1 DEF Front, Paths
  <2> QED
    BY <2>1, <2>2, <2>3
<1>5. \A a \in Paths : Len(a) \in Nat
  BY DEF Paths
<1>6. <<>> \in ShortPaths(n) /\ \A a \in ShortPaths(n) : a \in Paths /\ Len(a) \in 0..n
  BY <1>1, <1>2, <1>5
<1>7. ASSUME NEW a \in ShortPaths(n), a # <<>>
      PROVE  /\ Len(a) \in 1..n /\ Last(a) \in 1..2
             /\ Front(a) \in ShortPaths(n) /\ Len(Front(a)) = Len(a) - 1
  BY <1>1, <1>3, <1>7
<1>8. ASSUME NEW a \in ShortPaths(n), NEW i \in 1..2, Len(a) < n
      PROVE  /\ Append(a, i) \in ShortPaths(n) /\ Append(a, i) # <<>>
             /\ Front(Append(a, i)) = a /\ Last(Append(a, i)) = i
  <2>1. a \in Paths /\ Len(a) \in Nat
    BY <1>1, <1>5
  <2>2. PICK b \in Paths : b = Append(a, i) /\ Len(b) = Len(a) + 1
    BY <1>4, <2>1
  <2>3. b \in ShortPaths(n)
    <3>1. Len(b) <= n
      BY <1>8, <2>1, <2>2
    <3> QED
      BY <1>1, <3>1
  <2> QED
    BY <1>4, <2>1, <2>2, <2>3
<1> QED
  BY <1>6, <1>7, <1>8

Children(n) == DOMAIN n.children

NodeStep(f, t, a) ==
  IF a = <<>> THEN TreeOf(t)
  ELSE IF Last(a) \in Children(f[Front(a)]) THEN f[Front(a)].children[Last(a)] ELSE NoNode

PathGraph(f, t) == f = [a \in ShortPaths(Cardinality(t.built)) |-> NodeStep(f, t, a)]

LEMMA PathGraphExists ==
  ASSUME NEW t, Cardinality(t.built) \in Nat
  PROVE  \E f : PathGraph(f, t)
<1> DEFINE max == Cardinality(t.built)
           Upto(m) == {a \in ShortPaths(max) : Len(a) <= m}
           N == {m \in Nat : \E f : \A a \in Upto(m) : f[a] = NodeStep(f, t, a)}
<1> HIDE DEF max
<1>0. max \in Nat
  BY DEF max
<1>1. 0 \in N
  <2> DEFINE f == [a \in ShortPaths(max) |-> TreeOf(t)]
  <2>1. \A a \in Upto(0) : a = <<>> /\ a \in ShortPaths(max)
    BY <1>0, ShortPathsAre
  <2>2. \A a \in Upto(0) : f[a] = NodeStep(f, t, a)
    BY <2>1 DEF NodeStep
  <2> QED
    BY <2>2
<1>2. ASSUME NEW m \in Nat, m \in N  PROVE m + 1 \in N
  <2>1. PICK f : \A a \in Upto(m) : f[a] = NodeStep(f, t, a)
    BY <1>2
  <2> DEFINE g == [a \in ShortPaths(max) |-> NodeStep(f, t, a)]
  <2>2. \A a \in Upto(m) : g[a] = f[a]
    BY <2>1
  <2>3. ASSUME NEW a \in Upto(m + 1)  PROVE g[a] = NodeStep(g, t, a)
    <3>1. a # <<>> => Front(a) \in Upto(m)
      BY <1>0, ShortPathsAre
    <3>2. g[a] = NodeStep(f, t, a)
      OBVIOUS
    <3> HIDE DEF g
    <3> QED
      BY <2>2, <3>1, <3>2 DEF NodeStep
  <2> HIDE DEF g
  <2> QED
    BY <2>3
<1>3. max \in N
  <2> HIDE DEF N
  <2> QED
    BY <1>0, <1>1, <1>2, NatSetInduction
<1>4. PICK f : \A a \in Upto(max) : f[a] = NodeStep(f, t, a)
  BY <1>3
<1> DEFINE g == [a \in ShortPaths(max) |-> f[a]]
<1>5. \A a \in ShortPaths(max) : a \in Upto(max) /\ (a # <<>> => Front(a) \in ShortPaths(max))
  BY <1>0, ShortPathsAre
<1>6. \A a \in ShortPaths(max) : g[a] = NodeStep(g, t, a)
  BY <1>4, <1>5 DEF NodeStep
<1>7. g = [a \in ShortPaths(max) |-> NodeStep(g, t, a)]
  BY <1>6
<1> QED
  BY <1>7 DEF PathGraph, max

There(f, t) ==
  {a \in ShortPaths(Cardinality(t.built)) : a = <<>> \/ Last(a) \in Children(f[Front(a)])}

LEMMA NodesByPathAre ==
  ASSUME NEW t, Cardinality(t.built) \in Nat
  PROVE  \E f : /\ PathGraph(f, t)
                /\ NodesByPath(t) =
                     [a \in There(f, t) |-> [points |-> f[a].points, box |-> f[a].box,
                                             degree |-> Len(f[a].children)]]
<1> DEFINE f == CHOOSE f : PathGraph(f, t)
<1>1. PathGraph(f, t)
  <2>1. \E g : PathGraph(g, t)
    BY PathGraphExists
  <2> QED
    BY <2>1
<1>2. NodesByPath(t) = [a \in There(f, t) |-> [points |-> f[a].points, box |-> f[a].box,
                                               degree |-> Len(f[a].children)]]
  BY DEF NodesByPath, There, PathGraph, NodeStep, ShortPaths, Children
<1> HIDE DEF f
<1> QED
  BY <1>1, <1>2

\* A tree as the assumptions describe it
Described(t, points) ==
  /\ t.built \in SUBSET points /\ t.present \in SUBSET t.built
  /\ t.tight \in BOOLEAN /\ t.half \in BOOLEAN
  /\ t.present # {}
  /\ t.half => /\ Cardinality(t.built) > LEAF_SIZE
               /\ \/ LowerHalf(t.built, 1) \cap t.present = {}
                  \/ t.present \subseteq LowerHalf(t.built, 1)

ArePoints(points) == IsFiniteSet(points) /\ \A p \in points : IsPoint(p)

AllNodes(t) == Nodes(t.built, t.present, t.half \/ t.tight)

\* The nodes over at most m points
NodesUpTo(t, m) ==
  {AllNodes(t)[S][d] : S \in {S \in SUBSET t.built : S # {} /\ Cardinality(S) <= m}, d \in Dims}

\* A node with its children among nodes
HasChildren(n, nodes) ==
  /\ n.children \in Seq(nodes) /\ Len(n.children) \in 0..2
  /\ n.children # <<>> =>
       n.points = UNION {n.children[i].points : i \in 1..Len(n.children)}

LEMMA TwoChildren ==
  ASSUME NEW n, NEW nodes, NEW a \in nodes, NEW b \in nodes,
         n.children = <<a, b>>, n.points = a.points \cup b.points
  PROVE  HasChildren(n, nodes) /\ Len(n.children) = 2
<1>1. n.children \in Seq(nodes) /\ Len(n.children) = 2
  OBVIOUS
<1>2. {n.children[i].points : i \in 1..2} = {a.points, b.points}
  OBVIOUS
<1> QED
  BY <1>1, <1>2 DEF HasChildren

LEMMA UpToAre ==
  ASSUME NEW points, ArePoints(points), NEW t, Described(t, points),
         NEW m \in Int, NEW n \in NodesUpTo(t, m)
  PROVE  /\ n.points \in SUBSET t.present /\ BoxHolds(n.box, n.points)
         /\ HasChildren(n, NodesUpTo(t, m - 1)) /\ Len(n.children) # 1
         /\ m >= 1 /\ (n.children # <<>> => m >= 2)
         /\ t.built = t.present => n.points # {}
<1> DEFINE f == AllNodes(t)
<1>0. /\ t.built \in SUBSET points /\ t.present \in SUBSET points
      /\ (t.half \/ t.tight) \in BOOLEAN /\ t.present \subseteq t.built
      /\ IsFiniteSet(points) /\ \A p \in points : IsPoint(p)
  BY DEF Described, ArePoints
<1>1. PICK S \in SUBSET t.built, d \in Dims :
           S # {} /\ Cardinality(S) <= m /\ n = f[S][d]
  BY DEF NodesUpTo
<1>2. NodeFacts(n, S \cap t.present, points)
  BY <1>0, <1>1, NodesHold DEF AllNodes
<1>3. IsFiniteSet(t.built) /\ IsFiniteSet(S) /\ \A p \in t.built : IsPoint(p)
  BY <1>0, FS_Subset
<1>4. FromSmaller(f, S, n.children)
  BY <1>1, <1>3, NodesShrink DEF AllNodes
<1>5. Cardinality(S) \in Nat /\ Cardinality(S) # 0
  BY <1>1, <1>3, FS_CardinalityType, FS_EmptySet
<1>6. /\ n.points = S \cap t.present /\ BoxHolds(n.box, n.points)
      /\ Splits(n, points)
  BY <1>2 DEF NodeFacts
<1>7. CASE n.children = <<>>
  <2>1. n.children \in Seq(NodesUpTo(t, m - 1)) /\ Len(n.children) = 0
    BY <1>7
  <2> QED
    BY <1>1, <1>5, <1>6, <1>7, <2>1 DEF HasChildren
<1>8. CASE n.children # <<>>
  <2>1. PICK A \in SUBSET S, B \in SUBSET S, e \in Dims :
          /\ A # {} /\ Cardinality(A) < Cardinality(S)
          /\ B # {} /\ Cardinality(B) < Cardinality(S)
          /\ n.children = <<f[A][e], f[B][e]>>
    BY <1>4, <1>8 DEF FromSmaller
  <2>2. /\ Cardinality(A) \in Nat /\ Cardinality(B) \in Nat /\ Cardinality(A) # 0
        /\ A \in SUBSET t.built /\ B \in SUBSET t.built
    <3>1. IsFiniteSet(A) /\ IsFiniteSet(B)
      BY <1>3, FS_Subset
    <3> QED
      BY <2>1, <3>1, FS_CardinalityType, FS_EmptySet
  <2>3. /\ Cardinality(A) <= m - 1 /\ Cardinality(B) <= m - 1 /\ m >= 2
    BY <1>1, <1>5, <2>1, <2>2
  <2> DEFINE a == f[A][e]  b == f[B][e]
  <2>4. a \in NodesUpTo(t, m - 1) /\ b \in NodesUpTo(t, m - 1)
    <3> HIDE DEF f
    <3> QED
      BY <2>1, <2>2, <2>3 DEF NodesUpTo, f
  <2> HIDE DEF f, a, b
  <2>5. n.children = <<a, b>>
    BY <2>1 DEF a, b
  <2>6. n.points = a.points \cup b.points
    BY <1>6, <1>8, <2>5 DEF Splits
  <2>7. HasChildren(n, NodesUpTo(t, m - 1)) /\ Len(n.children) = 2
    BY <2>4, <2>5, <2>6, TwoChildren
  <2> QED
    BY <1>1, <1>6, <2>3, <2>7
<1> QED
  BY <1>7, <1>8

\* The root, also where half of it has been cut off
LEMMA RootIs ==
  ASSUME NEW points, ArePoints(points), NEW t, Described(t, points)
  PROVE  /\ TreeOf(t).points = t.present /\ BoxHolds(TreeOf(t).box, t.present)
         /\ HasChildren(TreeOf(t), NodesUpTo(t, Cardinality(t.built) - 1))
         /\ TreeOf(t).children # <<>> => Cardinality(t.built) >= 2
         /\ ~t.half => Len(TreeOf(t).children) # 1
<1> DEFINE root == Tree(t.built, t.present, t.half \/ t.tight)
           max == Cardinality(t.built)
<1>0. /\ t.built \in SUBSET points /\ t.present \in SUBSET points
      /\ (t.half \/ t.tight) \in BOOLEAN /\ t.present \subseteq t.built /\ t.built # {}
      /\ IsFiniteSet(points) /\ \A p \in points : IsPoint(p)
  BY DEF Described, ArePoints
<1>1. IsFiniteSet(t.built) /\ max \in Nat /\ \A p \in t.built : IsPoint(p)
  BY <1>0, FS_Subset, FS_CardinalityType
<1>2. root \in NodesUpTo(t, max) /\ root.points = t.present
  <2>1. 1 \in Dims
    BY DimAssumption DEF Dims
  <2>2. root = AllNodes(t)[t.built][1]
    BY DEF Tree, AllNodes
  <2>3. NodeFacts(root, t.built \cap t.present, points)
    BY <1>0, <2>1, <2>2, NodesHold DEF AllNodes
  <2>4. root.points = t.present
    BY <1>0, <2>3 DEF NodeFacts
  <2> HIDE DEF root
  <2> QED
    BY <1>0, <1>1, <2>1, <2>2, <2>4 DEF NodesUpTo
<1> HIDE DEF root
<1>3. /\ BoxHolds(root.box, t.present)
      /\ HasChildren(root, NodesUpTo(t, max - 1)) /\ Len(root.children) # 1
      /\ (root.children # <<>> => max >= 2)
  <2> HIDE DEF max
  <2>1. max \in Int
    BY <1>1
  <2> QED
    BY <1>2, <2>1, UpToAre
<1>4. CASE ~t.half
  <2>1. (t.half \/ t.tight) = t.tight
    BY <1>4 DEF Described
  <2>2. TreeOf(t) = root
    BY <1>4, <2>1 DEF TreeOf, root
  <2> QED
    BY <1>2, <1>3, <1>4, <2>2
<1>5. CASE t.half
  <2>1. PICK tight \in BOOLEAN : tight = TRUE /\ tight = (t.half \/ t.tight)
    BY <1>5 DEF Described
  <2>2. /\ TreeOf(t) = HalfTree(t.built, t.present)
        /\ root = Tree(t.built, t.present, tight)
        /\ root = Tree(t.built, t.present, TRUE)
        /\ AllNodes(t) = Nodes(t.built, t.present, tight)
    BY <1>5, <2>1 DEF TreeOf, root, AllNodes
  <2> DEFINE f == Nodes(t.built, t.present, tight)
             lower == LowerHalf(t.built, 1)  upper == t.built \ lower  next == (1 % DIM) + 1
             a == f[lower][next]  b == f[upper][next]
  <2>3. 1 \in Dims /\ next \in Dims /\ max > LEAF_SIZE
    BY <1>5, NextIn, DimAssumption DEF Dims, Next1, Described
  <2>4. /\ lower \in SUBSET t.built /\ lower # {} /\ Cardinality(lower) < max
        /\ upper \in SUBSET t.built /\ upper # {} /\ Cardinality(upper) < max
    <3>1. max > 1
      BY <1>1, <2>3, LeafSizeAssumption
    <3>2. \A p \in t.built : p[1] \in Int
      BY <1>1, <2>3 DEF IsPoint
    <3> QED
      BY <1>1, <3>1, <3>2, HalvesAreSmaller
  <2>5. root = [points |-> t.built \cap t.present,
                box |-> root.box, split_dimension |-> 1,
                split_value |-> root.split_value, children |-> <<a, b>>]
    <3>1. root = NodeOf(f, t.built, t.present, tight, t.built, 1)
      <4>1. f[t.built][1] = NodeOf(f, t.built, t.present, tight, t.built, 1)
        <5>1. t.built \in SUBSET t.built
          OBVIOUS
        <5> HIDE DEF next, max
        <5> QED
          BY <1>1, <2>3, <5>1, NodesAre
      <4> QED
        BY <2>2, <4>1 DEF Tree
    <3>2. ~(max <= LEAF_SIZE)
      BY <1>1, <2>3, LeafSizeAssumption
    <3> HIDE DEF f
    <3> QED
      BY <3>1, <3>2 DEF NodeOf
  <2>6. a.points = lower \cap t.present /\ b.points = upper \cap t.present
    <3>1. /\ NodeFacts(a, lower \cap t.present, points)
          /\ NodeFacts(b, upper \cap t.present, points)
      BY <1>0, <2>3, <2>4, NodesHold
    <3> QED
      BY <3>1 DEF NodeFacts
  <2>7. a \in NodesUpTo(t, max - 1) /\ b \in NodesUpTo(t, max - 1)
    <3>1. f = AllNodes(t)
      BY <2>2
    <3>2. Cardinality(lower) <= max - 1 /\ Cardinality(upper) <= max - 1
      <4>1. Cardinality(lower) \in Nat /\ Cardinality(upper) \in Nat
        BY <1>1, <2>4, FS_Subset, FS_CardinalityType
      <4> QED
        BY <1>1, <2>4, <4>1
    <3> DEFINE sets == {S \in SUBSET t.built : S # {} /\ Cardinality(S) <= max - 1}
    <3>3. lower \in sets /\ upper \in sets
      <4> HIDE DEF lower, max
      <4> QED
        BY <2>4, <3>2
    <3>4. NodesUpTo(t, max - 1) = {f[S][d] : S \in sets, d \in Dims}
      BY <3>1 DEF NodesUpTo
    <3> HIDE DEF f, lower, upper, next, max, sets
    <3> QED
      BY <2>3, <3>3, <3>4
  <2>8. lower \cap t.present = {} \/ upper \cap t.present = {}
    BY <1>5 DEF Described
  <2>9. t.present = (lower \cap t.present) \cup (upper \cap t.present)
    BY <1>0, <2>4
  <2> DEFINE kept == CHOOSE child \in {a, b} : child.points # {}
  <2>10. kept \in {a, b} /\ kept.points = t.present
    <3>1. t.present # {}
      BY DEF Described
    <3> HIDE DEF lower, a, b
    <3>2. \E child \in {a, b} : child.points # {}
      BY <2>6, <2>9, <3>1
    <3>3. kept \in {a, b} /\ kept.points # {}
      BY <3>2
    <3> HIDE DEF kept
    <3> QED
      BY <2>6, <2>8, <2>9, <3>3
  <2>11. TreeOf(t) = [root EXCEPT !.box = kept.box, !.children = <<kept>>]
    <3> HIDE DEF a, b
    <3>1. root.children[1] = a /\ root.children[2] = b
      BY <2>5
    <3> QED
      BY <2>2, <3>1 DEF HalfTree
  <2>12. kept \in NodesUpTo(t, max - 1)
    BY <2>7, <2>10
  <2>13. BoxHolds(kept.box, kept.points)
    <3>1. max - 1 \in Int
      BY <1>1
    <3> HIDE DEF kept, max
    <3> QED
      BY <2>12, <3>1, UpToAre
  <2> HIDE DEF kept, a, b, lower, f
  <2>14. /\ TreeOf(t).points = t.present /\ TreeOf(t).box = kept.box
         /\ TreeOf(t).children = <<kept>>
    BY <1>0, <2>5, <2>11
  <2>15. HasChildren(TreeOf(t), NodesUpTo(t, max - 1))
    <3>1. <<kept>> \in Seq(NodesUpTo(t, max - 1)) /\ Len(<<kept>>) = 1
      BY <2>12
    <3>2. {<<kept>>[i].points : i \in 1..1} = {kept.points}
      OBVIOUS
    <3> QED
      BY <2>10, <2>14, <3>1, <3>2 DEF HasChildren
  <2>16. max >= 2
    BY <1>1, <2>3, LeafSizeAssumption
  <2> QED
    BY <1>5, <2>10, <2>13, <2>14, <2>15, <2>16
<1> QED
  BY <1>4, <1>5

\* What the nodes of a tree are like, by their paths
Shape(nodes, points) ==
  /\ DOMAIN nodes \in SUBSET Paths /\ <<>> \in DOMAIN nodes
  /\ nodes[<<>>].points \in SUBSET points
  /\ \A a \in DOMAIN nodes :
       /\ nodes[a].points \in SUBSET nodes[<<>>].points /\ BoxHolds(nodes[a].box, nodes[a].points)
       /\ nodes[a].degree \in 0..2
       /\ \A i \in 1..nodes[a].degree : Append(a, i) \in DOMAIN nodes
       /\ nodes[a].degree # 0 =>
            nodes[a].points = UNION {nodes[Append(a, i)].points : i \in 1..nodes[a].degree}

\* No node is empty or has one child.
Full(nodes) == \A a \in DOMAIN nodes : nodes[a].points # {} /\ nodes[a].degree # 1

LEMMA NodesByPathIs ==
  ASSUME NEW points, ArePoints(points), NEW t, Described(t, points)
  PROVE  /\ Shape(NodesByPath(t), points) /\ NodesByPath(t)[<<>>].points = t.present
         /\ ~t.half /\ t.built = t.present => Full(NodesByPath(t))
<1> DEFINE max == Cardinality(t.built)
<1>1. max \in Nat
  <2>1. IsFiniteSet(t.built)
    BY FS_Subset DEF ArePoints, Described
  <2> QED
    BY <2>1, FS_CardinalityType
<1>2. PICK f : /\ PathGraph(f, t)
               /\ NodesByPath(t) =
                    [a \in There(f, t) |-> [points |-> f[a].points, box |-> f[a].box,
                                            degree |-> Len(f[a].children)]]
  BY <1>1, NodesByPathAre
<1> DEFINE T == There(f, t)  N == NodesByPath(t)
<1>3. \A a \in ShortPaths(max) : f[a] = NodeStep(f, t, a)
  BY <1>2 DEF PathGraph
<1>4. <<>> \in T /\ T \in SUBSET ShortPaths(max) /\ T \in SUBSET Paths
  BY <1>1, ShortPathsAre DEF There
<1>5. f[<<>>] = TreeOf(t)
  BY <1>1, <1>3, ShortPathsAre DEF NodeStep
<1>6. ASSUME NEW a \in T, a # <<>>
      PROVE  /\ Front(a) \in T /\ Last(a) \in DOMAIN f[Front(a)].children
             /\ f[a] = f[Front(a)].children[Last(a)]
  <2>1. a \in ShortPaths(max) /\ Front(a) \in ShortPaths(max)
    BY <1>1, <1>4, <1>6, ShortPathsAre
  <2>2. Last(a) \in Children(f[Front(a)])
    BY <1>6 DEF There
  <2>3. f[a] = f[Front(a)].children[Last(a)]
    BY <1>3, <1>6, <2>1, <2>2 DEF NodeStep
  <2>4. ASSUME Front(a) \notin T  PROVE FALSE
    <3>1. Front(a) # <<>> /\ Last(Front(a)) \notin Children(f[Front(Front(a))])
      BY <2>1, <2>4 DEF There
    <3>2. f[Front(a)] = NoNode
      BY <1>3, <2>1, <3>1 DEF NodeStep
    <3>3. Children(f[Front(a)]) = {}
      BY <3>2 DEF Children, NoNode
    <3> QED
      BY <2>2, <3>3
  <2> QED
    BY <2>2, <2>3, <2>4 DEF Children
<1> DEFINE Good(a) ==
             /\ f[a].points \in SUBSET t.present /\ BoxHolds(f[a].box, f[a].points)
             /\ HasChildren(f[a], NodesUpTo(t, max - Len(a) - 1))
             /\ f[a].children # <<>> => Len(a) + 2 <= max
             /\ ~t.half => Len(f[a].children) # 1
             /\ t.built = t.present => f[a].points # {}
           Goods == {m \in Nat : \A a \in T : Len(a) = m => Good(a)}
<1> HIDE DEF max
<1>7. 0 \in Goods
  <2>1. \A a \in Paths : Len(a) = 0 => a = <<>>
    BY DEF Paths
  <2>2. Len(<<>>) = 0
    BY PrefixesOrder
  <2>3. t.present # {} /\ max - 0 - 1 = max - 1
    BY <1>1 DEF Described
  <2>4. Good(<<>>)
    BY <1>1, <1>5, <2>2, <2>3, RootIs DEF max
  <2> HIDE DEF Good
  <2> QED
    BY <1>4, <2>1, <2>4
<1>8. ASSUME NEW m \in Nat, m \in Goods  PROVE m + 1 \in Goods
  <2> SUFFICES ASSUME NEW a \in T, Len(a) = m + 1
               PROVE  Good(a)
    BY DEF Goods
  <2>1. a # <<>>
    BY PrefixesOrder
  <2>2. Len(Front(a)) = m
    BY <1>1, <1>4, <2>1, ShortPathsAre
  <2> DEFINE parent == f[Front(a)]
  <2>3. HasChildren(parent, NodesUpTo(t, max - m - 1))
    BY <1>6, <1>8, <2>1, <2>2
  <2> HIDE DEF parent
  <2>4. f[a] \in NodesUpTo(t, max - (m + 1))
    <3>1. f[a] = parent.children[Last(a)] /\ Last(a) \in DOMAIN parent.children
      BY <1>6, <2>1 DEF parent
    <3>2. max - m - 1 = max - (m + 1)
      BY <1>1
    <3> QED
      BY <2>3, <3>1, <3>2 DEF HasChildren
  <2>5. max - (m + 1) \in Int /\ max - (m + 1) - 1 = max - Len(a) - 1
    BY <1>1
  <2>6. /\ f[a].points \in SUBSET t.present /\ BoxHolds(f[a].box, f[a].points)
        /\ HasChildren(f[a], NodesUpTo(t, max - (m + 1) - 1)) /\ Len(f[a].children) # 1
        /\ (f[a].children # <<>> => max - (m + 1) >= 2)
        /\ (t.built = t.present => f[a].points # {})
    BY <2>4, <2>5, UpToAre
  <2> QED
    BY <1>1, <2>5, <2>6
<1>9. \A a \in T : Good(a)
  <2> HIDE DEF Goods
  <2>1. Nat \subseteq Goods
    BY <1>7, <1>8, NatSetInduction
  <2>2. \A a \in T : Len(a) \in Nat
    BY <1>4 DEF Paths
  <2> QED
    BY <2>1, <2>2 DEF Goods
<1>10. ASSUME NEW a \in T, NEW i \in 1..Len(f[a].children)
       PROVE  Append(a, i) \in T /\ f[Append(a, i)] = f[a].children[i]
  <2>1. i \in 1..2 /\ i \in DOMAIN f[a].children
    <3>1. HasChildren(f[a], NodesUpTo(t, max - Len(a) - 1))
      BY <1>9
    <3>2. PICK S : f[a].children \in Seq(S) /\ Len(f[a].children) \in 0..2
      BY <3>1 DEF HasChildren
    <3>3. DOMAIN f[a].children = 1..Len(f[a].children)
      BY <3>2
    <3> DEFINE n == Len(f[a].children)
    <3>4. n \in 0..2 /\ i \in 1..n /\ DOMAIN f[a].children = 1..n
      BY <3>2, <3>3
    <3> HIDE DEF n
    <3> QED
      BY <3>4
  <2>2. Len(a) < max /\ a \in ShortPaths(max)
    <3>1. f[a].children # <<>>
      BY <1>10
    <3>2. Len(a) + 2 <= max /\ Len(a) \in Nat
      BY <1>4, <1>9, <3>1 DEF Paths
    <3> QED
      BY <1>1, <1>4, <3>2
  <2>3. /\ Append(a, i) \in ShortPaths(max) /\ Append(a, i) # <<>>
        /\ Front(Append(a, i)) = a /\ Last(Append(a, i)) = i
    BY <1>1, <2>1, <2>2, ShortPathsAre
  <2>4. Append(a, i) \in T
    BY <2>1, <2>3 DEF There, Children, max
  <2> QED
    BY <1>6, <2>3, <2>4
<1>11. \A a \in T : /\ N[a].points = f[a].points /\ N[a].box = f[a].box
                    /\ N[a].degree = Len(f[a].children)
  BY <1>2
<1>12. DOMAIN N = T
  BY <1>2
<1>13. ASSUME NEW a \in T
       PROVE  /\ N[a].points \in SUBSET t.present /\ BoxHolds(N[a].box, N[a].points)
              /\ N[a].degree \in 0..2
              /\ \A i \in 1..N[a].degree : Append(a, i) \in T
              /\ N[a].degree # 0 =>
                   N[a].points = UNION {N[Append(a, i)].points : i \in 1..N[a].degree}
  <2> DEFINE n == Len(f[a].children)
  <2>1. n \in 0..2 /\ N[a].degree = n
    BY <1>9, <1>11 DEF HasChildren
  <2>2. \A i \in 1..n : Append(a, i) \in T /\ N[Append(a, i)].points = f[a].children[i].points
    BY <1>10, <1>11
  <2>3. {N[Append(a, i)].points : i \in 1..n} = {f[a].children[i].points : i \in 1..n}
    <3> HIDE DEF n, N
    <3> QED
      BY <2>2
  <2>4. n # 0 => f[a].points = UNION {f[a].children[i].points : i \in 1..n}
    BY <1>9 DEF HasChildren
  <2>5. N[a].points = f[a].points /\ N[a].box = f[a].box
    BY <1>11
  <2>6. f[a].points \in SUBSET t.present
    BY <1>9
  <2>7. BoxHolds(N[a].box, N[a].points)
    BY <1>9, <2>5
  <2> HIDE DEF n, N, T
  <2> QED
    BY <2>1, <2>2, <2>3, <2>4, <2>5, <2>6, <2>7
<1>14. N[<<>>].points = t.present /\ t.present \in SUBSET points
  BY <1>4, <1>5, <1>11, RootIs DEF Described
<1>15. Shape(N, points)
  <2> HIDE DEF N, T
  <2> QED
    BY <1>4, <1>12, <1>13, <1>14 DEF Shape
<1>16. ASSUME ~t.half, t.built = t.present  PROVE Full(N)
  <2>1. \A a \in T : f[a].points # {} /\ Len(f[a].children) # 1
    BY <1>9, <1>16
  <2> HIDE DEF N, T
  <2> QED
    BY <1>11, <1>12, <2>1 DEF Full
<1> HIDE DEF N
<1> QED
  BY <1>14, <1>15, <1>16 DEF N

-----------------------------------------------------------------------------
(* The calls *)

\* The nodes of call e are those of c, or below them.
Leads(c, e) == IsPrefix(c.q, e.q) /\ IsPrefix(c.r, e.r)

\* What matters of the calls P that the calls of C make, in phases
WellFormed(P, C) ==
  \A c \in C : /\ c.q \in Paths /\ c.r \in Paths
               /\ \A i \in DOMAIN P[c] : \A e \in P[c][i] :
                    /\ e \in C /\ Leads(c, e) /\ ~Leads(e, c)
                    /\ \A d \in P[c][i] : e # d => Parted(e.q, d.q)

\* Call c waits for one that has d below it.
WaitsOver(P, f, c, d) ==
  /\ f[c].at = "phase"
  /\ \E e \in P[c][f[c].n] : e \in DOMAIN f /\ f[e].at # "returned" /\ Leads(e, d)

\* Of two calls that have not returned, one waits for the other, or they have
\* different queries.
NoneCross(P, f) ==
  \A c, d \in DOMAIN f :
    f[c].at # "returned" /\ f[d].at # "returned" /\ c # d =>
      WaitsOver(P, f, c, d) \/ WaitsOver(P, f, d, c) \/ Parted(c.q, d.q)

RootLast(root, f) == \A c \in DOMAIN f : f[c].at # "returned" => f[root].at # "returned"

CallsOf(t) ==
  {c \in [op : {"DualKnnHelper", "updateDualDist"}, q : QNodes, r : DOMAIN rtrees[t]] :
     c.op = "updateDualDist" => c.r = <<>>}

PhasesOf(t) == [c \in CallsOf(t) |-> Phases(t, c)]

-----------------------------------------------------------------------------
(* The invariant *)

InputsInv ==
  /\ mode \in Modes /\ owner \in {"KdTree", "LogTree"}
  /\ apart \in BOOLEAN /\ has_buffer \in BOOLEAN
  /\ Shape(queryTree, UNION QuerySets) /\ Full(queryTree)
  /\ Len(rtrees) \in Nat \ {0}
  /\ \A t \in Trees : Shape(rtrees[t], Points) /\ rtrees[t][<<>>].points # {}
  /\ mode = "NONATOMIC_LEAF" => ~apart
  /\ owner = "KdTree" => ~apart /\ ~has_buffer /\ Len(rtrees) = 1
  /\ owner = "LogTree" => Cardinality(AllPoints) >= k

\* What a call has seen of the children's distances
SeenAre(seen) == DOMAIN seen \in SUBSET (1..2) /\ \A i \in DOMAIN seen : seen[i] \in 0..Infinity

\* The calls of tree t, one state for each
CallsAre(t) ==
  /\ DOMAIN calls[t] \in SUBSET CallsOf(t)
  /\ DOMAIN calls[t] # {} => status[t] = "running"
  /\ status[t] = "running" => Root(t) \in DOMAIN calls[t]
  /\ \A c \in DOMAIN calls[t] :
       /\ calls[t][c].at \in {"entered", "phase", "radius", "returned"}
       /\ calls[t][c].n \in Nat
       /\ calls[t][c].at = "phase" => calls[t][c].n \in 1..Len(Phases(t, c))
       /\ c.op = "updateDualDist" => has_buffer /\ t = 1
       /\ SeenAre(calls[t][c].seen)

CallsInv ==
  /\ calls = [t \in Trees |-> calls[t]]
  /\ \A t \in Trees :
       /\ CallsAre(t)
       /\ NoneCross(PhasesOf(t), calls[t])
       /\ RootLast(Root(t), calls[t])

\* The trees of one slice are searched in order.
OrderInv ==
  \A t, u \in Trees :
    ~apart /\ t < u /\ status[u] # "waiting" => status[t] = "done"

BuffersInv ==
  /\ bufs \in [Slots -> [Queries -> Buffers(AllPoints)]]
  /\ \A s \in Slots, q \in Queries : HasK(bufs[s][q]) => IsFull(q, bufs[s][q])
  /\ has_buffer =>
       /\ status[1] \in {"called", "thrown"} => \A q \in Queries : bufs[Slot(1)][q] = NewBuffer
       /\ status[1] \in {"running", "done"} => \A q \in Queries : HasK(bufs[Slot(1)][q])

\* Somewhere k candidates of q are within v; with DKNN_ARRAY, where tree t finds them.
IsBound(t, q, v) ==
  \/ v = Infinity
  \/ \E s \in Slots : Within(q, bufs[s][q].elems, v) /\ (mode = "ARRAY" => s = Slot(t))

\* The query nodes whose distances are bounds: all, unless searches share them
Bounded(n) == IsLeafNode(queryTree[n]) \/ ~SharesDists

\* Distance v of query node n, for tree t, is not below what it is made of.
NotBelow(t, n, v) ==
  IF IsLeafNode(queryTree[n])
    THEN \A q \in queryTree[n].points : RadiusOf(q, bufs[Slot(t)][q]) <= v
    ELSE \A i \in 1..2 : dist[DistSlot(t)][Append(n, i)] <= v

DistInv ==
  /\ dist \in [{DistSlot(t) : t \in Trees} -> [QNodes -> 0..Infinity]]
  /\ \A t \in Trees, n \in QNodes :
       /\ Bounded(n) => \A q \in queryTree[n].points : IsBound(t, q, dist[DistSlot(t)][n])
       /\ mode # "ATOMIC_LEAF" => NotBelow(t, n, dist[DistSlot(t)][n])

\* The distance v that a call for query node n of tree t is about to set
MaySet(t, n, v) ==
  /\ v \in 0..Infinity
  /\ Bounded(n) => \A q \in queryTree[n].points : IsBound(t, q, v)
  /\ mode # "ATOMIC_LEAF" => NotBelow(t, n, v) /\ v <= dist[DistSlot(t)][n]

RadiusInv ==
  \A t \in Trees : \A c \in DOMAIN calls[t] :
    calls[t][c].at = "radius" => MaySet(t, c.q, calls[t][c].n)

\* p is a candidate of q, or not needed.  Where searches share the distances it
\* may be neither, and nothing is claimed.
Settled(q, p) ==
  \/ SharesDists
  \/ \E s \in Slots : p \in bufs[s][q].elems \/ Within(q, bufs[s][q].elems, Cost(q, p))

Covers(t, c, q, p) ==
  c.op = "DualKnnHelper" /\ q \in QNode(c).points /\ p \in RNode(t, c).points

\* Call c is yet to look at the pair, or to make a call for it.
LooksAt(t, c, q, p) ==
  /\ Covers(t, c, q, p)
  /\ \/ calls[t][c].at = "entered"
     \/ /\ calls[t][c].at = "phase"
        /\ \E i \in 1..Len(Phases(t, c)) :
             i > calls[t][c].n /\ \E e \in Phases(t, c)[i] : Covers(t, e, q, p)

Pending(t, q, p) == \E c \in DOMAIN calls[t] : LooksAt(t, c, q, p)

CoverInv ==
  \A t \in Trees : status[t] \in {"running", "done"} =>
    \A q \in Queries, p \in rtrees[t][<<>>].points : Settled(q, p) \/ Pending(t, q, p)

StateInv ==
  /\ status \in [Trees -> {"waiting", "called", "running", "done", "thrown"}]
  /\ res # <<>> => res \in [Queries -> SUBSET Points] /\ DualKnnExact

IInv ==
  /\ InputsInv /\ StateInv /\ CallsInv /\ OrderInv /\ BuffersInv /\ DistInv
  /\ RadiusInv /\ CoverInv

-----------------------------------------------------------------------------
(* What a call does to the others *)

\* A call that is about to go on: it waits for nobody.
Idle(P, f, c) ==
  /\ f[c].at # "returned"
  /\ f[c].at = "phase" => \A e \in P[c][f[c].n] : e \in DOMAIN f => f[e].at = "returned"

LEMMA LeadsIs ==
  /\ \A c : c.q \in Paths /\ c.r \in Paths => Leads(c, c)
  /\ \A c, d, e : /\ c.q \in Paths /\ d.q \in Paths /\ e.q \in Paths
                  /\ c.r \in Paths /\ d.r \in Paths /\ e.r \in Paths
                  /\ Leads(c, d) /\ Leads(d, e)
                  => Leads(c, e)
BY PrefixesOrder DEF Leads

\* Whatever is not apart from an idle call waits for it, and is not led to by it.
LEMMA OthersOfIdle ==
  ASSUME NEW P, NEW C, WellFormed(P, C), NEW f, DOMAIN f \in SUBSET C,
         \A c \in DOMAIN f : f[c].at = "phase" => f[c].n \in DOMAIN P[c],
         NoneCross(P, f), NEW c \in DOMAIN f, Idle(P, f, c),
         NEW d \in DOMAIN f, f[d].at # "returned", c # d
  PROVE  /\ WaitsOver(P, f, d, c) \/ Parted(d.q, c.q)
         /\ ~Leads(c, d)
<1>1. ~WaitsOver(P, f, c, d)
  BY DEF Idle, WaitsOver
<1>2. WaitsOver(P, f, d, c) \/ Parted(c.q, d.q)
  BY <1>1 DEF NoneCross, Idle
<1>3. ASSUME WaitsOver(P, f, d, c), Leads(c, d)  PROVE FALSE
  <2>1. PICK e \in P[d][f[d].n] : Leads(e, c)
    BY <1>3 DEF WaitsOver
  <2>2. f[d].n \in DOMAIN P[d]
    BY <1>3 DEF WaitsOver
  <2>3. e \in C /\ ~Leads(e, d)
    BY <2>2 DEF WellFormed
  <2>4. \A x \in C : x.q \in Paths /\ x.r \in Paths
    BY DEF WellFormed
  <2> QED
    BY <1>3, <2>1, <2>3, <2>4, LeadsIs
<1>4. ASSUME Parted(c.q, d.q)  PROVE ~Leads(c, d) /\ Parted(d.q, c.q)
  BY <1>4 DEF Parted, Leads
<1> QED
  BY <1>2, <1>3, <1>4

\* From f to g, call c makes the calls of phase n.
Forks(P, f, g, c, n) ==
  /\ DOMAIN g = DOMAIN f \cup P[c][n] /\ g[c].at = "phase" /\ g[c].n = n
  /\ \A e \in P[c][n] : g[e].at = "entered"
  /\ \A d \in DOMAIN f : d # c /\ d \notin P[c][n] => g[d] = f[d]

LEMMA ForkKeeps ==
  ASSUME NEW P, NEW C, WellFormed(P, C), NEW f, DOMAIN f \in SUBSET C,
         \A d \in DOMAIN f : f[d].at = "phase" => f[d].n \in DOMAIN P[d],
         NoneCross(P, f), NEW c \in DOMAIN f, Idle(P, f, c), NEW n \in DOMAIN P[c],
         NEW g, Forks(P, f, g, c, n)
  PROVE  NoneCross(P, g)
<1> DEFINE kids == P[c][n]
<1>0. /\ DOMAIN g = DOMAIN f \cup kids /\ g[c].at = "phase" /\ g[c].n = n
      /\ \A e \in kids : g[e].at = "entered"
      /\ \A d \in DOMAIN f : d # c /\ d \notin kids => g[d] = f[d]
  BY DEF Forks
<1>1. /\ \A x \in C : x.q \in Paths /\ x.r \in Paths
      /\ \A e \in kids : e \in C /\ Leads(c, e) /\ ~Leads(e, c)
      /\ \A d, e \in kids : e # d => Parted(e.q, d.q)
  BY DEF WellFormed
<1>2. c \notin kids
  BY <1>1, LeadsIs
<1>3. ASSUME NEW d \in DOMAIN f, f[d].at # "returned", d # c
      PROVE  d \notin kids /\ g[d] = f[d] /\ (WaitsOver(P, f, d, c) \/ Parted(d.q, c.q))
  <2>1. (WaitsOver(P, f, d, c) \/ Parted(d.q, c.q)) /\ ~Leads(c, d)
    BY <1>3, OthersOfIdle
  <2> QED
    BY <1>0, <1>1, <1>3, <2>1
<1>4. ASSUME NEW d \in DOMAIN f, f[d].at # "returned", d # c, NEW e,
             WaitsOver(P, f, d, e)
      PROVE  WaitsOver(P, g, d, e)
  <2>1. PICK x \in P[d][f[d].n] : x \in DOMAIN f /\ f[x].at # "returned" /\ Leads(x, e)
    BY <1>4 DEF WaitsOver
  <2>2. x \in DOMAIN g /\ g[x].at # "returned"
    BY <1>0, <1>3, <2>1
  <2>3. g[d] = f[d] /\ f[d].at = "phase"
    BY <1>3, <1>4 DEF WaitsOver
  <2> QED
    BY <2>1, <2>2, <2>3 DEF WaitsOver
<1>5. ASSUME NEW d \in DOMAIN f, f[d].at # "returned", d # c, NEW e \in kids
      PROVE  WaitsOver(P, g, d, e) \/ (Parted(d.q, e.q) /\ Parted(e.q, d.q))
  <2>1. CASE WaitsOver(P, f, d, c)
    <3>1. PICK x \in P[d][f[d].n] : x \in DOMAIN f /\ f[x].at # "returned" /\ Leads(x, c)
      BY <2>1 DEF WaitsOver
    <3>2. Leads(x, e)
      BY <1>1, <3>1, LeadsIs
    <3>3. WaitsOver(P, f, d, e)
      BY <2>1, <3>1, <3>2 DEF WaitsOver
    <3> QED
      BY <1>4, <1>5, <3>3
  <2>2. CASE Parted(d.q, c.q)
    <3>1. Parted(d.q, e.q)
      BY <1>1, <2>2, PartedOn, PrefixesOrder DEF Leads
    <3> QED
      BY <3>1 DEF Parted
  <2> QED
    BY <1>3, <1>5, <2>1, <2>2
<1>6. \A e \in kids : WaitsOver(P, g, c, e)
  BY <1>0, <1>1, LeadsIs DEF WaitsOver
<1>7. ASSUME NEW d \in DOMAIN g, g[d].at # "returned", d # c, d \notin kids
      PROVE  d \in DOMAIN f /\ f[d].at # "returned"
  BY <1>0, <1>7
<1>8. ASSUME NEW d \in DOMAIN g, g[d].at # "returned", d # c, d \notin kids
      PROVE  WaitsOver(P, g, d, c) \/ Parted(d.q, c.q)
  BY <1>3, <1>4, <1>7, <1>8
<1> SUFFICES ASSUME NEW x \in DOMAIN g, NEW y \in DOMAIN g,
                    g[x].at # "returned", g[y].at # "returned", x # y
             PROVE  WaitsOver(P, g, x, y) \/ WaitsOver(P, g, y, x) \/ Parted(x.q, y.q)
  BY DEF NoneCross
<1>9. CASE x \in kids /\ y \in kids
  BY <1>1, <1>9
<1>10. CASE x = c \/ y = c
  <2>1. ASSUME NEW d \in DOMAIN g, g[d].at # "returned", d # c
        PROVE  WaitsOver(P, g, d, c) \/ WaitsOver(P, g, c, d) \/ (Parted(d.q, c.q) /\ Parted(c.q, d.q))
    BY <1>6, <1>8, <2>1 DEF Parted
  <2> QED
    BY <1>10, <2>1
<1>11. CASE x # c /\ y # c /\ x \notin kids /\ y \in kids
  BY <1>5, <1>7, <1>11
<1>12. CASE x # c /\ y # c /\ x \in kids /\ y \notin kids
  BY <1>5, <1>7, <1>12
<1>13. CASE x # c /\ y # c /\ x \notin kids /\ y \notin kids
  <2>1. /\ x \in DOMAIN f /\ f[x].at # "returned"
        /\ y \in DOMAIN f /\ f[y].at # "returned"
    BY <1>7, <1>13
  <2>2. WaitsOver(P, f, x, y) \/ WaitsOver(P, f, y, x) \/ Parted(x.q, y.q)
    BY <2>1 DEF NoneCross
  <2> QED
    BY <1>4, <1>13, <2>1, <2>2
<1> QED
  BY <1>9, <1>10, <1>11, <1>12, <1>13

\* An idle call goes on to set its distance, or returns.
LEMMA GoesKeeps ==
  ASSUME NEW P, NEW C, WellFormed(P, C), NEW f, DOMAIN f \in SUBSET C,
         \A d \in DOMAIN f : f[d].at = "phase" => f[d].n \in DOMAIN P[d],
         NoneCross(P, f), NEW c \in DOMAIN f, Idle(P, f, c),
         NEW g, DOMAIN g = DOMAIN f, g[c].at \in {"radius", "returned"},
         \A d \in DOMAIN f : d # c => g[d] = f[d]
  PROVE  NoneCross(P, g)
<1> SUFFICES ASSUME NEW x \in DOMAIN g, NEW y \in DOMAIN g,
                    g[x].at # "returned", g[y].at # "returned", x # y
             PROVE  WaitsOver(P, g, x, y) \/ WaitsOver(P, g, y, x) \/ Parted(x.q, y.q)
  BY DEF NoneCross
<1>1. f[x].at # "returned" /\ f[y].at # "returned"
  BY DEF Idle
<1>2. ASSUME NEW d \in DOMAIN f, NEW e \in DOMAIN f, f[e].at # "returned", g[e].at # "returned",
             d # e, WaitsOver(P, f, d, e)
      PROVE  WaitsOver(P, g, d, e)
  <2>1. PICK z \in P[d][f[d].n] : z \in DOMAIN f /\ f[z].at # "returned" /\ Leads(z, e)
    BY <1>2 DEF WaitsOver
  <2>2. d # c
    BY <2>1, <1>2 DEF Idle, WaitsOver
  <2>3. g[z].at # "returned"
    <3>1. CASE z # c
      BY <2>1, <3>1
    <3>2. CASE z = c
      <4>1. CASE e = c
        BY <1>2, <3>2, <4>1
      <4>2. CASE e # c
        BY <1>2, <2>1, <3>2, <4>2, OthersOfIdle
      <4> QED
        BY <4>1, <4>2
    <3> QED
      BY <3>1, <3>2
  <2> QED
    BY <1>2, <2>1, <2>2, <2>3 DEF WaitsOver
<1>3. WaitsOver(P, f, x, y) \/ WaitsOver(P, f, y, x) \/ Parted(x.q, y.q)
  BY <1>1 DEF NoneCross
<1> QED
  BY <1>1, <1>2, <1>3

\* When the root has nothing to wait for, all others have returned.
LEMMA RootIsLast ==
  ASSUME NEW P, NEW C, WellFormed(P, C), NEW f, DOMAIN f \in SUBSET C,
         \A d \in DOMAIN f : f[d].at = "phase" => f[d].n \in DOMAIN P[d],
         NoneCross(P, f), NEW root \in DOMAIN f, Idle(P, f, root),
         root.q = <<>>, root.r = <<>>
  PROVE  \A d \in DOMAIN f : d # root => f[d].at = "returned"
<1> SUFFICES ASSUME NEW d \in DOMAIN f, d # root, f[d].at # "returned"  PROVE FALSE
  OBVIOUS
<1>1. d.q \in Paths /\ d.r \in Paths
  BY DEF WellFormed
<1>2. Leads(root, d)
  BY <1>1, PrefixesOrder DEF Leads
<1> QED
  BY <1>2, OthersOfIdle

-----------------------------------------------------------------------------
(* What a call calls *)

\* Call e is made by c, for nodes below its nodes.
IsMade(t, c, e) == e \in CallsOf(t) /\ e.op = c.op /\ Leads(c, e) /\ ~Leads(e, c)

LEMMA BelowAre ==
  ASSUME NEW t, NEW c \in CallsOf(t), c.q \in Paths, c.r \in Paths
  PROVE  /\ c.op = "DualKnnHelper" =>
              /\ \A i \in 1..2 : Append(c.q, i) \in QNodes => IsMade(t, c, Below(c, i))
              /\ \A j \in 1..2 : Append(c.r, j) \in DOMAIN rtrees[t] => IsMade(t, c, RBelow(c, j))
              /\ \A i, j \in 1..2 :
                   Append(c.q, i) \in QNodes /\ Append(c.r, j) \in DOMAIN rtrees[t]
                     => IsMade(t, c, BothBelow(c, i, j))
         /\ c.op = "updateDualDist" =>
              \A i \in 1..2 : Append(c.q, i) \in QNodes
                                => IsMade(t, c, UpdateCall(Append(c.q, i)))
<1>1. \A i \in 1..2 : /\ IsPrefix(c.q, Append(c.q, i)) /\ ~IsPrefix(Append(c.q, i), c.q)
                      /\ IsPrefix(c.r, Append(c.r, i)) /\ ~IsPrefix(Append(c.r, i), c.r)
  BY PrefixAppend
<1>2. IsPrefix(c.q, c.q) /\ IsPrefix(c.r, c.r)
  BY PrefixesOrder
<1>3. /\ c.q \in QNodes /\ c.r \in DOMAIN rtrees[t]
      /\ c.op = "updateDualDist" => c.r = <<>>
  BY DEF CallsOf
<1>4. ASSUME NEW e, e = [op |-> "DualKnnHelper", q |-> e.q, r |-> e.r],
             e.q \in QNodes, e.r \in DOMAIN rtrees[t]
      PROVE  e \in CallsOf(t)
  BY <1>4 DEF CallsOf
<1>5. ASSUME c.op = "DualKnnHelper", NEW i \in 1..2, Append(c.q, i) \in QNodes
      PROVE  IsMade(t, c, Below(c, i))
  BY <1>1, <1>2, <1>3, <1>5 DEF IsMade, Below, KnnCall, CallsOf, Leads
<1>6. ASSUME c.op = "DualKnnHelper", NEW j \in 1..2, Append(c.r, j) \in DOMAIN rtrees[t]
      PROVE  IsMade(t, c, RBelow(c, j))
  BY <1>1, <1>2, <1>3, <1>6 DEF IsMade, RBelow, KnnCall, CallsOf, Leads
<1>7. ASSUME c.op = "DualKnnHelper", NEW i \in 1..2, NEW j \in 1..2,
             Append(c.q, i) \in QNodes, Append(c.r, j) \in DOMAIN rtrees[t]
      PROVE  IsMade(t, c, BothBelow(c, i, j))
  BY <1>1, <1>2, <1>3, <1>7 DEF IsMade, BothBelow, KnnCall, CallsOf, Leads
<1>8. ASSUME c.op = "updateDualDist", NEW i \in 1..2, Append(c.q, i) \in QNodes
      PROVE  IsMade(t, c, UpdateCall(Append(c.q, i)))
  BY <1>1, <1>2, <1>3, <1>8 DEF IsMade, UpdateCall, CallsOf, Leads
<1> QED
  BY <1>5, <1>6, <1>7, <1>8

LEMMA CloserIs ==
  ASSUME NEW t, NEW q, NEW r
  PROVE  /\ CloserChild(t, q, r) \in 1..2 /\ 3 - CloserChild(t, q, r) \in 1..2
         /\ CloserChild(t, q, r) = 1 => 3 - CloserChild(t, q, r) = 2
         /\ CloserChild(t, q, r) = 2 => 3 - CloserChild(t, q, r) = 1
<1>1. CloserChild(t, q, r) = 1 \/ CloserChild(t, q, r) = 2
  BY DEF CloserChild
<1> QED
  BY <1>1

\* The calls of a phase have different queries, and the phases cover all pairs.
MakesAll(t, c, phases) ==
  /\ Len(phases) \in 0..2 /\ DOMAIN phases = 1..Len(phases)
  /\ phases # <<>> => Len(phases) # 0
  /\ \A i \in 1..Len(phases) : \A e \in phases[i] :
       IsMade(t, c, e) /\ \A d \in phases[i] : e # d => Parted(e.q, d.q)
  /\ phases = <<>> => IsLeafNode(QNode(c)) /\ (c.op = "DualKnnHelper" => ~HasOnlyChild(RNode(t, c)))
  /\ phases # <<>> =>
       \A q \in QNode(c).points, p \in RNode(t, c).points : c.op = "DualKnnHelper" =>
         \E i \in 1..Len(phases) : \E e \in phases[i] : Covers(t, e, q, p)

LEMMA PhasesAre ==
  ASSUME InputsInv, NEW t \in Trees, NEW c \in CallsOf(t)
  PROVE  MakesAll(t, c, Phases(t, c)) /\ c.q \in Paths /\ c.r \in Paths
<1> DEFINE q == QNode(c)
           r == RNode(t, c)
<1>1. c.q \in QNodes /\ c.r \in DOMAIN rtrees[t] /\ c.op \in {"DualKnnHelper", "updateDualDist"}
  BY DEF CallsOf
<1>2. c.q \in Paths /\ c.r \in Paths
  BY <1>1 DEF InputsInv, Shape, QNodes
<1>3. /\ q.degree \in {0, 2}
      /\ q.degree # 0 => /\ \A i \in 1..2 : Append(c.q, i) \in QNodes
                         /\ \A x \in q.points : \E i \in 1..2 : x \in queryTree[Append(c.q, i)].points
  <2>1. /\ q.degree \in 0..2 /\ q.degree # 1
        /\ \A i \in 1..q.degree : Append(c.q, i) \in DOMAIN queryTree
        /\ q.degree # 0 =>
            q.points = UNION {queryTree[Append(c.q, i)].points : i \in 1..q.degree}
    BY <1>1 DEF InputsInv, Shape, Full, QNode, QNodes
  <2>2. q.degree # 0 => q.degree = 2
    BY <2>1
  <2> HIDE DEF q
  <2>3. q.degree # 0 =>
          q.points = UNION {queryTree[Append(c.q, i)].points : i \in 1..2}
    BY <2>1, <2>2
  <2>4. q.degree # 0 => \A x \in q.points : \E i \in 1..2 : x \in queryTree[Append(c.q, i)].points
    BY <2>3
  <2>5. q.degree # 0 => \A i \in 1..2 : Append(c.q, i) \in QNodes
    BY <2>1, <2>2 DEF QNodes
  <2> QED
    BY <2>1, <2>2, <2>4, <2>5
<1>4. /\ r.degree \in 0..2
      /\ \A j \in 1..r.degree : Append(c.r, j) \in DOMAIN rtrees[t]
      /\ r.degree # 0 => \A y \in r.points :
           \E j \in 1..r.degree : y \in rtrees[t][Append(c.r, j)].points
  <2>1. /\ r.degree \in 0..2
        /\ \A j \in 1..r.degree : Append(c.r, j) \in DOMAIN rtrees[t]
        /\ r.degree # 0 =>
            r.points = UNION {rtrees[t][Append(c.r, j)].points : j \in 1..r.degree}
    BY <1>1 DEF InputsInv, Shape, RNode
  <2> HIDE DEF r
  <2> QED
    BY <2>1
<1>5. /\ \A i, j \in 1..2 : i # j => Parted(Append(c.q, i), Append(c.q, j))
  BY <1>2, PrefixAppend
<1> DEFINE closer(i) == CloserChild(t, Append(c.q, i), c.r)
<1>6. CASE c.op = "updateDualDist" /\ IsLeafNode(q)
  <2>1. Phases(t, c) = <<>>
    BY <1>6 DEF Phases
  <2> QED
    BY <1>2, <1>6, <2>1 DEF MakesAll
<1>7. CASE c.op = "updateDualDist" /\ ~IsLeafNode(q)
  <2> DEFINE kids == {UpdateCall(Append(c.q, i)) : i \in 1..2}
  <2>1. Phases(t, c) = <<kids>>
    BY <1>7 DEF Phases
  <2>2. \A i \in 1..2 : IsMade(t, c, UpdateCall(Append(c.q, i)))
    BY <1>2, <1>3, <1>7, BelowAre DEF IsLeafNode
  <2>3. \A i \in 1..2 : UpdateCall(Append(c.q, i)).q = Append(c.q, i)
    BY DEF UpdateCall
  <2>4.. \A e \in kids : IsMade(t, c, e) /\ \A d \in kids : e # d => Parted(e.q, d.q)
    BY <1>5, <2>2, <2>3, Zenon
  <2> HIDE DEF kids
  <2> QED
    BY <1>2, <1>7, <2>1, <2>4 DEF MakesAll
<1>8. CASE c.op = "DualKnnHelper" /\ HasOnlyChild(r)
  <2>1. Phases(t, c) = <<{RBelow(c, 1)}>>
    BY <1>8 DEF Phases, ForwardPhases
  <2>2. r.degree = 1
    BY <1>8 DEF HasOnlyChild
  <2>3. IsMade(t, c, RBelow(c, 1))
    BY <1>2, <1>4, <1>8, <2>2, BelowAre
  <2>4. \A x \in q.points, y \in r.points : Covers(t, RBelow(c, 1), x, y)
    <3>1. \A y \in r.points : y \in rtrees[t][Append(c.r, 1)].points
      BY <1>4, <2>2
    <3> QED
      BY <3>1 DEF Covers, RBelow, KnnCall, QNode, RNode
  <2> DEFINE kids == {RBelow(c, 1)}
  <2>5. /\ \A e \in kids : IsMade(t, c, e) /\ \A d \in kids : e # d => Parted(e.q, d.q)
        /\ \A x \in q.points, y \in r.points : \E e \in kids : Covers(t, e, x, y)
    BY <2>3, <2>4
  <2> HIDE DEF kids
  <2> QED
    BY <1>2, <1>8, <2>1, <2>5 DEF MakesAll, kids
<1>9. CASE c.op = "DualKnnHelper" /\ ~HasOnlyChild(r) /\ IsLeafNode(q) /\ IsLeafNode(r)
  <2>1. Phases(t, c) = <<>>
    BY <1>9 DEF Phases
  <2> QED
    BY <1>2, <1>9, <2>1 DEF MakesAll
<1>10. CASE c.op = "DualKnnHelper" /\ ~HasOnlyChild(r) /\ IsLeafNode(q) /\ ~IsLeafNode(r)
  <2>1. PICK i \in 1..2 : i = CloserChild(t, c.q, c.r)
    BY CloserIs
  <2>2. PICK j \in 1..2 : j = 3 - i /\ {i, j} = {1, 2}
    BY <2>1
  <2>3. Phases(t, c) = <<{RBelow(c, i)}, {RBelow(c, j)}>>
    BY <1>10, <2>1, <2>2 DEF Phases, LeafQPhases
  <2>4. r.degree = 2
    BY <1>4, <1>10 DEF HasOnlyChild, IsLeafNode
  <2>5. IsMade(t, c, RBelow(c, i)) /\ IsMade(t, c, RBelow(c, j))
    BY <1>2, <1>4, <1>10, <2>4, BelowAre
  <2>6. \A x \in q.points, y \in r.points :
          Covers(t, RBelow(c, i), x, y) \/ Covers(t, RBelow(c, j), x, y)
    <3>1. \A y \in r.points : \/ y \in rtrees[t][Append(c.r, i)].points
                              \/ y \in rtrees[t][Append(c.r, j)].points
      BY <1>4, <2>2, <2>4
    <3> QED
      BY <3>1 DEF Covers, RBelow, KnnCall, QNode, RNode
  <2> DEFINE first == {RBelow(c, i)}
             second == {RBelow(c, j)}
  <2>7. /\ \A e \in first : IsMade(t, c, e) /\ \A d \in first : e # d => Parted(e.q, d.q)
        /\ \A e \in second : IsMade(t, c, e) /\ \A d \in second : e # d => Parted(e.q, d.q)
        /\ \A x \in q.points, y \in r.points :
             (\E e \in first : Covers(t, e, x, y)) \/ (\E e \in second : Covers(t, e, x, y))
    BY <2>5, <2>6
  <2>8. Phases(t, c) = <<first, second>>
    BY <2>3
  <2> HIDE DEF first, second
  <2> QED
    BY <1>2, <1>10, <2>7, <2>8 DEF MakesAll
<1>11. CASE c.op = "DualKnnHelper" /\ ~HasOnlyChild(r) /\ ~IsLeafNode(q) /\ IsLeafNode(r)
  <2> DEFINE kids == {Below(c, i) : i \in 1..2}
  <2>1. Phases(t, c) = <<kids>>
    BY <1>11 DEF Phases, LeafRPhases
  <2>2. q.degree # 0
    BY <1>11 DEF IsLeafNode
  <2>3. \A i \in 1..2 : IsMade(t, c, Below(c, i))
    BY <1>2, <1>3, <1>11, <2>2, BelowAre
  <2>4. \A i \in 1..2 : Below(c, i).q = Append(c.q, i)
    BY DEF Below, KnnCall
  <2>5.. \A e \in kids : IsMade(t, c, e) /\ \A d \in kids : e # d => Parted(e.q, d.q)
    BY <1>5, <2>3, <2>4, Zenon
  <2>6.. \A x \in q.points, y \in r.points : \E e \in kids : Covers(t, e, x, y)
    <3>1. \A x \in q.points, y \in r.points, i \in 1..2 :
            x \in queryTree[Append(c.q, i)].points => Covers(t, Below(c, i), x, y)
      BY DEF Covers, Below, KnnCall, QNode, RNode
    <3> QED
      BY <1>3, <2>2, <3>1
  <2> HIDE DEF kids
  <2> QED
    BY <1>2, <1>11, <2>1, <2>5, <2>6 DEF MakesAll
<1>12. CASE c.op = "DualKnnHelper" /\ ~HasOnlyChild(r) /\ ~IsLeafNode(q) /\ ~IsLeafNode(r)
  <2> DEFINE first == {BothBelow(c, i, closer(i)) : i \in 1..2}
             second == {BothBelow(c, i, 3 - closer(i)) : i \in 1..2}
  <2>1. Phases(t, c) = <<first, second>>
    BY <1>12 DEF Phases, InnerPhases
  <2>2. q.degree # 0 /\ r.degree = 2
    BY <1>4, <1>12 DEF IsLeafNode, HasOnlyChild
  <2>3. \A i \in 1..2 : /\ closer(i) \in 1..2 /\ 3 - closer(i) \in 1..2
                        /\ \A j \in 1..2 : j = closer(i) \/ j = 3 - closer(i)
    BY CloserIs
  <2>4. \A i, j \in 1..2 : IsMade(t, c, BothBelow(c, i, j)) /\ BothBelow(c, i, j).q = Append(c.q, i)
    BY <1>2, <1>3, <1>4, <1>12, <2>2, BelowAre DEF BothBelow, KnnCall
  <2>5. \A x \in q.points, y \in r.points : \E i, j \in 1..2 : Covers(t, BothBelow(c, i, j), x, y)
    <3>1. \A x \in q.points, y \in r.points, i, j \in 1..2 :
            x \in queryTree[Append(c.q, i)].points /\ y \in rtrees[t][Append(c.r, j)].points
              => Covers(t, BothBelow(c, i, j), x, y)
      BY DEF Covers, BothBelow, KnnCall, QNode, RNode
    <3> QED
      BY <1>3, <1>4, <2>2, <3>1
  <2> HIDE DEF closer
  <2>6. /\ \A e \in first : IsMade(t, c, e) /\ \A d \in first : e # d => Parted(e.q, d.q)
        /\ \A e \in second : IsMade(t, c, e) /\ \A d \in second : e # d => Parted(e.q, d.q)
    <3>1. \A i \in 1..2 : /\ IsMade(t, c, BothBelow(c, i, closer(i)))
                          /\ IsMade(t, c, BothBelow(c, i, 3 - closer(i)))
                          /\ BothBelow(c, i, closer(i)).q = Append(c.q, i)
                          /\ BothBelow(c, i, 3 - closer(i)).q = Append(c.q, i)
      BY <2>3, <2>4
    <3> QED
      BY <1>5, <3>1, Zenon
  <2>7. \A x \in q.points, y \in r.points :
             (\E e \in first : Covers(t, e, x, y)) \/ (\E e \in second : Covers(t, e, x, y))
    BY <2>3, <2>5
  <2> HIDE DEF first, second
  <2> QED
    BY <1>2, <1>12, <2>1, <2>6, <2>7 DEF MakesAll
<1> QED
  BY <1>1, <1>6, <1>7, <1>8, <1>9, <1>10, <1>11, <1>12

LEMMA PhasesAreWellFormed ==
  ASSUME InputsInv, NEW t \in Trees
  PROVE  WellFormed(PhasesOf(t), CallsOf(t))
<1> SUFFICES ASSUME NEW c \in CallsOf(t)
             PROVE  /\ c.q \in Paths /\ c.r \in Paths
                    /\ \A i \in DOMAIN Phases(t, c) : \A e \in Phases(t, c)[i] :
                         /\ e \in CallsOf(t) /\ Leads(c, e) /\ ~Leads(e, c)
                         /\ \A d \in Phases(t, c)[i] : e # d => Parted(e.q, d.q)
  BY DEF WellFormed, PhasesOf
<1> QED
  BY PhasesAre DEF MakesAll, IsMade

-----------------------------------------------------------------------------
(* Distances *)

LEMMA InputsArePoints ==
  ArePoints(UNION QuerySets) /\ ArePoints(Points)
BY QueriesAssumption, TreesAssumption DEF ArePoints, IsPoint

\* Infinity is above all distances.
LEMMA CostsAreFinite ==
  ASSUME NEW q \in UNION QuerySets, NEW p \in Points
  PROVE  Infinity \in Nat /\ Cost(q, p) \in Nat /\ Cost(q, p) < Infinity
<1> DEFINE Q == UNION QuerySets
           f == [x \in Q \X Points |-> Cost(x[1], x[2])]
           costs == {Cost(a, b) : a \in Q, b \in Points}
<1>1. \A a \in Q, b \in Points : Cost(a, b) \in Nat
  BY InputsArePoints, CostBounds DEF ArePoints
<1>2. IsFiniteSet(Q \X Points)
  BY InputsArePoints, FS_Product DEF ArePoints
<1>3. costs = {f[x] : x \in Q \X Points}
  <2>1. \A a \in Q, b \in Points : <<a, b>> \in Q \X Points /\ f[<<a, b>>] = Cost(a, b)
    OBVIOUS
  <2>2. \A x \in Q \X Points : f[x] = Cost(x[1], x[2]) /\ x[1] \in Q /\ x[2] \in Points
    OBVIOUS
  <2> HIDE DEF f
  <2>3. ASSUME NEW c \in costs  PROVE c \in {f[x] : x \in Q \X Points}
    <3>1. PICK a \in Q, b \in Points : c = Cost(a, b)
      OBVIOUS
    <3>2. c = f[<<a, b>>] /\ <<a, b>> \in Q \X Points
      BY <2>1, <3>1
    <3> QED
      BY <3>2
  <2>4. ASSUME NEW x \in Q \X Points  PROVE f[x] \in costs
    <3>1. PICK a \in Q, b \in Points : a = x[1] /\ b = x[2]
      BY <2>2
    <3>2. f[x] = Cost(a, b)
      BY <2>2, <3>1
    <3> QED
      BY <3>2
  <2> HIDE DEF Q, costs
  <2> QED
    BY <2>3, <2>4
<1>4. IsFiniteSet(costs)
  <2> HIDE DEF f, Q, costs
  <2> QED
    BY <1>2, <1>3, ImageIsFinite
<1>5. costs \in SUBSET Int /\ costs # {} /\ Cost(q, p) \in costs
  <2>1. Cost(q, p) \in costs
    OBVIOUS
  <2>2. \A c \in costs : c \in Int
    BY <1>1
  <2> QED
    BY <2>1, <2>2
<1>6. Max(costs) \in costs /\ Max(costs) >= Cost(q, p)
  <2> HIDE DEF costs
  <2> QED
    BY <1>4, <1>5, MaxIs
<1>7. Infinity = 1 + Max(costs)
  BY DEF Infinity
<1>8. Max(costs) \in Nat /\ Cost(q, p) \in Nat
  BY <1>1, <1>6
<1> QED
  BY <1>6, <1>7, <1>8

\* What is no farther in any dimension is no farther.
LEMMA CostGrows ==
  ASSUME NEW x, NEW y, NEW q, NEW p, IsPoint(x), IsPoint(y), IsPoint(q), IsPoint(p),
         \A d \in Dims : (x[d] - y[d]) * (x[d] - y[d]) <= (q[d] - p[d]) * (q[d] - p[d])
  PROVE  Cost(x, y) <= Cost(q, p)
<1>1. PICK f : SquareGraph(f, x, y) /\ Cost(x, y) = f[DIM]
  BY CostIs
<1>2. PICK g : SquareGraph(g, q, p) /\ Cost(q, p) = g[DIM]
  BY CostIs
<1> DEFINE u(d) == (x[d] - y[d]) * (x[d] - y[d])
           v(d) == (q[d] - p[d]) * (q[d] - p[d])
           N == {n \in Nat : n <= DIM => f[n] \in Nat /\ g[n] \in Nat /\ f[n] <= g[n]}
<1>3. \A d \in Dims : u(d) \in Nat /\ v(d) \in Nat /\ u(d) <= v(d)
  BY Squares DEF IsPoint
<1>4. 0 \in N
  BY <1>1, <1>2, DimAssumption DEF SquareStep, SquareGraph
<1>5. ASSUME NEW n \in Nat, n \in N  PROVE n + 1 \in N
  <2> SUFFICES ASSUME n + 1 <= DIM
               PROVE  f[n + 1] \in Nat /\ g[n + 1] \in Nat /\ f[n + 1] <= g[n + 1]
    OBVIOUS
  <2>1. f[n] \in Nat /\ g[n] \in Nat /\ f[n] <= g[n]
    BY <1>5, DimAssumption
  <2>2. f[n + 1] = SquareStep(f, x, y, n + 1) /\ g[n + 1] = SquareStep(g, q, p, n + 1)
    <3>1. n + 1 \in 0..DIM
      BY DimAssumption
    <3>2. f[n + 1] = SquareStep(f, x, y, n + 1)
      BY <1>1, <3>1 DEF SquareGraph
    <3>3. g[n + 1] = SquareStep(g, q, p, n + 1)
      BY <1>2, <3>1 DEF SquareGraph
    <3> QED
      BY <3>2, <3>3
  <2>3. f[n + 1] = f[n] + u(n + 1) /\ g[n + 1] = g[n] + v(n + 1)
    BY <2>2 DEF SquareStep
  <2>4. u(n + 1) \in Nat /\ v(n + 1) \in Nat /\ u(n + 1) <= v(n + 1)
    BY <1>3, DimAssumption DEF Dims
  <2> HIDE DEF u, v
  <2> QED
    BY <2>1, <2>3, <2>4
<1>6. DIM \in N
  <2> HIDE DEF N
  <2> QED
    BY <1>4, <1>5, NatSetInduction, DimAssumption
<1> QED
  BY <1>1, <1>2, <1>6

\* No two points of two boxes are nearer than the boxes.
LEMMA BoxesAreNearer ==
  ASSUME NEW a, NEW S, BoxHolds(a, S), NEW b, NEW T, BoxHolds(b, T),
         NEW q \in S, NEW p \in T, IsPoint(q), IsPoint(p)
  PROVE  BoxDistance(a, b) \in Nat /\ BoxDistance(a, b) <= Cost(q, p)
<1> DEFINE gaps(d) == {0, a.min[d] - b.max[d], b.min[d] - a.max[d]}
           gap == [d \in Dims |-> Max(gaps(d))]
           zero == [d \in Dims |-> 0]
<1>1. ASSUME NEW d \in Dims
      PROVE  /\ gap[d] \in Nat /\ zero[d] = 0
             /\ (gap[d] - zero[d]) * (gap[d] - zero[d]) <= (q[d] - p[d]) * (q[d] - p[d])
  <2>1. /\ a.min[d] \in Int /\ a.max[d] \in Int /\ b.min[d] \in Int /\ b.max[d] \in Int
        /\ a.min[d] <= q[d] /\ q[d] <= a.max[d] /\ b.min[d] <= p[d] /\ p[d] <= b.max[d]
        /\ q[d] \in Int /\ p[d] \in Int
    BY DEF BoxHolds, IsPoint
  <2>2. gaps(d) \in SUBSET Int /\ IsFiniteSet(gaps(d)) /\ 0 \in gaps(d)
    <3>1. IsFiniteSet({0}) /\ IsFiniteSet({0} \cup {a.min[d] - b.max[d]})
      BY FS_Singleton, FS_AddElement
    <3>2. IsFiniteSet(({0} \cup {a.min[d] - b.max[d]}) \cup {b.min[d] - a.max[d]})
      BY <3>1, FS_AddElement
    <3>3. gaps(d) = ({0} \cup {a.min[d] - b.max[d]}) \cup {b.min[d] - a.max[d]}
      OBVIOUS
    <3>4. gaps(d) \in SUBSET Int
      BY <2>1
    <3> QED
      BY <3>2, <3>3, <3>4
  <2>3. Max(gaps(d)) \in gaps(d) /\ Max(gaps(d)) >= 0
    <3> DEFINE G == gaps(d)
    <3>1. G \in SUBSET Int /\ IsFiniteSet(G) /\ G # {} /\ 0 \in G
      BY <2>2
    <3> HIDE DEF G
    <3>2. Max(G) \in G /\ Max(G) >= 0
      BY <3>1, MaxIs
    <3> QED
      BY <3>2 DEF G
  <2> DEFINE m == Max(gaps(d))
             w == IF q[d] <= p[d] THEN p[d] - q[d] ELSE q[d] - p[d]
  <2>4. m \in {0, a.min[d] - b.max[d], b.min[d] - a.max[d]} /\ m >= 0
    BY <2>3
  <2> HIDE DEF m
  <2>5. m \in Nat /\ w \in Nat /\ m <= w
    BY <2>1, <2>4
  <2>6. m * m <= w * w
    <3> HIDE DEF w
    <3> QED
      BY <2>5, Squares
  <2>7. w * w = (q[d] - p[d]) * (q[d] - p[d])
    <3>1. CASE q[d] <= p[d]
      <4>1. w = p[d] - q[d]
        BY <3>1
      <4>2. \A i, j \in Int : (j - i) * (j - i) = (i - j) * (i - j)
        OBVIOUS
      <4> HIDE DEF w
      <4> QED
        BY <2>1, <4>1, <4>2
    <3>2. CASE ~(q[d] <= p[d])
      <4>1. w = q[d] - p[d]
        BY <3>2
      <4> QED
        BY <4>1
    <3> QED
      BY <3>1, <3>2
  <2>8. gap[d] = m /\ gap[d] - zero[d] = m
    BY <2>5 DEF m
  <2> HIDE DEF w, gap, zero
  <2>9. zero[d] = 0
    BY DEF zero
  <2> QED
    BY <2>5, <2>6, <2>7, <2>8, <2>9
<1>2. IsPoint(gap) /\ IsPoint(zero)
  BY <1>1 DEF IsPoint
<1>3. BoxDistance(a, b) = Cost(gap, zero)
  BY DEF BoxDistance
<1> HIDE DEF gap, zero
<1>4. Cost(gap, zero) \in Nat /\ Cost(gap, zero) <= Cost(q, p)
  BY <1>1, <1>2, CostBounds, CostGrows
<1> QED
  BY <1>3, <1>4

-----------------------------------------------------------------------------
(* Buffers *)

LEMMA FullIs ==
  ASSUME NEW q, NEW b, CostsAre(q, b.elems), IsFull(q, b)
  PROVE  /\ HasK(b) /\ RadiusOf(q, b) = Cost(q, b.kth) /\ b.kth \in b.elems
         /\ \A p \in b.elems : Cost(q, p) <= RadiusOf(q, b)
<1>1. ptr(b) = k /\ b.kth \in b.elems /\ \A p \in b.elems : Cost(q, p) <= Cost(q, b.kth)
  BY DEF IsFull, Farthest
<1>2. HasK(b)
  BY <1>1, kAssumption DEF HasK
<1> QED
  BY <1>1, <1>2 DEF RadiusOf

\* The points of a query, with their distances
Measured(q, points) ==
  /\ IsFiniteSet(points) /\ Infinity \in Nat
  /\ \A p \in points : Cost(q, p) \in Nat /\ Cost(q, p) < Infinity

LEMMA RadiusIs ==
  ASSUME NEW points, NEW q, Measured(q, points), NEW b \in Buffers(points),
         HasK(b) => IsFull(q, b)
  PROVE  /\ RadiusOf(q, b) \in 0..Infinity
         /\ RadiusOf(q, b) = Infinity \/ Within(q, b.elems, RadiusOf(q, b))
         /\ HasK(b) => /\ ptr(b) = k /\ b.kth \in b.elems
                       /\ \A p \in b.elems : Cost(q, p) <= RadiusOf(q, b)
         /\ ptr(b) \in Nat /\ ptr(b) <= k
<1>1. b.elems \in SUBSET points /\ IsFiniteSet(b.elems)
  BY FS_Subset DEF Buffers, Measured
<1>2. ptr(b) \in Nat
  BY <1>1, FS_CardinalityType DEF ptr
<1>3. CASE HasK(b)
  <2>1. CostsAre(q, b.elems)
    BY <1>1 DEF CostsAre, Measured
  <2>2. /\ RadiusOf(q, b) = Cost(q, b.kth) /\ b.kth \in b.elems
        /\ \A p \in b.elems : Cost(q, p) <= RadiusOf(q, b)
    BY <1>3, <2>1, FullIs
  <2>3. ptr(b) = k
    BY <1>3 DEF IsFull
  <2>4. Within(q, b.elems, RadiusOf(q, b))
    BY <1>1, <2>2, <2>3, SizeWithin DEF ptr
  <2>5. RadiusOf(q, b) \in 0..Infinity
    BY <1>1, <2>2 DEF Measured
  <2> QED
    BY <1>2, <2>2, <2>3, <2>4, <2>5, kAssumption
<1>4. CASE ~HasK(b)
  <2>1. RadiusOf(q, b) = Infinity
    BY <1>4 DEF RadiusOf
  <2>2. ptr(b) <= k
    BY <1>2, <1>4, kAssumption DEF HasK
  <2> QED
    BY <1>2, <1>4, <2>1, <2>2 DEF Measured
<1> QED
  BY <1>3, <1>4

\* What becomes of buffer b when c has been made of it, with the points of S
Grows(q, b, c, S) ==
  /\ HasK(c) => IsFull(q, c)
  /\ HasK(b) => HasK(c)
  /\ RadiusOf(q, c) <= RadiusOf(q, b)
  /\ \A v \in Int : Within(q, b.elems, v) => Within(q, c.elems, v)
  /\ \A p \in b.elems \cup S : p \in c.elems \/ Within(q, c.elems, Cost(q, p))

LEMMA KeptIs ==
  ASSUME NEW points, NEW q, Measured(q, points), NEW b \in Buffers(points),
         HasK(b) => IsFull(q, b), NEW S \in SUBSET points, NEW grown \in Buffers(points),
         grown.elems = b.elems \cup S, ~grown.cached, HasK(grown), NEW c \in KeepK(q, grown)
  PROVE  c \in Buffers(points) /\ Grows(q, b, c, S)
<1>1. CostsAre(q, points) /\ IsFiniteSet(points)
  BY DEF Measured, CostsAre
<1>2. c \in Buffers(points) /\ IsFull(q, c) /\ c.elems \in KNearest(q, grown.elems)
  BY <1>1, KeepKIs
<1>3. grown.elems \in SUBSET points
  BY DEF Buffers
<1>4. ASSUME NEW v \in Int, Within(q, b.elems, v)  PROVE Within(q, c.elems, v)
  <2>1. Within(q, grown.elems \cup {}, v)
    BY <1>4, WithinMore
  <2>2. CostsAre(q, grown.elems \cup {})
    BY <1>1, <1>3 DEF CostsAre
  <2>3. Within(q, c.elems \cup {}, v)
    BY <1>2, <2>1, <2>2, WithinKept
  <2> QED
    BY <2>3, WithinMore
<1>5. ASSUME NEW p \in b.elems \cup S, p \notin c.elems  PROVE Within(q, c.elems, Cost(q, p))
  BY <1>2, <1>5, WithinDropped
<1>6. HasK(c) /\ ptr(c) = k /\ RadiusOf(q, c) \in 0..Infinity
      /\ c.kth \in c.elems /\ RadiusOf(q, c) = Cost(q, c.kth)
  <2>1. HasK(c) /\ ptr(c) = k
    BY <1>2, kAssumption DEF IsFull, HasK
  <2>2. RadiusOf(q, c) \in 0..Infinity /\ c.kth \in c.elems
    BY <1>2, <2>1, RadiusIs
  <2> QED
    BY <2>1, <2>2 DEF RadiusOf
<1>7. RadiusOf(q, c) <= RadiusOf(q, b)
  <2>1. /\ RadiusOf(q, b) \in 0..Infinity
        /\ RadiusOf(q, b) = Infinity \/ Within(q, b.elems, RadiusOf(q, b))
    BY RadiusIs
  <2>2. CASE RadiusOf(q, b) = Infinity
    BY <1>6, <2>2 DEF Measured
  <2>3. CASE Within(q, b.elems, RadiusOf(q, b))
    <3>1. Within(q, c.elems, RadiusOf(q, b))
      BY <1>4, <2>1, <2>3
    <3>2. IsFiniteSet(c.elems)
      BY <1>1, <1>2, FS_Subset DEF Buffers
    <3>3. \A p \in c.elems : Cost(q, p) <= RadiusOf(q, b)
      BY <1>6, <3>1, <3>2, WithinAll DEF ptr
    <3> QED
      BY <1>6, <3>3
  <2> QED
    BY <2>1, <2>2, <2>3
<1> QED
  BY <1>2, <1>4, <1>5, <1>6, <1>7 DEF Grows

LEMMA RelaxedIs ==
  ASSUME NEW points, NEW q, Measured(q, points), NEW b \in Buffers(points),
         HasK(b) => IsFull(q, b), NEW S \in SUBSET points, NEW c \in Relaxed(q, b, S)
  PROVE  c \in Buffers(points) /\ Grows(q, b, c, S)
<1> DEFINE near == {p \in S : Cost(q, p) <= RadiusOf(q, b)}
           grown == [elems |-> b.elems \cup near, kth |-> b.kth, cached |-> FALSE]
<1>1. /\ RadiusOf(q, b) \in 0..Infinity
      /\ RadiusOf(q, b) = Infinity \/ Within(q, b.elems, RadiusOf(q, b))
  BY RadiusIs
<1>2. \A p \in S : p \in near \/ Within(q, b.elems, Cost(q, p))
  <2> SUFFICES ASSUME NEW p \in S, p \notin near  PROVE Within(q, b.elems, Cost(q, p))
    OBVIOUS
  <2>1. Cost(q, p) \in Nat /\ Cost(q, p) < Infinity /\ RadiusOf(q, b) < Cost(q, p)
    BY <1>1 DEF Measured
  <2>2. PICK K \in SUBSET b.elems : Cardinality(K) = k /\ \A x \in K : Cost(q, x) <= RadiusOf(q, b)
    BY <1>1, <2>1 DEF Within
  <2>3. \A x \in K : Cost(q, x) \in Nat
    BY <2>2 DEF Buffers, Measured
  <2>4. \A x \in K : Cost(q, x) <= Cost(q, p)
    BY <1>1, <2>1, <2>2, <2>3
  <2> QED
    BY <2>2, <2>4 DEF Within
<1>3. grown \in Buffers(points) /\ grown.elems = b.elems \cup near /\ ~grown.cached
  BY DEF Buffers
<1>4. near \in SUBSET points
  OBVIOUS
<1>5. c \in IF near = {} THEN {b} ELSE IF HasK(grown) THEN KeepK(q, grown) ELSE {grown}
  BY DEF Relaxed
<1> HIDE DEF near, grown
<1>6. CASE near = {}
  <2>1. c = b
    BY <1>5, <1>6
  <2> QED
    BY <1>1, <1>2, <1>6, <2>1 DEF Grows
<1>7. CASE near # {} /\ HasK(grown)
  <2>1. c \in KeepK(q, grown)
    BY <1>5, <1>7
  <2>2. c \in Buffers(points) /\ Grows(q, b, c, near)
    BY <1>3, <1>4, <1>7, <2>1, KeptIs
  <2>3. \A p \in S : p \in near \/ Within(q, c.elems, Cost(q, p))
    BY <1>2, <2>2 DEF Grows, Measured
  <2> QED
    BY <2>2, <2>3 DEF Grows
<1>8. CASE near # {} /\ ~HasK(grown)
  <2>1. c = grown
    BY <1>5, <1>8
  <2>2. ~HasK(b)
    <3>1. IsFiniteSet(grown.elems) /\ IsFiniteSet(b.elems)
      BY <1>3, FS_Subset DEF Buffers, Measured
    <3>2. Cardinality(b.elems) <= Cardinality(grown.elems)
          /\ Cardinality(b.elems) \in Nat /\ Cardinality(grown.elems) \in Nat
      BY <1>3, <3>1, FS_Subset, FS_CardinalityType
    <3> QED
      BY <1>8, <3>2, kAssumption DEF HasK, ptr
  <2>3. RadiusOf(q, b) = Infinity /\ RadiusOf(q, c) = Infinity
    BY <1>8, <2>1, <2>2 DEF RadiusOf
  <2>4. \A v \in Int : Within(q, b.elems, v) => Within(q, c.elems, v)
    BY <1>3, <2>1, WithinMore
  <2>5. \A p \in S : p \in near \/ Within(q, c.elems, Cost(q, p))
    BY <1>2, <2>4 DEF Measured
  <2> QED
    BY <1>3, <1>8, <2>1, <2>2, <2>3, <2>4, <2>5 DEF Grows, Measured
<1> QED
  BY <1>6, <1>7, <1>8

-----------------------------------------------------------------------------
(* The initial states *)

LEMMA TreesAreDescribed ==
  ASSUME NEW t \in AllTrees
  PROVE  Described(t, Points)
BY TreesAssumption DEF Described

LEMMA TreesOfAre ==
  ASSUME NEW lt \in LogTrees
  PROVE  /\ TreesOf(lt) \in Seq(AllTrees) /\ Len(TreesOf(lt)) \in Nat \ {0}
         /\ DOMAIN TreesOf(lt) = 1..Len(TreesOf(lt))
         /\ UNION {TreesOf(lt)[i].present : i \in 1..Len(TreesOf(lt))}
              = UNION {t.present : t \in Range(TreesOf(lt))}
<1>1. lt.buffer \in Seq(AllTrees) /\ lt.static \in Seq(AllTrees) /\ TreesOf(lt) # <<>>
  BY LogTreesAssumption
<1>2. TreesOf(lt) \in Seq(AllTrees)
  BY <1>1 DEF TreesOf
<1> DEFINE ts == TreesOf(lt)
<1>3. ts \in Seq(AllTrees) /\ ts # <<>>
  BY <1>1, <1>2
<1> HIDE DEF ts
<1>4. Len(ts) \in Nat \ {0} /\ DOMAIN ts = 1..Len(ts)
  BY <1>3
<1>5. Range(ts) = {ts[i] : i \in 1..Len(ts)}
  BY <1>4 DEF Range
<1>6. UNION {ts[i].present : i \in 1..Len(ts)} = UNION {t.present : t \in Range(ts)}
  BY <1>5
<1> QED
  BY <1>3, <1>4, <1>6 DEF ts

LEMMA InitInputs ==
  ASSUME Init
  PROVE  InputsInv
<1>1. mode \in Modes /\ owner \in {"KdTree", "LogTree"} /\ apart \in BOOLEAN /\ has_buffer \in BOOLEAN
      /\ (mode = "NONATOMIC_LEAF" => ~apart)
  BY DEF Init
<1>2. Shape(queryTree, UNION QuerySets) /\ Full(queryTree)
  <2>1. PICK S \in QuerySets :
          queryTree = NodesByPath([built |-> S, present |-> S, tight |-> TRUE, half |-> FALSE])
    BY DEF Init
  <2> DEFINE t == [built |-> S, present |-> S, tight |-> TRUE, half |-> FALSE]
  <2>2. t.built = S /\ t.present = S /\ t.tight = TRUE /\ t.half = FALSE
    OBVIOUS
  <2>3. S # {} /\ S \in SUBSET UNION QuerySets
    BY QueriesAssumption
  <2> HIDE DEF t
  <2>4. Described(t, UNION QuerySets)
    BY <2>2, <2>3 DEF Described
  <2>5. Shape(NodesByPath(t), UNION QuerySets) /\ Full(NodesByPath(t))
    BY <2>2, <2>4, InputsArePoints, NodesByPathIs
  <2> QED
    BY <2>1, <2>5 DEF t
<1>3. CASE owner = "KdTree"
  <2>1. apart = FALSE /\ has_buffer = FALSE /\ \E t \in KdTrees : rtrees = <<NodesByPath(t)>>
    BY <1>3 DEF Init
  <2>2. PICK t \in KdTrees : rtrees = <<NodesByPath(t)>>
    BY <2>1
  <2>3. Shape(NodesByPath(t), Points) /\ NodesByPath(t)[<<>>].points # {}
    <3>1. t \in AllTrees
      BY DEF AllTrees
    <3>2. Described(t, Points)
      BY <3>1, TreesAreDescribed
    <3> QED
      BY <3>2, InputsArePoints, NodesByPathIs DEF Described
  <2>4. Len(rtrees) = 1 /\ rtrees[1] = NodesByPath(t)
    BY <2>2
  <2>5. \A u \in Trees : u = 1
    BY <2>4 DEF Trees
  <2> QED
    BY <1>1, <1>2, <1>3, <2>1, <2>3, <2>4, <2>5 DEF InputsInv
<1>4. CASE owner = "LogTree"
  <2>1. PICK lt \in LogTrees : rtrees = [t \in DOMAIN TreesOf(lt) |-> NodesByPath(TreesOf(lt)[t])]
    BY <1>4 DEF Init
  <2> DEFINE ts == TreesOf(lt)
             n == Len(ts)
  <2>2. /\ ts \in Seq(AllTrees) /\ n \in Nat \ {0} /\ DOMAIN ts = 1..n
        /\ UNION {ts[i].present : i \in 1..n} = UNION {t.present : t \in Range(ts)}
    BY TreesOfAre
  <2>3. Cardinality(UNION {t.present : t \in Range(ts)}) >= k
    BY LogTreesAssumption
  <2> HIDE DEF n, ts
  <2>4. rtrees = [t \in 1..n |-> NodesByPath(ts[t])]
    BY <2>1, <2>2 DEF ts
  <2>5. Len(rtrees) = n /\ Trees = 1..n
    BY <2>2, <2>4 DEF Trees
  <2>6. \A t \in 1..n : ts[t] \in AllTrees
    BY <2>2
  <2>7. \A t \in 1..n : /\ Shape(rtrees[t], Points) /\ rtrees[t][<<>>].points = ts[t].present
                       /\ rtrees[t][<<>>].points # {}
    <3> SUFFICES ASSUME NEW t \in 1..n
                 PROVE  /\ Shape(NodesByPath(ts[t]), Points)
                        /\ NodesByPath(ts[t])[<<>>].points = ts[t].present
                        /\ ts[t].present # {}
      BY <2>4
    <3>1. Described(ts[t], Points)
      BY <2>6, TreesAreDescribed
    <3> QED
      BY <3>1, InputsArePoints, NodesByPathIs DEF Described
  <2>8. {rtrees[t][<<>>].points : t \in 1..n} = {ts[t].present : t \in 1..n}
    BY <2>7
  <2>9. Cardinality(AllPoints) >= k
    BY <2>2, <2>3, <2>5, <2>8 DEF AllPoints
  <2> QED
    BY <1>1, <1>2, <1>4, <2>2, <2>5, <2>7, <2>9 DEF InputsInv
<1> QED
  BY <1>1, <1>3, <1>4

LEMMA InfinityIs ==
  ASSUME InputsInv
  PROVE  /\ Infinity \in Nat
         /\ Queries \in SUBSET UNION QuerySets /\ Queries # {}
         /\ AllPoints \in SUBSET Points
         /\ \A q \in Queries : Measured(q, AllPoints)
         /\ IsFiniteSet(Queries)
<1>1. Queries \in SUBSET UNION QuerySets /\ Queries # {}
  BY DEF InputsInv, Shape, Full, Queries
<1>2. \A t \in Trees : rtrees[t][<<>>].points \in SUBSET Points
  BY DEF InputsInv, Shape
<1>3. AllPoints \in SUBSET Points
  BY <1>2 DEF AllPoints
<1>4. IsFiniteSet(AllPoints) /\ IsFiniteSet(Queries)
  BY <1>1, <1>3, InputsArePoints, FS_Subset DEF ArePoints
<1>5. Infinity \in Nat
  <2>1. Queries # {} /\ Points # {}
    <3>1. 1 \in Trees
      BY DEF InputsInv, Trees
    <3> QED
      BY <1>1, <1>2, <3>1 DEF InputsInv
  <2> QED
    BY <1>1, <2>1, CostsAreFinite
<1> QED
  BY <1>1, <1>3, <1>4, <1>5, CostsAreFinite DEF Measured

LEMMA QueryNodesAre ==
  ASSUME InputsInv, NEW n \in QNodes
  PROVE  /\ n \in Paths /\ queryTree[n].points \in SUBSET Queries /\ queryTree[n].points # {}
         /\ IsFiniteSet(queryTree[n].points)
         /\ BoxHolds(queryTree[n].box, queryTree[n].points)
         /\ ~IsLeafNode(queryTree[n]) =>
              /\ \A i \in 1..2 : Append(n, i) \in QNodes
              /\ queryTree[n].points = UNION {queryTree[Append(n, i)].points : i \in 1..2}
<1>1. /\ n \in Paths /\ queryTree[n].points \in SUBSET Queries /\ queryTree[n].points # {}
      /\ BoxHolds(queryTree[n].box, queryTree[n].points)
  BY DEF InputsInv, Shape, Full, QNodes, Queries
<1>2. IsFiniteSet(queryTree[n].points)
  BY <1>1, InfinityIs, FS_Subset
<1> DEFINE m == queryTree[n].degree
<1>3. /\ m \in 0..2 /\ m # 1
      /\ \A i \in 1..m : Append(n, i) \in QNodes
      /\ m # 0 => queryTree[n].points = UNION {queryTree[Append(n, i)].points : i \in 1..m}
  BY DEF InputsInv, Shape, Full, QNodes
<1>4. ~IsLeafNode(queryTree[n]) => m = 2
  BY <1>3 DEF IsLeafNode
<1> HIDE DEF m
<1> QED
  BY <1>1, <1>2, <1>3, <1>4

LEMMA NewBufferIs ==
  ASSUME NEW q, NEW points
  PROVE  /\ NewBuffer \in Buffers(points) /\ NewBuffer.elems = {} /\ ~HasK(NewBuffer)
         /\ RadiusOf(q, NewBuffer) = Infinity
         /\ \A v : ~Within(q, {}, v)
<1>1. ~HasK(NewBuffer)
  BY FS_EmptySet, kAssumption DEF HasK, ptr, NewBuffer
<1>2. ASSUME NEW v, Within(q, {}, v)  PROVE FALSE
  BY <1>2, FS_EmptySet, WithinSize, kAssumption
<1> QED
  BY <1>1, <1>2 DEF NewBuffer, Buffers, RadiusOf

LEMMA InitInv ==
  ASSUME Init
  PROVE  IInv
<1>1. InputsInv
  BY InitInputs
<1>2. Infinity \in Nat
  BY <1>1, InfinityIs
<1>3. \A t \in Trees : /\ status[t] \in {"called", "waiting"}
                       /\ status[t] = IF apart \/ t = 1 THEN "called" ELSE "waiting"
                       /\ calls[t] = <<>> /\ DOMAIN calls[t] = {}
  BY DEF Init
<1>4. /\ status = [t \in Trees |-> status[t]] /\ calls = [t \in Trees |-> calls[t]]
      /\ res = <<>>
  BY DEF Init
<1>5. \A s \in Slots, q \in Queries : bufs[s][q] = NewBuffer
  BY DEF Init
<1>6. bufs \in [Slots -> [Queries -> Buffers(AllPoints)]]
  <2>1. NewBuffer \in Buffers(AllPoints)
    BY NewBufferIs
  <2> QED
    BY <2>1 DEF Init
<1>7. Trees = 1..Len(rtrees) /\ Len(rtrees) \in Nat \ {0}
  BY <1>1 DEF Trees, InputsInv
<1>8. StateInv
  BY <1>3, <1>4 DEF StateInv
<1>9. CallsInv
  BY <1>3, <1>4 DEF CallsInv, CallsAre, NoneCross, RootLast
<1>10. OrderInv
  BY <1>3, <1>7 DEF OrderInv
<1>11. BuffersInv
  <2>1. \A s \in Slots, q \in Queries : ~HasK(bufs[s][q])
    BY <1>5, NewBufferIs
  <2>2. Slot(1) \in Slots /\ status[1] = "called"
    BY <1>3, <1>7 DEF Slots
  <2> QED
    BY <1>5, <1>6, <2>1, <2>2 DEF BuffersInv
<1>12. \A t \in Trees, n \in QNodes : dist[DistSlot(t)][n] = Infinity
  BY DEF Init
<1>13. DistInv
  <2>1. dist \in [{DistSlot(t) : t \in Trees} -> [QNodes -> 0..Infinity]]
    <3>1. Infinity \in 0..Infinity
      BY <1>2
    <3> QED
      BY <3>1 DEF Init
  <2>2. ASSUME NEW t \in Trees, NEW n \in QNodes
        PROVE  NotBelow(t, n, Infinity)
    <3>1. Slot(t) \in Slots
      BY DEF Slots
    <3>2. \A q \in queryTree[n].points : bufs[Slot(t)][q] = NewBuffer
      BY <1>1, <1>5, <3>1, QueryNodesAre
    <3>3. \A q \in queryTree[n].points : RadiusOf(q, bufs[Slot(t)][q]) <= Infinity
      BY <1>2, <3>2, NewBufferIs
    <3>4. ~IsLeafNode(queryTree[n]) => \A i \in 1..2 : dist[DistSlot(t)][Append(n, i)] <= Infinity
      BY <1>1, <1>2, <1>12, QueryNodesAre
    <3> QED
      BY <3>3, <3>4 DEF NotBelow
  <2> QED
    BY <1>12, <2>1, <2>2 DEF DistInv, IsBound
<1>14. RadiusInv
  BY <1>3 DEF RadiusInv
<1>15. CoverInv
  BY <1>3 DEF CoverInv
<1> QED
  BY <1>1, <1>8, <1>9, <1>10, <1>11, <1>13, <1>14, <1>15 DEF IInv

-----------------------------------------------------------------------------
(* What the inputs settle *)

LEMMA InputsStay ==
  ASSUME UNCHANGED inputs
  PROVE  /\ Trees' = Trees /\ Slots' = Slots /\ QNodes' = QNodes /\ Queries' = Queries
         /\ AllPoints' = AllPoints /\ mode' = mode /\ apart' = apart
         /\ has_buffer' = has_buffer /\ owner' = owner
         /\ queryTree' = queryTree /\ rtrees' = rtrees
         /\ SharesDists' = SharesDists /\ \A n : Bounded(n)' = Bounded(n)
         /\ \A t : /\ Slot(t)' = Slot(t) /\ DistSlot(t)' = DistSlot(t) /\ Root(t)' = Root(t)
                   /\ CallsOf(t)' = CallsOf(t) /\ PhasesOf(t)' = PhasesOf(t)
         /\ \A t, c : Phases(t, c)' = Phases(t, c)
         /\ \A t, c, q, p : Covers(t, c, q, p)' = Covers(t, c, q, p)
<1>1. /\ mode' = mode /\ owner' = owner /\ apart' = apart /\ queryTree' = queryTree
      /\ rtrees' = rtrees /\ has_buffer' = has_buffer
  BY DEF inputs
<1>2. Trees' = Trees /\ QNodes' = QNodes /\ Queries' = Queries
  BY <1>1 DEF Trees, QNodes, Queries
<1>3. \A t : Slot(t)' = Slot(t) /\ DistSlot(t)' = DistSlot(t) /\ Root(t)' = Root(t)
  BY <1>1 DEF Slot, DistSlot, Root
<1>4. Slots' = Slots
  BY <1>1 DEF Slots, Slot, Trees
<1>5. AllPoints' = AllPoints
  BY <1>1 DEF AllPoints, Trees
<1>6. \A t : CallsOf(t)' = CallsOf(t)
  BY <1>1 DEF CallsOf, QNodes
<1>7. \A t, c : Phases(t, c)' = Phases(t, c)
  BY <1>1 DEF Phases, QNode, RNode, IsLeafNode, HasOnlyChild, ForwardPhases, LeafQPhases,
              LeafRPhases, InnerPhases, CloserChild
<1>8. \A t : PhasesOf(t)' = PhasesOf(t)
  BY <1>1 DEF PhasesOf, CallsOf, QNodes, Phases, QNode, RNode, IsLeafNode, HasOnlyChild,
              ForwardPhases, LeafQPhases, LeafRPhases, InnerPhases, CloserChild
<1>9. \A t, c, q, p : Covers(t, c, q, p)' = Covers(t, c, q, p)
  BY <1>1 DEF Covers, QNode, RNode
<1>10. SharesDists' = SharesDists /\ \A n : Bounded(n)' = Bounded(n)
  BY <1>1 DEF SharesDists, Bounded, IsLeafNode
<1> QED
  BY <1>1, <1>2, <1>3, <1>4, <1>5, <1>6, <1>7, <1>8, <1>9, <1>10

LEMMA InputsInvStays ==
  ASSUME InputsInv, UNCHANGED inputs
  PROVE  InputsInv'
BY InputsStay DEF InputsInv

-----------------------------------------------------------------------------
(* The calls, step by step *)

LEMMA StateIs ==
  ASSUME NEW at, NEW n
  PROVE  State(at, n).at = at /\ State(at, n).n = n /\ SeenAre(State(at, n).seen)
<1>1. PICK none : none = <<>> /\ DOMAIN none = {}
  OBVIOUS
<1>2. State(at, n).at = at /\ State(at, n).n = n /\ State(at, n).seen = none
  BY <1>1 DEF State
<1> QED
  BY <1>1, <1>2 DEF SeenAre

LEMMA CallsOfTree ==
  ASSUME InputsInv, CallsInv, NEW t \in Trees
  PROVE  /\ WellFormed(PhasesOf(t), CallsOf(t))
         /\ DOMAIN calls[t] \in SUBSET CallsOf(t)
         /\ \A d \in DOMAIN calls[t] : calls[t][d].at = "phase" =>
              calls[t][d].n \in DOMAIN PhasesOf(t)[d]
         /\ NoneCross(PhasesOf(t), calls[t])
         /\ RootLast(Root(t), calls[t])
         /\ \A d \in DOMAIN calls[t] : PhasesOf(t)[d] = Phases(t, d)
<1>1. DOMAIN calls[t] \in SUBSET CallsOf(t)
  BY DEF CallsInv, CallsAre
<1>2. \A d \in DOMAIN calls[t] : PhasesOf(t)[d] = Phases(t, d)
  BY <1>1 DEF PhasesOf
<1>3. \A d \in DOMAIN calls[t] : DOMAIN Phases(t, d) = 1..Len(Phases(t, d))
  BY <1>1, PhasesAre DEF MakesAll
<1> QED
  BY <1>1, <1>2, <1>3, PhasesAreWellFormed DEF CallsInv, CallsAre

\* The trees whose calls do not change
LEMMA OtherCalls ==
  ASSUME InputsInv, CallsInv, UNCHANGED <<inputs, status>>, NEW t \in Trees,
         calls' = [calls EXCEPT ![t] = calls'[t]],
         CallsAre(t)', NoneCross(PhasesOf(t), calls'[t]), RootLast(Root(t), calls'[t])
  PROVE  CallsInv'
<1>1. UNCHANGED inputs /\ status' = status
  OBVIOUS
<1>2. calls = [u \in Trees |-> calls[u]]
  BY DEF CallsInv
<1>3. \A u \in Trees : u # t => calls'[u] = calls[u]
  BY <1>2
<1>4. calls' = [u \in Trees |-> calls'[u]]
  BY <1>2
<1>5. ASSUME NEW u \in Trees, u # t
      PROVE  CallsAre(u)' /\ NoneCross(PhasesOf(u), calls'[u]) /\ RootLast(Root(u), calls'[u])
  <2>1. CallsAre(u) /\ NoneCross(PhasesOf(u), calls[u]) /\ RootLast(Root(u), calls[u])
    BY DEF CallsInv
  <2>2. CallsAre(u)'
    BY <1>1, <1>3, <1>5, <2>1, InputsStay DEF CallsAre
  <2> QED
    BY <1>3, <1>5, <2>1, <2>2
<1>6. \A u \in Trees : /\ CallsAre(u)' /\ NoneCross(PhasesOf(u), calls'[u])
                       /\ RootLast(Root(u), calls'[u])
  BY <1>5
<1>7. \A u : PhasesOf(u)' = PhasesOf(u) /\ Root(u)' = Root(u)
  BY <1>1, InputsStay
<1>8. Trees' = Trees
  BY <1>1, InputsStay
<1> QED
  BY <1>4, <1>6, <1>7, <1>8 DEF CallsInv

\* Call c of tree t is about to go on.
Ready(t, c) == Idle(PhasesOf(t), calls[t], c)

LEMMA GoesStep ==
  ASSUME InputsInv, CallsInv, UNCHANGED <<inputs, status>>, NEW t \in Trees,
         NEW c \in DOMAIN calls[t], Ready(t, c), NEW st, Goes(t, c, st),
         st.at \in {"radius", "returned"}, st.n \in Nat, SeenAre(st.seen)
  PROVE  /\ CallsInv'
         /\ calls'[t] = [calls[t] EXCEPT ![c] = st]
         /\ \A u \in Trees : u # t => calls'[u] = calls[u]
<1> DEFINE P == PhasesOf(t)
           C == CallsOf(t)
           f == calls[t]
           g == calls'[t]
<1>1. UNCHANGED inputs /\ status' = status
  OBVIOUS
<1>2. calls = [u \in Trees |-> calls[u]]
  BY DEF CallsInv
<1>3. g = [f EXCEPT ![c] = st] /\ \A u \in Trees : u # t => calls'[u] = calls[u]
  BY <1>2 DEF Goes
<1>4. calls' = [calls EXCEPT ![t] = calls'[t]]
  BY <1>2 DEF Goes
<1>5. DOMAIN g = DOMAIN f /\ g[c] = st /\ \A d \in DOMAIN f : d # c => g[d] = f[d]
  BY <1>3
<1>6. NoneCross(P, g)
  <2>1. /\ WellFormed(P, C) /\ DOMAIN f \in SUBSET C
        /\ \A d \in DOMAIN f : f[d].at = "phase" => f[d].n \in DOMAIN P[d]
        /\ NoneCross(P, f) /\ Idle(P, f, c)
    BY CallsOfTree DEF Ready
  <2>2. g[c].at \in {"radius", "returned"}
    BY <1>5
  <2> HIDE DEF P, C, f, g
  <2> QED
    BY <1>5, <2>1, <2>2, GoesKeeps DEF f
<1>7. RootLast(Root(t), g)
  <2>1. f[c].at # "returned" /\ RootLast(Root(t), f)
    BY CallsOfTree DEF Ready, Idle
  <2>2. CASE Root(t) # c
    <3>1. f[Root(t)].at # "returned" /\ Root(t) \in DOMAIN f
      BY <2>1 DEF RootLast, CallsInv, CallsAre
    <3>2. g[Root(t)].at # "returned"
      BY <1>5, <2>2, <3>1
    <3> QED
      BY <3>2 DEF RootLast
  <2>3. CASE Root(t) = c
    <3>1. /\ WellFormed(P, C) /\ DOMAIN f \in SUBSET C
          /\ \A d \in DOMAIN f : f[d].at = "phase" => f[d].n \in DOMAIN P[d]
          /\ NoneCross(P, f) /\ Idle(P, f, c)
      BY CallsOfTree DEF Ready
    <3>2. c.q = <<>> /\ c.r = <<>>
      BY <2>3 DEF Root, UpdateCall, KnnCall
    <3>3. \A d \in DOMAIN f : d # c => f[d].at = "returned"
      <4> HIDE DEF P, C, f
      <4> QED
        BY <3>1, <3>2, RootIsLast DEF f
    <3> QED
      BY <1>5, <2>3, <3>3 DEF RootLast
  <2> QED
    BY <2>2, <2>3
<1>8. CallsAre(t)'
  <2>1. CallsAre(t)
    BY DEF CallsInv
  <2>2. /\ \A d : Phases(t, d)' = Phases(t, d)
        /\ CallsOf(t)' = CallsOf(t) /\ Root(t)' = Root(t) /\ has_buffer' = has_buffer
    BY <1>1, InputsStay
  <2>3. \A d \in DOMAIN f : /\ g[d].at \in {"entered", "phase", "radius", "returned"}
                            /\ g[d].n \in Nat
                            /\ g[d].at = "phase" => g[d].n \in 1..Len(Phases(t, d))
                            /\ d.op = "updateDualDist" => has_buffer /\ t = 1
                            /\ SeenAre(g[d].seen)
    BY <1>5, <2>1 DEF CallsAre
  <2> HIDE DEF P, C
  <2> QED
    BY <1>1, <1>5, <2>1, <2>2, <2>3 DEF CallsAre
<1>9. CallsInv'
  BY <1>1, <1>4, <1>6, <1>7, <1>8, OtherCalls
<1> QED
  BY <1>3, <1>9

LEMMA ForkStep ==
  ASSUME InputsInv, CallsInv, UNCHANGED <<inputs, status>>, NEW t \in Trees,
         NEW c \in DOMAIN calls[t], Ready(t, c), NEW n \in 1..Len(Phases(t, c)), Fork(t, c, n)
  PROVE  /\ CallsInv'
         /\ DOMAIN calls'[t] = DOMAIN calls[t] \cup Phases(t, c)[n]
         /\ calls'[t][c] = State("phase", n) /\ c \notin Phases(t, c)[n]
         /\ \A e \in Phases(t, c)[n] : calls'[t][e] = State("entered", 0)
         /\ \A d \in DOMAIN calls[t] : d # c /\ d \notin Phases(t, c)[n] => calls'[t][d] = calls[t][d]
         /\ \A u \in Trees : u # t => calls'[u] = calls[u]
<1> DEFINE P == PhasesOf(t)
           C == CallsOf(t)
           f == calls[t]
           g == calls'[t]
           kids == Phases(t, c)[n]
<1>1. UNCHANGED inputs /\ status' = status
  OBVIOUS
<1>2. calls = [u \in Trees |-> calls[u]]
  BY DEF CallsInv
<1>3. g = [d \in DOMAIN f \cup kids |->
             IF d = c THEN State("phase", n)
             ELSE IF d \in kids THEN State("entered", 0) ELSE f[d]]
      /\ \A u \in Trees : u # t => calls'[u] = calls[u]
  BY <1>2 DEF Fork
<1>4. calls' = [calls EXCEPT ![t] = calls'[t]]
  BY <1>2 DEF Fork
<1>5. /\ WellFormed(P, C) /\ DOMAIN f \in SUBSET C /\ c \in C
      /\ \A d \in DOMAIN f : f[d].at = "phase" => f[d].n \in DOMAIN P[d]
      /\ NoneCross(P, f) /\ Idle(P, f, c) /\ RootLast(Root(t), f)
      /\ P[c] = Phases(t, c) /\ n \in DOMAIN P[c]
  <2>1. DOMAIN Phases(t, c) = 1..Len(Phases(t, c))
    BY CallsOfTree, PhasesAre DEF MakesAll
  <2> QED
    BY <2>1, CallsOfTree DEF Ready
<1>6. \A e \in kids : e \in C /\ e.op = c.op /\ ~Leads(e, c)
  BY <1>5, PhasesAre DEF MakesAll, IsMade
<1>7. c \notin kids
  BY <1>5, <1>6, LeadsIs DEF WellFormed
<1> HIDE DEF kids
<1>8. /\ DOMAIN g = DOMAIN f \cup kids /\ g[c] = State("phase", n)
      /\ \A e \in kids : g[e] = State("entered", 0)
      /\ \A d \in DOMAIN f : d # c /\ d \notin kids => g[d] = f[d]
  BY <1>3, <1>7
<1>9. NoneCross(P, g)
  <2>1. /\ g[c].at = "phase" /\ g[c].n = n /\ \A e \in kids : g[e].at = "entered"
    BY <1>8 DEF State
  <2>2. P[c][n] = kids
    BY <1>5 DEF kids
  <2>3. c \in DOMAIN f
    OBVIOUS
  <2> HIDE DEF P, C, f, g
  <2>4. Forks(P, f, g, c, n)
    BY <1>8, <2>1, <2>2 DEF Forks
  <2>5. Idle(P, f, c) /\ NoneCross(P, f) /\ WellFormed(P, C) /\ DOMAIN f \in SUBSET C
        /\ (\A d \in DOMAIN f : f[d].at = "phase" => f[d].n \in DOMAIN P[d])
        /\ n \in DOMAIN P[c]
    BY <1>5
  <2> QED
    BY <2>3, <2>4, <2>5, ForkKeeps
<1>10. RootLast(Root(t), g)
  <2>1. f[c].at # "returned"
    BY DEF Ready, Idle
  <2>2. f[Root(t)].at # "returned" /\ Root(t) \in DOMAIN f
    BY <1>5, <2>1 DEF RootLast, CallsInv, CallsAre
  <2>3. g[Root(t)].at # "returned"
    BY <1>8, <2>2 DEF State
  <2> QED
    BY <2>3 DEF RootLast
<1>11. CallsAre(t)'
  <2>1. CallsAre(t)
    BY DEF CallsInv
  <2>2. /\ \A d : Phases(t, d)' = Phases(t, d)
        /\ CallsOf(t)' = CallsOf(t) /\ Root(t)' = Root(t) /\ has_buffer' = has_buffer
    BY <1>1, InputsStay
  <2>3. ASSUME NEW d \in DOMAIN f \cup kids
        PROVE  /\ g[d].at \in {"entered", "phase", "radius", "returned"}
               /\ g[d].n \in Nat
               /\ g[d].at = "phase" => g[d].n \in 1..Len(Phases(t, d))
               /\ d.op = "updateDualDist" => has_buffer /\ t = 1
               /\ SeenAre(g[d].seen)
    <3>1. CASE d = c
      <4>1. g[d].at = "phase" /\ g[d].n = n /\ SeenAre(g[d].seen)
        BY <1>8, <3>1, StateIs
      <4> QED
        BY <2>1, <3>1, <4>1 DEF CallsAre
    <3>2. CASE d \in kids
      <4>1. g[d].at = "entered" /\ g[d].n = 0 /\ SeenAre(g[d].seen)
        BY <1>8, <3>2, StateIs
      <4>2. d.op = c.op
        BY <1>6, <3>2
      <4> QED
        BY <2>1, <4>1, <4>2 DEF CallsAre
    <3>3. CASE d # c /\ d \notin kids
      BY <1>8, <2>1, <3>3 DEF CallsAre
    <3> QED
      BY <3>1, <3>2, <3>3
  <2>4. DOMAIN g \in SUBSET C
    BY <1>5, <1>6, <1>8
  <2>5. status[t] = "running"
    BY <2>1 DEF CallsAre
  <2>6. Root(t) \in DOMAIN g
    BY <1>8, <2>1, <2>5 DEF CallsAre
  <2> HIDE DEF P, f
  <2> QED
    BY <1>1, <1>8, <2>2, <2>3, <2>4, <2>5, <2>6 DEF CallsAre
<1>12. CallsInv'
  BY <1>1, <1>4, <1>9, <1>10, <1>11, OtherCalls
<1> QED
  BY <1>3, <1>7, <1>8, <1>12 DEF kids

-----------------------------------------------------------------------------
(* The distances, while the buffers fill *)

BuffersGrow ==
  /\ bufs' \in [Slots -> [Queries -> Buffers(AllPoints)]]
  /\ \A s \in Slots, q \in Queries : Grows(q, bufs[s][q], bufs'[s][q], {})

LEMMA SlotIs ==
  ASSUME NEW t \in Trees
  PROVE  Slot(t) \in Slots /\ DistSlot(t) \in {DistSlot(u) : u \in Trees}
BY DEF Slots

LEMMA BuffersAre ==
  ASSUME InputsInv, BuffersInv, NEW s \in Slots, NEW q \in Queries
  PROVE  /\ bufs[s][q] \in Buffers(AllPoints)
         /\ HasK(bufs[s][q]) => IsFull(q, bufs[s][q])
         /\ RadiusOf(q, bufs[s][q]) \in 0..Infinity /\ Infinity \in Nat
         /\ RadiusOf(q, bufs[s][q]) = Infinity \/ Within(q, bufs[s][q].elems, RadiusOf(q, bufs[s][q]))
         /\ ptr(bufs[s][q]) \in Nat /\ ptr(bufs[s][q]) <= k
<1>1. bufs[s][q] \in Buffers(AllPoints) /\ (HasK(bufs[s][q]) => IsFull(q, bufs[s][q]))
  BY DEF BuffersInv
<1>2. Measured(q, AllPoints) /\ Infinity \in Nat
  BY InfinityIs
<1> QED
  BY <1>1, <1>2, RadiusIs

LEMMA SameBuffers ==
  ASSUME InputsInv, BuffersInv, bufs' = bufs
  PROVE  BuffersGrow
<1>1. ASSUME NEW s \in Slots, NEW q \in Queries
      PROVE  Grows(q, bufs[s][q], bufs[s][q], {})
  BY BuffersAre DEF Grows
<1> QED
  BY <1>1 DEF BuffersGrow, BuffersInv

LEMMA RadiiShrink ==
  ASSUME InputsInv, BuffersInv, UNCHANGED inputs, BuffersGrow
  PROVE  \A t \in Trees, q \in Queries :
           /\ RadiusOf(q, bufs[Slot(t)][q]) \in 0..Infinity
           /\ RadiusOf(q, bufs'[Slot(t)][q]) \in 0..Infinity
           /\ RadiusOf(q, bufs'[Slot(t)][q]) <= RadiusOf(q, bufs[Slot(t)][q])
<1> SUFFICES ASSUME NEW s \in Slots, NEW q \in Queries
             PROVE  /\ RadiusOf(q, bufs[s][q]) \in 0..Infinity
                    /\ RadiusOf(q, bufs'[s][q]) \in 0..Infinity
                    /\ RadiusOf(q, bufs'[s][q]) <= RadiusOf(q, bufs[s][q])
  BY SlotIs
<1>1. /\ bufs'[s][q] \in Buffers(AllPoints) /\ (HasK(bufs'[s][q]) => IsFull(q, bufs'[s][q]))
      /\ RadiusOf(q, bufs'[s][q]) <= RadiusOf(q, bufs[s][q])
  BY DEF BuffersGrow, Grows
<1>2. Measured(q, AllPoints)
  BY InfinityIs
<1>3. RadiusOf(q, bufs'[s][q]) \in 0..Infinity
  BY <1>1, <1>2, RadiusIs
<1> QED
  BY <1>1, <1>3, BuffersAre

LEMMA BoundsStay ==
  ASSUME InputsInv, UNCHANGED inputs, BuffersGrow
  PROVE  /\ \A t \in Trees, q \in Queries, v \in Int : IsBound(t, q, v) => IsBound(t, q, v)'
         /\ \A q \in Queries, p \in AllPoints : Settled(q, p) => Settled(q, p)'
<1>1. Slots' = Slots /\ mode' = mode /\ SharesDists' = SharesDists /\ \A t : Slot(t)' = Slot(t)
  BY InputsStay
<1>2. ASSUME NEW t \in Trees, NEW q \in Queries, NEW v \in Int, IsBound(t, q, v)
      PROVE  IsBound(t, q, v)'
  <2>1. CASE v = Infinity
    BY <2>1 DEF IsBound
  <2>2. CASE v # Infinity
    <3>1. PICK s \in Slots : Within(q, bufs[s][q].elems, v) /\ (mode = "ARRAY" => s = Slot(t))
      BY <1>2, <2>2 DEF IsBound
    <3>2. Within(q, bufs'[s][q].elems, v)
      BY <3>1 DEF BuffersGrow, Grows
    <3> QED
      BY <1>1, <3>1, <3>2 DEF IsBound
  <2> QED
    BY <2>1, <2>2
<1>3. ASSUME NEW q \in Queries, NEW p \in AllPoints, Settled(q, p)
      PROVE  Settled(q, p)'
  <2>1. CASE SharesDists
    BY <1>1, <2>1 DEF Settled
  <2>2. CASE ~SharesDists
    <3>1. PICK s \in Slots : p \in bufs[s][q].elems \/ Within(q, bufs[s][q].elems, Cost(q, p))
      BY <1>3, <2>2 DEF Settled
    <3>2. Cost(q, p) \in Int
      BY InfinityIs DEF Measured
    <3>3. p \in bufs'[s][q].elems \/ Within(q, bufs'[s][q].elems, Cost(q, p))
      BY <3>1, <3>2 DEF BuffersGrow, Grows
    <3> QED
      BY <1>1, <3>3 DEF Settled
  <2> QED
    BY <2>1, <2>2
<1> QED
  BY <1>2, <1>3

\* No distance rises, and none of the buffers loses a candidate that is needed.
LEMMA NotBelowStays ==
  ASSUME InputsInv, BuffersInv, DistInv, UNCHANGED inputs, BuffersGrow,
         NEW t \in Trees, NEW n \in QNodes, NEW v \in Int, NotBelow(t, n, v),
         \A m \in QNodes : /\ dist'[DistSlot(t)][m] \in Int
                           /\ dist'[DistSlot(t)][m] <= dist[DistSlot(t)][m]
  PROVE  NotBelow(t, n, v)'
<1>1. queryTree' = queryTree /\ Slot(t)' = Slot(t) /\ DistSlot(t)' = DistSlot(t)
  BY InputsStay
<1>2. CASE IsLeafNode(queryTree[n])
  <2>1. \A q \in queryTree[n].points : RadiusOf(q, bufs[Slot(t)][q]) <= v
    BY <1>2 DEF NotBelow
  <2>2. \A q \in queryTree[n].points : q \in Queries
    BY QueryNodesAre
  <2>3. \A q \in queryTree[n].points : RadiusOf(q, bufs'[Slot(t)][q]) <= v
    BY <2>1, <2>2, RadiiShrink
  <2> QED
    BY <1>1, <1>2, <2>3 DEF NotBelow
<1>3. CASE ~IsLeafNode(queryTree[n])
  <2>1. \A i \in 1..2 : Append(n, i) \in QNodes /\ dist[DistSlot(t)][Append(n, i)] <= v
    BY <1>3, QueryNodesAre DEF NotBelow
  <2>2. \A m \in QNodes : dist[DistSlot(t)][m] \in Int
    BY SlotIs, InfinityIs DEF DistInv
  <2>3. \A i \in 1..2 : dist'[DistSlot(t)][Append(n, i)] <= v
    BY <2>1, <2>2
  <2> QED
    BY <1>1, <1>3, <2>3 DEF NotBelow
<1> QED
  BY <1>2, <1>3

\* A step that sets no distance
LEMMA DistStays ==
  ASSUME InputsInv, BuffersInv, DistInv, UNCHANGED <<inputs, dist>>, BuffersGrow
  PROVE  /\ DistInv'
         /\ \A t \in Trees, n \in QNodes : \A v : MaySet(t, n, v) => MaySet(t, n, v)'
<1>1. UNCHANGED inputs /\ dist' = dist
  OBVIOUS
<1>2. /\ Trees' = Trees /\ QNodes' = QNodes /\ queryTree' = queryTree /\ mode' = mode
      /\ \A t : DistSlot(t)' = DistSlot(t) /\ \A n : Bounded(n)' = Bounded(n)
  BY <1>1, InputsStay
<1>3. \A t \in Trees, n \in QNodes : dist[DistSlot(t)][n] \in Int
  BY SlotIs, InfinityIs DEF DistInv
<1>4. ASSUME NEW t \in Trees, NEW n \in QNodes, NEW v \in Int
      PROVE  /\ NotBelow(t, n, v) => NotBelow(t, n, v)'
             /\ \A q \in queryTree[n].points : IsBound(t, q, v) => IsBound(t, q, v)'
  <2>1. NotBelow(t, n, v) => NotBelow(t, n, v)'
    BY <1>1, <1>3, NotBelowStays
  <2>2. \A q \in queryTree[n].points : q \in Queries
    BY QueryNodesAre
  <2> QED
    BY <1>1, <2>1, <2>2, BoundsStay
<1>5. ASSUME NEW t \in Trees, NEW n \in QNodes, NEW v, MaySet(t, n, v)  PROVE MaySet(t, n, v)'
  <2>1. v \in Int
    BY <1>5, InfinityIs DEF MaySet
  <2> QED
    BY <1>1, <1>2, <1>4, <1>5, <2>1 DEF MaySet
<1>6. ASSUME NEW t \in Trees, NEW n \in QNodes
      PROVE  /\ Bounded(n) => \A q \in queryTree[n].points : IsBound(t, q, dist[DistSlot(t)][n])'
             /\ mode # "ATOMIC_LEAF" => NotBelow(t, n, dist[DistSlot(t)][n])'
  <2>1. PICK v \in Int : v = dist[DistSlot(t)][n]
    BY <1>3
  <2>2. (dist[DistSlot(t)][n])' = v
    BY <1>1, <1>2, <2>1
  <2>3. /\ Bounded(n) => \A q \in queryTree[n].points : IsBound(t, q, v)
        /\ mode # "ATOMIC_LEAF" => NotBelow(t, n, v)
    BY <2>1 DEF DistInv
  <2>4. /\ Bounded(n) => \A q \in queryTree[n].points : IsBound(t, q, v)'
        /\ mode # "ATOMIC_LEAF" => NotBelow(t, n, v)'
    BY <1>4, <2>3
  <2> QED
    BY <2>2, <2>4 DEF IsBound, NotBelow
<1>7. DistInv'
  <2>1. {DistSlot(t) : t \in Trees}' = {DistSlot(t) : t \in Trees}
    BY <1>2
  <2>2. (dist \in [{DistSlot(t) : t \in Trees} -> [QNodes -> 0..Infinity]])'
    BY <1>1, <1>2, <2>1 DEF DistInv
  <2> QED
    BY <1>2, <1>6, <2>2 DEF DistInv
<1> QED
  BY <1>5, <1>7

-----------------------------------------------------------------------------
(* The pairs of points *)

LEMMA LooksStay ==
  ASSUME UNCHANGED inputs, NEW t, NEW c, calls'[t][c] = calls[t][c], NEW q, NEW p,
         LooksAt(t, c, q, p)
  PROVE  LooksAt(t, c, q, p)'
<1>1. \A i, d : Phases(t, c)' = Phases(t, c) /\ Covers(t, d, q, p)' = Covers(t, d, q, p)
  BY InputsStay
<1> QED
  BY <1>1 DEF LooksAt

LEMMA GoesPending ==
  ASSUME InputsInv, CallsInv, UNCHANGED <<inputs, status>>, NEW t \in Trees,
         NEW c \in DOMAIN calls[t], Ready(t, c), NEW st, Goes(t, c, st),
         st.at \in {"radius", "returned"}, st.n \in Nat, SeenAre(st.seen),
         NEW u \in Trees, NEW q, NEW p, Pending(u, q, p)
  PROVE  Pending(u, q, p)' \/ (u = t /\ LooksAt(t, c, q, p))
<1>1. calls'[t] = [calls[t] EXCEPT ![c] = st] /\ \A w \in Trees : w # t => calls'[w] = calls[w]
  BY GoesStep
<1>2. PICK d \in DOMAIN calls[u] : LooksAt(u, d, q, p)
  BY DEF Pending
<1>3. CASE u = t /\ d = c
  BY <1>2, <1>3
<1>4. CASE ~(u = t /\ d = c)
  <2>1. d \in DOMAIN calls'[u] /\ calls'[u][d] = calls[u][d]
    BY <1>1, <1>4
  <2>2. UNCHANGED inputs
    OBVIOUS
  <2>3. LooksAt(u, d, q, p)'
    BY <1>2, <2>1, <2>2, LooksStay
  <2> QED
    BY <2>1, <2>3 DEF Pending
<1> QED
  BY <1>3, <1>4

LEMMA ForkPending ==
  ASSUME InputsInv, CallsInv, UNCHANGED <<inputs, status>>, NEW t \in Trees,
         NEW c \in DOMAIN calls[t], Ready(t, c), NEW n \in 1..Len(Phases(t, c)), Fork(t, c, n),
         \/ calls[t][c].at = "entered" /\ n = 1
         \/ calls[t][c].at = "phase" /\ n = calls[t][c].n + 1,
         NEW u \in Trees, NEW q, NEW p, Pending(u, q, p)
  PROVE  Pending(u, q, p)'
<1> DEFINE kids == Phases(t, c)[n]
<1>1. /\ DOMAIN calls'[t] = DOMAIN calls[t] \cup kids
      /\ calls'[t][c] = State("phase", n) /\ c \notin kids
      /\ \A e \in kids : calls'[t][e] = State("entered", 0)
      /\ \A d \in DOMAIN calls[t] : d # c /\ d \notin kids => calls'[t][d] = calls[t][d]
      /\ \A w \in Trees : w # t => calls'[w] = calls[w]
  BY ForkStep
<1>2. UNCHANGED inputs
  OBVIOUS
<1>3. \A w, d : Phases(w, d)' = Phases(w, d) /\ Covers(w, d, q, p)' = Covers(w, d, q, p)
  BY <1>2, InputsStay
<1>4. MakesAll(t, c, Phases(t, c))
  BY CallsOfTree, PhasesAre
<1>5. PICK d \in DOMAIN calls[u] : LooksAt(u, d, q, p)
  BY DEF Pending
<1>6. ASSUME u = t, NEW e \in kids, Covers(t, e, q, p)  PROVE Pending(u, q, p)'
  <2>1. e \in DOMAIN calls'[t] /\ calls'[t][e].at = "entered"
    BY <1>1, <1>6 DEF State
  <2>2. Covers(t, e, q, p)'
    BY <1>3, <1>6
  <2>3. LooksAt(t, e, q, p)'
    BY <2>1, <2>2 DEF LooksAt
  <2> QED
    BY <1>6, <2>1, <2>3 DEF Pending
<1>7. CASE u = t /\ d = c
  <2>1. PICK i \in 1..Len(Phases(t, c)) : i >= n /\ \E e \in Phases(t, c)[i] : Covers(t, e, q, p)
    <3>1. CASE calls[t][c].at = "entered" /\ n = 1
      <4>1. /\ c.op = "DualKnnHelper" /\ q \in QNode(c).points /\ p \in RNode(t, c).points
        BY <1>5, <1>7 DEF LooksAt, Covers
      <4>2. Phases(t, c) # <<>> /\ DOMAIN Phases(t, c) = 1..Len(Phases(t, c))
            /\ Len(Phases(t, c)) \in 0..2
        BY <1>4 DEF MakesAll
      <4> QED
        BY <1>4, <3>1, <4>1, <4>2 DEF MakesAll
    <3>2. CASE calls[t][c].at = "phase" /\ n = calls[t][c].n + 1
      <4>1. Len(Phases(t, c)) \in 0..2 /\ calls[t][c].n \in Nat
        BY <1>4 DEF MakesAll, CallsInv, CallsAre
      <4>2. PICK i \in 1..Len(Phases(t, c)) :
              i > calls[t][c].n /\ \E e \in Phases(t, c)[i] : Covers(t, e, q, p)
        BY <1>5, <1>7, <3>2 DEF LooksAt
      <4>3. i >= n
        BY <3>2, <4>1, <4>2
      <4> QED
        BY <4>2, <4>3
    <3> QED
      BY <3>1, <3>2
  <2>2. CASE i = n
    BY <1>6, <1>7, <2>1, <2>2
  <2>3. CASE i # n
    <3>1. i > n
      BY <1>4, <2>1, <2>3 DEF MakesAll
    <3>2. c \in DOMAIN calls'[t] /\ calls'[t][c].at = "phase" /\ calls'[t][c].n = n
      BY <1>1 DEF State
    <3>3. LooksAt(t, c, q, p)'
      BY <1>3, <1>5, <1>7, <2>1, <3>1, <3>2 DEF LooksAt
    <3> QED
      BY <1>7, <3>2, <3>3 DEF Pending
  <2> QED
    BY <2>2, <2>3
<1>8. CASE u = t /\ d \in kids
  BY <1>5, <1>6, <1>8 DEF LooksAt
<1>9. CASE u # t \/ (d # c /\ d \notin kids)
  <2>1. d \in DOMAIN calls'[u] /\ calls'[u][d] = calls[u][d]
    BY <1>1, <1>9
  <2>2. LooksAt(u, d, q, p)'
    BY <1>2, <1>5, <2>1, LooksStay
  <2> QED
    BY <2>1, <2>2 DEF Pending
<1> QED
  BY <1>7, <1>8, <1>9

LEMMA CoverStays ==
  ASSUME InputsInv, CoverInv, UNCHANGED <<inputs, status>>, BuffersGrow,
         \A t \in Trees, q \in Queries : \A p \in rtrees[t][<<>>].points :
           Pending(t, q, p) => Pending(t, q, p)' \/ Settled(q, p)'
  PROVE  CoverInv'
<1>1. UNCHANGED inputs /\ status' = status
  OBVIOUS
<1>2. Trees' = Trees /\ Queries' = Queries /\ rtrees' = rtrees
  BY <1>1, InputsStay
<1>3. ASSUME NEW t \in Trees, status[t] \in {"running", "done"},
             NEW q \in Queries, NEW p \in rtrees[t][<<>>].points
      PROVE  Settled(q, p)' \/ Pending(t, q, p)'
  <2>1. Settled(q, p) \/ Pending(t, q, p)
    BY <1>3 DEF CoverInv
  <2>2. p \in AllPoints
    BY DEF AllPoints
  <2> QED
    BY <1>1, <2>1, <2>2, BoundsStay
<1> QED
  BY <1>1, <1>2, <1>3 DEF CoverInv

-----------------------------------------------------------------------------
(* The steps of a call *)

LEMMA StateStays ==
  ASSUME InputsInv, StateInv, OrderInv, UNCHANGED <<inputs, status, res>>
  PROVE  InputsInv' /\ StateInv' /\ OrderInv'
<1>1. UNCHANGED inputs /\ status' = status /\ res' = res
  OBVIOUS
<1>2. /\ Trees' = Trees /\ Queries' = Queries /\ AllPoints' = AllPoints /\ apart' = apart
      /\ SharesDists' = SharesDists
  BY <1>1, InputsStay
<1>3. StateInv'
  BY <1>1, <1>2 DEF StateInv, DualKnnExact, QueriesFindNearest
<1>4. OrderInv'
  BY <1>1, <1>2 DEF OrderInv
<1> QED
  BY <1>1, <1>3, <1>4, InputsInvStays

LEMMA BuffersStay ==
  ASSUME InputsInv, BuffersInv, UNCHANGED <<inputs, bufs, status>>
  PROVE  BuffersInv' /\ BuffersGrow
<1>1. UNCHANGED inputs /\ status' = status /\ bufs' = bufs
  OBVIOUS
<1>2. /\ Trees' = Trees /\ Queries' = Queries /\ AllPoints' = AllPoints /\ Slots' = Slots
      /\ has_buffer' = has_buffer /\ \A t : Slot(t)' = Slot(t)
  BY <1>1, InputsStay
<1>3. BuffersInv'
  BY <1>1, <1>2 DEF BuffersInv
<1> QED
  BY <1>1, <1>3, SameBuffers

LEMMA GoesInv ==
  ASSUME IInv, UNCHANGED <<inputs, dist, status, res>>, BuffersGrow, BuffersInv',
         NEW t \in Trees, NEW c \in DOMAIN calls[t], Ready(t, c), NEW st, Goes(t, c, st),
         st.at \in {"radius", "returned"}, st.n \in Nat, SeenAre(st.seen),
         st.at = "radius" => MaySet(t, c.q, st.n)',
         \A q \in Queries, p \in rtrees[t][<<>>].points : LooksAt(t, c, q, p) => Settled(q, p)'
  PROVE  IInv'
<1>1. /\ InputsInv /\ StateInv /\ CallsInv /\ OrderInv /\ BuffersInv /\ DistInv /\ RadiusInv
      /\ CoverInv
  BY DEF IInv
<1>2. UNCHANGED <<inputs, status>> /\ UNCHANGED <<inputs, dist>> /\ UNCHANGED <<inputs, status, res>>
      /\ UNCHANGED inputs
  OBVIOUS
<1>3. InputsInv' /\ StateInv' /\ OrderInv'
  BY <1>1, <1>2, StateStays
<1>4. /\ CallsInv' /\ calls'[t] = [calls[t] EXCEPT ![c] = st]
      /\ \A u \in Trees : u # t => calls'[u] = calls[u]
  BY <1>1, <1>2, GoesStep
<1>5. DistInv' /\ \A u \in Trees, n \in QNodes : \A v : MaySet(u, n, v) => MaySet(u, n, v)'
  BY <1>1, <1>2, DistStays
<1>6. RadiusInv'
  <2>1. ASSUME NEW u \in Trees, NEW d \in DOMAIN calls'[u], calls'[u][d].at = "radius"
        PROVE  MaySet(u, d.q, calls[u][d].n)'
    <3>1. CASE u = t /\ d = c
      <4>1. calls'[u][d] = st
        BY <1>4, <3>1
      <4>2. MaySet(t, c.q, st.n)'
        BY <2>1, <4>1
      <4> QED
        BY <3>1, <4>1, <4>2 DEF MaySet, IsBound, NotBelow
    <3>2. CASE ~(u = t /\ d = c)
      <4>1. d \in DOMAIN calls[u] /\ calls'[u][d] = calls[u][d]
        BY <1>4, <3>2
      <4>2. d.q \in QNodes
        BY <1>1, <4>1 DEF CallsInv, CallsAre, CallsOf
      <4>3. MaySet(u, d.q, calls[u][d].n)
        BY <1>1, <2>1, <4>1 DEF RadiusInv
      <4>4. PICK v : v = calls[u][d].n
        OBVIOUS
      <4>5. MaySet(u, d.q, v)' /\ calls'[u][d].n = v
        BY <1>5, <4>1, <4>2, <4>3, <4>4
      <4> QED
        BY <4>5 DEF MaySet, IsBound, NotBelow
    <3> QED
      BY <3>1, <3>2
  <2>2. Trees' = Trees
    BY <1>2, InputsStay
  <2> QED
    BY <2>1, <2>2 DEF RadiusInv
<1>7. CoverInv'
  <2>1. ASSUME NEW u \in Trees, NEW q \in Queries, NEW p \in rtrees[u][<<>>].points, Pending(u, q, p)
        PROVE  Pending(u, q, p)' \/ Settled(q, p)'
    <3>1. Pending(u, q, p)' \/ (u = t /\ LooksAt(t, c, q, p))
      BY <1>1, <1>2, <2>1, GoesPending
    <3> QED
      BY <3>1
  <2> QED
    BY <1>1, <1>2, <2>1, CoverStays
<1> QED
  BY <1>3, <1>4, <1>5, <1>6, <1>7 DEF IInv

LEMMA ForkInv ==
  ASSUME IInv, UNCHANGED <<inputs, bufs, dist, status, res>>,
         NEW t \in Trees, NEW c \in DOMAIN calls[t], Ready(t, c),
         NEW n \in 1..Len(Phases(t, c)), Fork(t, c, n),
         \/ calls[t][c].at = "entered" /\ n = 1
         \/ calls[t][c].at = "phase" /\ n = calls[t][c].n + 1
  PROVE  IInv'
<1>1. /\ InputsInv /\ StateInv /\ CallsInv /\ OrderInv /\ BuffersInv /\ DistInv /\ RadiusInv
      /\ CoverInv
  BY DEF IInv
<1>2. UNCHANGED <<inputs, status>> /\ UNCHANGED <<inputs, dist>> /\ UNCHANGED <<inputs, status, res>>
      /\ UNCHANGED <<inputs, bufs, status>> /\ UNCHANGED inputs
  OBVIOUS
<1>3. InputsInv' /\ StateInv' /\ OrderInv'
  BY <1>1, <1>2, StateStays
<1>4. BuffersInv' /\ BuffersGrow
  BY <1>1, <1>2, BuffersStay
<1>5. /\ CallsInv'
      /\ DOMAIN calls'[t] = DOMAIN calls[t] \cup Phases(t, c)[n]
      /\ calls'[t][c] = State("phase", n)
      /\ \A e \in Phases(t, c)[n] : calls'[t][e] = State("entered", 0)
      /\ \A d \in DOMAIN calls[t] : d # c /\ d \notin Phases(t, c)[n] => calls'[t][d] = calls[t][d]
      /\ \A u \in Trees : u # t => calls'[u] = calls[u]
  BY <1>1, <1>2, ForkStep
<1>6. DistInv' /\ \A u \in Trees, m \in QNodes : \A v : MaySet(u, m, v) => MaySet(u, m, v)'
  BY <1>1, <1>2, <1>4, DistStays
<1>7. RadiusInv'
  <2>1. ASSUME NEW u \in Trees, NEW d \in DOMAIN calls'[u], calls'[u][d].at = "radius"
        PROVE  MaySet(u, d.q, calls[u][d].n)'
    <3>1. d \in DOMAIN calls[u] /\ calls'[u][d] = calls[u][d]
      BY <1>5, <2>1 DEF State
    <3>2. d.q \in QNodes
      BY <1>1, <3>1 DEF CallsInv, CallsAre, CallsOf
    <3>3. MaySet(u, d.q, calls[u][d].n)
      BY <1>1, <2>1, <3>1 DEF RadiusInv
    <3>4. PICK v : v = calls[u][d].n
      OBVIOUS
    <3>5. MaySet(u, d.q, v)' /\ calls'[u][d].n = v
      BY <1>6, <3>1, <3>2, <3>3, <3>4
    <3> QED
      BY <3>5 DEF MaySet, IsBound, NotBelow
  <2>2. Trees' = Trees
    BY <1>2, InputsStay
  <2> QED
    BY <2>1, <2>2 DEF RadiusInv
<1>8. CoverInv'
  <2>1. ASSUME NEW u \in Trees, NEW q \in Queries, NEW p \in rtrees[u][<<>>].points, Pending(u, q, p)
        PROVE  Pending(u, q, p)' \/ Settled(q, p)'
    BY <1>1, <1>2, <2>1, ForkPending
  <2> QED
    BY <1>1, <1>2, <1>4, <2>1, CoverStays
<1> QED
  BY <1>3, <1>4, <1>5, <1>6, <1>7, <1>8 DEF IInv

LEMMA NodesOfCall ==
  ASSUME InputsInv, CallsInv, NEW t \in Trees, NEW c \in DOMAIN calls[t]
  PROVE  /\ status[t] = "running"
         /\ c.q \in QNodes /\ c.r \in DOMAIN rtrees[t] /\ c \in CallsOf(t)
         /\ QNode(c) = queryTree[c.q] /\ QNode(c).points \in SUBSET Queries
         /\ QNode(c).points # {} /\ IsFiniteSet(QNode(c).points)
         /\ BoxHolds(QNode(c).box, QNode(c).points)
         /\ RNode(t, c).points \in SUBSET AllPoints
         /\ RNode(t, c).points \in SUBSET rtrees[t][<<>>].points
         /\ BoxHolds(RNode(t, c).box, RNode(t, c).points)
         /\ MakesAll(t, c, Phases(t, c))
         /\ calls[t][c].n \in Nat
         /\ calls[t][c].at = "phase" => calls[t][c].n \in 1..Len(Phases(t, c))
<1>1. CallsAre(t)
  BY DEF CallsInv
<1>2. c \in CallsOf(t) /\ status[t] = "running" /\ c.q \in QNodes /\ c.r \in DOMAIN rtrees[t]
  BY <1>1 DEF CallsAre, CallsOf
<1>3. /\ RNode(t, c).points \in SUBSET rtrees[t][<<>>].points
      /\ BoxHolds(RNode(t, c).box, RNode(t, c).points)
  BY <1>2 DEF InputsInv, Shape, RNode
<1>4. rtrees[t][<<>>].points \in SUBSET AllPoints
  BY DEF AllPoints
<1>5. QNode(c) = queryTree[c.q]
  BY DEF QNode
<1> QED
  BY <1>1, <1>2, <1>3, <1>4, <1>5, QueryNodesAre, PhasesAre DEF CallsAre

\* A call that has been entered is idle.
LEMMA EnteredIsReady ==
  ASSUME NEW t, NEW c, calls[t][c].at \in {"entered", "radius"}
  PROVE  Ready(t, c)
BY DEF Ready, Idle

LEMMA WithinFarther ==
  ASSUME NEW q, NEW points, Measured(q, points), NEW E \in SUBSET points,
         NEW v \in Int, NEW w \in Int, v <= w, Within(q, E, v)
  PROVE  Within(q, E, w)
<1>1. PICK K \in SUBSET E : Cardinality(K) = k /\ \A p \in K : Cost(q, p) <= v
  BY DEF Within
<1>2. \A p \in K : Cost(q, p) \in Int
  BY DEF Measured
<1> QED
  BY <1>1, <1>2 DEF Within

LEMMA PruneInv ==
  ASSUME IInv, NEW t \in Trees, NEW c \in DOMAIN calls[t], Prune(t, c)
  PROVE  IInv'
<1>1. InputsInv /\ BuffersInv /\ CallsInv /\ DistInv
  BY DEF IInv
<1>2. /\ UNCHANGED <<inputs, dist, status, res>> /\ UNCHANGED <<inputs, bufs, status>>
      /\ UNCHANGED inputs /\ Goes(t, c, State("returned", 0)) /\ Pruned(t, c)
      /\ Ready(t, c)
  BY EnteredIsReady DEF Prune, IsAt
<1>3. BuffersInv' /\ BuffersGrow
  BY <1>1, <1>2, BuffersStay
<1>4. ASSUME ~SharesDists,
             NEW q \in Queries, NEW p \in rtrees[t][<<>>].points, LooksAt(t, c, q, p)
      PROVE  Settled(q, p)'
  <2>1. q \in QNode(c).points /\ p \in RNode(t, c).points /\ p \in AllPoints
    BY <1>1, <1>4, NodesOfCall DEF LooksAt, Covers
  <2>2. IsPoint(q) /\ IsPoint(p)
    BY <1>1, <2>1, InfinityIs, InputsArePoints DEF ArePoints
  <2> DEFINE far == BoxDistance(QNode(c).box, RNode(t, c).box)
             v == dist[DistSlot(t)][c.q]
  <2>3. far \in Nat /\ far <= Cost(q, p)
    <3>1. PICK a, S : a = QNode(c).box /\ S = QNode(c).points
      OBVIOUS
    <3>2. PICK b, R : b = RNode(t, c).box /\ R = RNode(t, c).points
      OBVIOUS
    <3>3. BoxHolds(a, S) /\ BoxHolds(b, R)
      BY <1>1, <3>1, <3>2, NodesOfCall
    <3>4. BoxDistance(a, b) \in Nat /\ BoxDistance(a, b) <= Cost(q, p)
      BY <2>1, <2>2, <3>1, <3>2, <3>3, BoxesAreNearer
    <3> QED
      BY <3>1, <3>2, <3>4
  <2>4. v < far
    <3>1. far > v
      BY <1>2 DEF Pruned
    <3>2. v \in 0..Infinity /\ Infinity \in Nat
      <4>1. c.q \in QNodes /\ DistSlot(t) \in {DistSlot(u) : u \in Trees}
        BY <1>1, NodesOfCall, SlotIs
      <4>2. Infinity \in Nat
        BY <1>1, InfinityIs
      <4> QED
        BY <1>1, <4>1, <4>2 DEF DistInv
    <3> HIDE DEF far, v
    <3> QED
      BY <2>3, <3>1, <3>2
  <2>5. v \in 0..Infinity /\ IsBound(t, q, v)
    BY <1>1, <1>4, <2>1, NodesOfCall, SlotIs DEF DistInv, Bounded
  <2>6. /\ Measured(q, AllPoints) /\ Infinity \in Nat
        /\ Cost(q, p) \in Nat /\ Cost(q, p) < Infinity
    BY <1>1, <2>1, InfinityIs DEF Measured
  <2> HIDE DEF far, v
  <2>7. PICK s \in Slots : Within(q, bufs[s][q].elems, v)
    BY <2>3, <2>4, <2>5, <2>6 DEF IsBound
  <2>8. bufs[s][q].elems \in SUBSET AllPoints
    BY <1>1, BuffersAre DEF Buffers
  <2>9. Within(q, bufs[s][q].elems, Cost(q, p))
    <3>1. v \in Int /\ Cost(q, p) \in Int /\ v <= Cost(q, p)
      BY <2>3, <2>4, <2>5, <2>6
    <3> QED
      BY <2>6, <2>7, <2>8, <3>1, WithinFarther
  <2>10. Settled(q, p)
    BY <2>9 DEF Settled
  <2> QED
    BY <1>1, <1>2, <1>3, <2>1, <2>10, BoundsStay
<1> DEFINE st == State("returned", 0)
<1>5. st.at = "returned" /\ st.n = 0 /\ SeenAre(st.seen) /\ Goes(t, c, st)
  BY <1>2, StateIs
<1> HIDE DEF st
<1>6. /\ st.at \in {"radius", "returned"} /\ st.n \in Nat
      /\ st.at # "radius"
  BY <1>5
<1>7. SharesDists => \A q, p : Settled(q, p)'
  BY <1>2, InputsStay DEF Settled
<1> QED
  BY <1>2, <1>3, <1>4, <1>5, <1>6, <1>7, GoesInv

LEMMA RecurseInv ==
  ASSUME IInv, NEW t \in Trees, NEW c \in DOMAIN calls[t], Recurse(t, c)
  PROVE  IInv'
<1>1. InputsInv /\ CallsInv
  BY DEF IInv
<1>2. /\ UNCHANGED <<inputs, bufs, dist, status, res>> /\ Fork(t, c, 1) /\ Ready(t, c)
      /\ Phases(t, c) # <<>> /\ calls[t][c].at = "entered"
  BY EnteredIsReady DEF Recurse, IsAt
<1>3. 1 \in 1..Len(Phases(t, c))
  <2>1. Len(Phases(t, c)) \in 0..2 /\ Len(Phases(t, c)) # 0
    BY <1>1, <1>2, NodesOfCall DEF MakesAll
  <2> QED
    BY <2>1
<1> QED
  BY <1>2, <1>3, ForkInv

LEMMA BoundFarther ==
  ASSUME InputsInv, BuffersInv, NEW t \in Trees, NEW q \in Queries,
         NEW v \in 0..Infinity, NEW w \in 0..Infinity, v <= w, IsBound(t, q, v)
  PROVE  IsBound(t, q, w)
<1>1. Measured(q, AllPoints) /\ Infinity \in Nat
  BY InfinityIs
<1>2. CASE v = Infinity
  <2>1. w = Infinity
    BY <1>1, <1>2
  <2> QED
    BY <2>1 DEF IsBound
<1>3. CASE v # Infinity
  <2>1. PICK s \in Slots : Within(q, bufs[s][q].elems, v) /\ (mode = "ARRAY" => s = Slot(t))
    BY <1>3 DEF IsBound
  <2>2. bufs[s][q].elems \in SUBSET AllPoints
    BY BuffersAre DEF Buffers
  <2>3. v \in Int /\ w \in Int
    BY <1>1
  <2>4. Within(q, bufs[s][q].elems, w)
    BY <1>1, <2>1, <2>2, <2>3, WithinFarther
  <2> QED
    BY <2>1, <2>4 DEF IsBound
<1> QED
  BY <1>2, <1>3

\* The farthest of the k-th distances of the queries in S
SliceRadius(S, slice) == Max({RadiusOf(q, slice[q]) : q \in S})

LEMMA SliceRadiusIs ==
  ASSUME NEW S, IsFiniteSet(S), S # {}, NEW slice,
         Infinity \in Nat, \A q \in S : RadiusOf(q, slice[q]) \in 0..Infinity
  PROVE  /\ SliceRadius(S, slice) \in 0..Infinity
         /\ \A q \in S : RadiusOf(q, slice[q]) <= SliceRadius(S, slice)
         /\ \E q \in S : SliceRadius(S, slice) = RadiusOf(q, slice[q])
<1> DEFINE f == [q \in S |-> RadiusOf(q, slice[q])]
           R == {RadiusOf(q, slice[q]) : q \in S}
<1>1. R = {f[q] : q \in S}
  OBVIOUS
<1>2. IsFiniteSet(R)
  <2> HIDE DEF R, f
  <2> QED
    BY <1>1, ImageIsFinite
<1>3. R \in SUBSET Int /\ R # {} /\ \A q \in S : RadiusOf(q, slice[q]) \in R
  <2>1. \A r \in R : r \in 0..Infinity
    OBVIOUS
  <2>2. \A r \in R : r \in Int
    <3> HIDE DEF R
    <3> QED
      BY <2>1
  <2> QED
    BY <2>2
<1>4. Max(R) \in R /\ \A r \in R : Max(R) >= r
  <2> HIDE DEF R
  <2> QED
    BY <1>2, <1>3, MaxIs
<1>5. \A r \in R : \E q \in S : r = RadiusOf(q, slice[q])
  OBVIOUS
<1>6. SliceRadius(S, slice) = Max(R)
  BY DEF SliceRadius
<1> HIDE DEF R
<1> QED
  BY <1>3, <1>4, <1>5, <1>6

\* What a call on a leaf is to set
LeavesMaySet ==
  \A t \in Trees, n \in QNodes : \A v :
    IsLeafNode(queryTree[n]) /\ v = SliceRadius(queryTree[n].points, bufs[Slot(t)])
      => MaySet(t, n, v)

LEMMA LeafMaySet == InputsInv /\ BuffersInv /\ DistInv => LeavesMaySet
<1> SUFFICES ASSUME InputsInv, BuffersInv, DistInv, NEW t \in Trees, NEW n \in QNodes, NEW v,
                    IsLeafNode(queryTree[n]),
                    v = SliceRadius(queryTree[n].points, bufs[Slot(t)])
             PROVE  MaySet(t, n, v)
  BY DEF LeavesMaySet
<1> DEFINE S == queryTree[n].points
           slice == bufs[Slot(t)]
<1>1. S \in SUBSET Queries /\ S # {} /\ IsFiniteSet(S) /\ Slot(t) \in Slots
  BY QueryNodesAre, SlotIs
<1>2. /\ Infinity \in Nat
      /\ \A q \in S : /\ RadiusOf(q, slice[q]) \in 0..Infinity
                      /\ RadiusOf(q, slice[q]) = Infinity
                           \/ Within(q, slice[q].elems, RadiusOf(q, slice[q]))
  BY <1>1, BuffersAre, InfinityIs
<1>3. /\ v \in 0..Infinity /\ \A q \in S : RadiusOf(q, slice[q]) <= v
      /\ \E q \in S : v = RadiusOf(q, slice[q])
  <2> HIDE DEF S, slice
  <2>1. v = SliceRadius(S, slice)
    BY DEF S, slice
  <2> QED
    BY <1>1, <1>2, <2>1, SliceRadiusIs
<1>4. ASSUME NEW q \in S  PROVE IsBound(t, q, v)
  <2>1. IsBound(t, q, RadiusOf(q, slice[q]))
    BY <1>1, <1>2 DEF IsBound
  <2>2. RadiusOf(q, slice[q]) \in 0..Infinity /\ RadiusOf(q, slice[q]) <= v /\ q \in Queries
    BY <1>1, <1>2, <1>3
  <2> HIDE DEF slice
  <2> QED
    BY <1>3, <2>1, <2>2, BoundFarther
<1>5. NotBelow(t, n, v)
  BY <1>3 DEF NotBelow
<1>6. ASSUME mode # "ATOMIC_LEAF"  PROVE v <= dist[DistSlot(t)][n]
  <2>1. NotBelow(t, n, dist[DistSlot(t)][n])
    BY <1>6 DEF DistInv
  <2> QED
    BY <1>3, <2>1 DEF NotBelow
<1> QED
  BY <1>3, <1>4, <1>5, <1>6 DEF MaySet

LEMMA LeafMaySetNext == InputsInv' /\ BuffersInv' /\ DistInv' => LeavesMaySet'
BY LeafMaySet, PTL

\* What a call on an inner node is to set
LEMMA InnerMaySet ==
  ASSUME InputsInv, BuffersInv, DistInv, NEW t \in Trees, NEW n \in QNodes,
         ~IsLeafNode(queryTree[n]), ~SharesDists
  PROVE  MaySet(t, n, Max({dist[DistSlot(t)][Append(n, i)] : i \in 1..2}))
<1> DEFINE f == [i \in 1..2 |-> dist[DistSlot(t)][Append(n, i)]]
           D == {dist[DistSlot(t)][Append(n, i)] : i \in 1..2}
           v == Max(D)
<1>1. /\ \A i \in 1..2 : Append(n, i) \in QNodes
      /\ queryTree[n].points = UNION {queryTree[Append(n, i)].points : i \in 1..2}
      /\ queryTree[n].points \in SUBSET Queries
  BY QueryNodesAre
<1>2. Infinity \in Nat /\ \A i \in 1..2 : dist[DistSlot(t)][Append(n, i)] \in 0..Infinity
  BY <1>1, SlotIs, InfinityIs DEF DistInv
<1>3. /\ v \in 0..Infinity /\ \A i \in 1..2 : dist[DistSlot(t)][Append(n, i)] <= v
      /\ \E i \in 1..2 : v = dist[DistSlot(t)][Append(n, i)]
  <2>1. D = {f[i] : i \in 1..2}
    OBVIOUS
  <2>2. IsFiniteSet(1..2)
    <3>1. IsFiniteSet({1} \cup {2})
      BY FS_Singleton, FS_AddElement
    <3>2. 1..2 = {1} \cup {2}
      OBVIOUS
    <3> QED
      BY <3>1, <3>2
  <2>3. IsFiniteSet(D)
    <3> HIDE DEF D, f
    <3> QED
      BY <2>1, <2>2, ImageIsFinite
  <2>4. \A d \in D : d \in Int /\ \E i \in 1..2 : d = dist[DistSlot(t)][Append(n, i)]
    BY <1>2
  <2>5. \A i \in 1..2 : dist[DistSlot(t)][Append(n, i)] \in D
    OBVIOUS
  <2> HIDE DEF D
  <2>6. v \in D /\ \A d \in D : v >= d
    <3>1. D \in SUBSET Int /\ D # {}
      BY <2>4, <2>5
    <3> QED
      BY <2>3, <3>1, MaxIs
  <2> HIDE DEF v
  <2> QED
    BY <1>2, <2>4, <2>5, <2>6
<1> HIDE DEF v
<1>4. ASSUME NEW q \in queryTree[n].points  PROVE IsBound(t, q, v)
  <2>1. PICK i \in 1..2 : q \in queryTree[Append(n, i)].points
    BY <1>1
  <2>2. IsBound(t, q, dist[DistSlot(t)][Append(n, i)])
    BY <1>1, <2>1 DEF DistInv, Bounded
  <2>3. q \in Queries
    BY <1>1
  <2> QED
    BY <1>2, <1>3, <2>2, <2>3, BoundFarther
<1>5. NotBelow(t, n, v)
  BY <1>3 DEF NotBelow
<1>6. ASSUME mode # "ATOMIC_LEAF"  PROVE v <= dist[DistSlot(t)][n]
  <2>1. NotBelow(t, n, dist[DistSlot(t)][n])
    BY <1>6 DEF DistInv
  <2> QED
    BY <1>3, <2>1 DEF NotBelow
<1>7. MaySet(t, n, v)
  BY <1>3, <1>4, <1>5, <1>6 DEF MaySet
<1> QED
  BY <1>7 DEF v

\* What it is to set is a distance, also where another search may have set the
\* child's that is loaded again
LEMMA ChildrenMaySet ==
  ASSUME InputsInv, BuffersInv, CallsInv, DistInv, NEW t \in Trees, NEW c \in DOMAIN calls[t],
         UpdatesInner(t, c), SharesDists => DOMAIN calls[t][c].seen = 1..2
  PROVE  MaySet(t, c.q, ChildrenDist(t, c))
<1>1. c.q \in QNodes /\ ~IsLeafNode(queryTree[c.q])
  BY NodesOfCall DEF UpdatesInner
<1>2. CASE ~SharesDists
  BY <1>1, <1>2, InnerMaySet DEF ChildrenDist, ChildDist
<1>3. CASE SharesDists
  <2> DEFINE seen == calls[t][c].seen
             larger == IF seen[1] < seen[2] THEN 2 ELSE 1
  <2>1. \A i \in 1..2 : seen[i] \in 0..Infinity
    BY <1>3 DEF CallsInv, CallsAre, SeenAre
  <2>2. \A i \in 1..2 : ChildDist(t, c, i) \in 0..Infinity
    BY <1>1, QueryNodesAre, SlotIs DEF DistInv, ChildDist
  <2>3. larger \in 1..2
    OBVIOUS
  <2>4. ChildrenDist(t, c) \in {seen[larger], ChildDist(t, c, larger)}
    BY <1>3 DEF ChildrenDist
  <2> HIDE DEF larger, seen
  <2>5. ChildrenDist(t, c) \in 0..Infinity
    BY <2>1, <2>2, <2>3, <2>4
  <2> QED
    BY <1>1, <1>3, <2>5 DEF MaySet, Bounded, SharesDists
<1> QED
  BY <1>2, <1>3

LEMMA UpdateLeafInv ==
  ASSUME IInv, NEW t \in Trees, NEW c \in DOMAIN calls[t], UpdateLeaf(t, c)
  PROVE  IInv'
<1>1. InputsInv /\ BuffersInv /\ CallsInv /\ DistInv
  BY DEF IInv
<1> DEFINE v == SliceRadius(queryTree[c.q].points, bufs[Slot(t)])
           st == State("radius", v)
<1>2. /\ UNCHANGED <<inputs, dist, status, res>> /\ UNCHANGED <<inputs, bufs, status>>
      /\ UNCHANGED inputs /\ UNCHANGED <<inputs, dist>> /\ Ready(t, c)
      /\ Phases(t, c) = <<>> /\ c.op = "updateDualDist"
      /\ \E first \in QNode(c).points :
           Goes(t, c, State("radius", IF HasK(bufs[Slot(t)][first])
                                        THEN LeafRadius(c, bufs[Slot(t)]) ELSE 0))
  BY EnteredIsReady DEF UpdateLeaf, IsAt
<1>3. BuffersInv' /\ BuffersGrow
  BY <1>1, <1>2, BuffersStay
<1>4. /\ c.q \in QNodes /\ QNode(c) = queryTree[c.q] /\ QNode(c).points \in SUBSET Queries
      /\ status[t] = "running"
      /\ Phases(t, c) = <<>> => IsLeafNode(QNode(c))
      /\ has_buffer /\ t = 1
  BY <1>1, <1>2, NodesOfCall DEF MakesAll, CallsInv, CallsAre
<1>5. \A q \in Queries : HasK(bufs[Slot(t)][q])
  BY <1>1, <1>4 DEF BuffersInv
<1>6. LeafRadius(c, bufs[Slot(t)]) = v
  BY <1>4 DEF LeafRadius, SliceRadius
<1>7. Goes(t, c, st)
  BY <1>2, <1>4, <1>5, <1>6
<1>8. MaySet(t, c.q, v)
  BY <1>1, <1>2, <1>4, LeafMaySet DEF LeavesMaySet
<1>9. v \in Nat
  BY <1>1, <1>8, InfinityIs DEF MaySet
<1> HIDE DEF v
<1>10. PICK w : w = v
  OBVIOUS
<1>11. MaySet(t, c.q, w)'
  BY <1>1, <1>2, <1>3, <1>4, <1>8, <1>10, DistStays
<1> DEFINE sw == State("radius", w)
<1>12. sw.at = "radius" /\ sw.n = w /\ SeenAre(sw.seen) /\ Goes(t, c, sw)
  BY <1>7, <1>10, StateIs
<1>13. \A q \in Queries, p \in rtrees[t][<<>>].points : LooksAt(t, c, q, p) => Settled(q, p)'
  BY <1>2 DEF LooksAt, Covers
<1> HIDE DEF sw
<1>14. sw.at \in {"radius", "returned"} /\ sw.n \in Nat
  BY <1>9, <1>10, <1>12
<1>15. MaySet(t, c.q, sw.n)'
  BY <1>11, <1>12
<1> QED
  BY <1>2, <1>3, <1>12, <1>13, <1>14, <1>15, GoesInv

LEMMA JoinIsReady ==
  ASSUME InputsInv, CallsInv, NEW t \in Trees, NEW c \in DOMAIN calls[t], IsAt(t, c, "phase"),
         PhaseEnds(t, c)
  PROVE  Ready(t, c)
BY CallsOfTree DEF IsAt, Ready, Idle, PhaseEnds

LEMMA JoinInv ==
  ASSUME IInv, NEW t \in Trees, NEW c \in DOMAIN calls[t], Join(t, c)
  PROVE  IInv'
<1>1. InputsInv /\ BuffersInv /\ CallsInv /\ DistInv
  BY DEF IInv
<1>2. /\ UNCHANGED <<inputs, bufs, dist, status, res>> /\ UNCHANGED <<inputs, dist, status, res>>
      /\ UNCHANGED <<inputs, bufs, status>> /\ UNCHANGED inputs /\ UNCHANGED <<inputs, dist>>
      /\ Ready(t, c) /\ calls[t][c].at = "phase"
  BY <1>1, JoinIsReady DEF Join, IsAt
<1>3. BuffersInv' /\ BuffersGrow
  BY <1>1, <1>2, BuffersStay
<1>4. /\ c.q \in QNodes /\ QNode(c) = queryTree[c.q]
      /\ calls[t][c].n \in 1..Len(Phases(t, c)) /\ Len(Phases(t, c)) \in 0..2
  BY <1>1, <1>2, NodesOfCall DEF MakesAll
<1>5. ASSUME calls[t][c].n = Len(Phases(t, c)), NEW q, NEW p, LooksAt(t, c, q, p)
      PROVE  FALSE
  <2>1. PICK i \in 1..Len(Phases(t, c)) : i > calls[t][c].n
    BY <1>2, <1>5 DEF LooksAt
  <2> QED
    BY <1>4, <1>5, <2>1
<1>6. CASE /\ calls[t][c].n < Len(Phases(t, c))
           /\ Fork(t, c, calls[t][c].n + 1)
  <2>1. PICK n : n = calls[t][c].n + 1
    OBVIOUS
  <2>2. n \in 1..Len(Phases(t, c)) /\ Fork(t, c, n)
    BY <1>2, <1>4, <1>6, <2>1
  <2> QED
    BY <1>2, <2>1, <2>2, ForkInv
<1>7. CASE /\ calls[t][c].n = Len(Phases(t, c)) /\ UpdatesInner(t, c)
           /\ SharesDists => DOMAIN calls[t][c].seen = 1..2
           /\ Goes(t, c, State("radius", ChildrenDist(t, c)))
  <2>1. PICK w : w = ChildrenDist(t, c)
    OBVIOUS
  <2>2. MaySet(t, c.q, w)
    BY <1>1, <1>7, <2>1, ChildrenMaySet
  <2>3. MaySet(t, c.q, w)'
    BY <1>1, <1>2, <1>3, <1>4, <2>2, DistStays
  <2>4. w \in Nat
    BY <1>1, <2>2, InfinityIs DEF MaySet
  <2> DEFINE st == State("radius", w)
  <2>5. st.at = "radius" /\ st.n = w /\ SeenAre(st.seen) /\ Goes(t, c, st)
    BY <1>7, <2>1, StateIs
  <2> HIDE DEF st
  <2>6. st.at \in {"radius", "returned"} /\ st.n \in Nat /\ MaySet(t, c.q, st.n)'
    BY <2>3, <2>4, <2>5
  <2> QED
    BY <1>2, <1>3, <1>5, <1>7, <2>5, <2>6, GoesInv
<1>8. CASE /\ calls[t][c].n = Len(Phases(t, c)) /\ ~UpdatesInner(t, c)
           /\ Goes(t, c, State("returned", 0))
  <2> DEFINE st == State("returned", 0)
  <2>1. st.at = "returned" /\ st.n = 0 /\ SeenAre(st.seen) /\ Goes(t, c, st)
    BY <1>8, StateIs
  <2> HIDE DEF st
  <2>2. st.at \in {"radius", "returned"} /\ st.n \in Nat /\ st.at # "radius"
    BY <2>1
  <2> QED
    BY <1>2, <1>3, <1>5, <1>8, <2>1, <2>2, GoesInv
<1> QED
  BY <1>6, <1>7, <1>8 DEF Join

\* A call that reads a distance stays where it is.
LEMMA SameNoneCross ==
  ASSUME NEW P, NEW f, NEW g, DOMAIN g = DOMAIN f,
         \A d \in DOMAIN f : g[d].at = f[d].at /\ g[d].n = f[d].n,
         NoneCross(P, f)
  PROVE  NoneCross(P, g)
<1>1. ASSUME NEW c \in DOMAIN f, NEW d, WaitsOver(P, f, c, d)  PROVE WaitsOver(P, g, c, d)
  <2>1. PICK e \in P[c][f[c].n] : e \in DOMAIN f /\ f[e].at # "returned" /\ Leads(e, d)
    BY <1>1 DEF WaitsOver
  <2> QED
    BY <1>1, <2>1 DEF WaitsOver
<1> SUFFICES ASSUME NEW c \in DOMAIN g, NEW d \in DOMAIN g,
                    g[c].at # "returned", g[d].at # "returned", c # d
             PROVE  WaitsOver(P, g, c, d) \/ WaitsOver(P, g, d, c) \/ Parted(c.q, d.q)
  BY DEF NoneCross
<1>2. WaitsOver(P, f, c, d) \/ WaitsOver(P, f, d, c) \/ Parted(c.q, d.q)
  BY DEF NoneCross
<1> QED
  BY <1>1, <1>2

LEMMA ReadInv ==
  ASSUME IInv, NEW t \in Trees, NEW c \in DOMAIN calls[t], NEW i \in 1..2, Read(t, c, i)
  PROVE  IInv'
<1>1. /\ InputsInv /\ StateInv /\ CallsInv /\ OrderInv /\ BuffersInv /\ DistInv /\ RadiusInv
      /\ CoverInv
  BY DEF IInv
<1> DEFINE old == calls[t][c].seen
           new == [j \in DOMAIN old \cup {i} |-> IF j = i THEN ChildDist(t, c, i) ELSE old[j]]
           st == [at |-> "phase", n |-> calls[t][c].n, seen |-> new]
           f == calls[t]
           g == calls'[t]
<1>2. /\ UNCHANGED <<inputs, dist>> /\ UNCHANGED <<inputs, status, res>> /\ UNCHANGED inputs
      /\ UNCHANGED <<inputs, bufs, status>> /\ UNCHANGED <<inputs, status>> /\ status' = status
      /\ f[c].at = "phase" /\ UpdatesInner(t, c) /\ Goes(t, c, st)
  BY DEF Read, IsAt
<1>3. SeenAre(new)
  <2>1. c.q \in QNodes /\ ~IsLeafNode(queryTree[c.q])
    BY <1>1, <1>2, NodesOfCall DEF UpdatesInner
  <2>2. ChildDist(t, c, i) \in 0..Infinity
    BY <1>1, <2>1, QueryNodesAre, SlotIs DEF DistInv, ChildDist
  <2>3. SeenAre(old)
    BY <1>1 DEF CallsInv, CallsAre
  <2> HIDE DEF old
  <2>4. DOMAIN new = DOMAIN old \cup {i}
        /\ \A j \in DOMAIN new : new[j] = IF j = i THEN ChildDist(t, c, i) ELSE old[j]
    OBVIOUS
  <2> HIDE DEF new
  <2> QED
    BY <2>2, <2>3, <2>4 DEF SeenAre
<1>4. st.at = "phase" /\ st.n = f[c].n /\ SeenAre(st.seen)
  BY <1>3
<1> HIDE DEF st, new, old
<1>5. calls = [u \in Trees |-> calls[u]]
  BY <1>1 DEF CallsInv
<1>6. /\ g = [f EXCEPT ![c] = st] /\ calls' = [calls EXCEPT ![t] = calls'[t]]
      /\ \A u \in Trees : u # t => calls'[u] = calls[u]
  BY <1>2, <1>5 DEF Goes
<1>7. /\ DOMAIN g = DOMAIN f /\ g[c] = st
      /\ \A d \in DOMAIN f : d # c => g[d] = f[d]
      /\ \A d \in DOMAIN f : g[d].at = f[d].at /\ g[d].n = f[d].n
  BY <1>2, <1>4, <1>6
<1>8. CallsInv'
  <2>1. CallsAre(t) /\ NoneCross(PhasesOf(t), f) /\ RootLast(Root(t), f)
    BY <1>1 DEF CallsInv
  <2>2. /\ \A d : Phases(t, d)' = Phases(t, d)
        /\ CallsOf(t)' = CallsOf(t) /\ Root(t)' = Root(t) /\ has_buffer' = has_buffer
    BY <1>2, InputsStay
  <2>3. CallsAre(t)'
    BY <1>2, <1>4, <1>7, <2>1, <2>2 DEF CallsAre
  <2>4. NoneCross(PhasesOf(t), g)
    <3> HIDE DEF f, g
    <3> QED
      BY <1>7, <2>1, SameNoneCross
  <2>5. RootLast(Root(t), g)
    <3>1. Root(t) \in DOMAIN f
      BY <1>2, <2>1 DEF CallsAre
    <3> QED
      BY <1>7, <2>1, <3>1 DEF RootLast
  <2> QED
    BY <1>1, <1>2, <1>6, <2>3, <2>4, <2>5, OtherCalls
<1>9. \A u \in Trees : /\ DOMAIN calls'[u] = DOMAIN calls[u]
                       /\ \A d \in DOMAIN calls[u] : /\ calls'[u][d].at = calls[u][d].at
                                                     /\ calls'[u][d].n = calls[u][d].n
  BY <1>6, <1>7
<1>10. InputsInv' /\ StateInv' /\ OrderInv' /\ BuffersInv' /\ BuffersGrow
  BY <1>1, <1>2, StateStays, BuffersStay
<1>11. DistInv' /\ \A u \in Trees, m \in QNodes : \A v : MaySet(u, m, v) => MaySet(u, m, v)'
  BY <1>1, <1>2, <1>10, DistStays
<1>12. RadiusInv'
  <2>1. ASSUME NEW u \in Trees, NEW d \in DOMAIN calls[u], calls[u][d].at = "radius"
        PROVE  MaySet(u, d.q, calls[u][d].n)'
    <3>1. PICK v : v = calls[u][d].n
      OBVIOUS
    <3>2. MaySet(u, d.q, v) /\ d.q \in QNodes
      BY <1>1, <2>1, <3>1, NodesOfCall DEF RadiusInv
    <3>3. MaySet(u, d.q, v)' /\ calls'[u][d].n = v
      BY <1>9, <1>11, <3>1, <3>2
    <3> QED
      BY <3>3 DEF MaySet, IsBound, NotBelow
  <2>2. Trees' = Trees
    BY <1>2, InputsStay
  <2> QED
    BY <1>9, <2>1, <2>2 DEF RadiusInv
<1>13. CoverInv'
  <2>1. ASSUME NEW u \in Trees, NEW q, NEW p, Pending(u, q, p)  PROVE Pending(u, q, p)'
    <3>1. PICK d \in DOMAIN calls[u] : LooksAt(u, d, q, p)
      BY <2>1 DEF Pending
    <3>2. \A e : Phases(u, e)' = Phases(u, e) /\ Covers(u, e, q, p)' = Covers(u, e, q, p)
      BY <1>2, InputsStay
    <3>3. LooksAt(u, d, q, p)'
      BY <1>9, <3>1, <3>2 DEF LooksAt
    <3> QED
      BY <1>9, <3>1, <3>3 DEF Pending
  <2> QED
    BY <1>1, <1>2, <1>10, <2>1, CoverStays
<1> QED
  BY <1>8, <1>10, <1>11, <1>12, <1>13 DEF IInv

\* While tree t is searched, or when it has been, the buffers of another tree that
\* is yet to be searched are not those of t.
LEMMA OtherSlot ==
  ASSUME InputsInv, OrderInv, NEW t \in Trees, status[t] \in {"running", "done"},
         NEW u \in Trees, status[u] \in {"called", "thrown"}, u <= t
  PROVE  Slot(u) # Slot(t)
<1>1. u # t /\ u < t
  BY DEF Trees, InputsInv
<1>2. apart
  BY <1>1 DEF OrderInv
<1> QED
  BY <1>1, <1>2 DEF Slot

LEMMA RelaxInv ==
  ASSUME IInv, NEW t \in Trees, NEW c \in DOMAIN calls[t], Relax(t, c)
  PROVE  IInv'
<1>1. InputsInv /\ BuffersInv /\ CallsInv /\ DistInv /\ OrderInv
  BY DEF IInv
<1> DEFINE S == QNode(c).points
           T == RNode(t, c).points
           s == Slot(t)
<1>2. /\ UNCHANGED <<inputs, dist, status, res>> /\ UNCHANGED <<inputs, dist>>
      /\ UNCHANGED inputs /\ status' = status /\ Ready(t, c) /\ ~Pruned(t, c)
      /\ Phases(t, c) = <<>> /\ c.op = "DualKnnHelper"
  BY EnteredIsReady DEF Relax, IsAt
<1>3. PICK found \in OneOfEach([q \in S |-> Relaxed(q, bufs[s][q], T)]) :
        /\ bufs' = [bufs EXCEPT ![s] = [q \in Queries |-> IF q \in S THEN found[q] ELSE @[q]]]
        /\ Goes(t, c, State("radius", LeafRadius(c, found)))
  BY DEF Relax
<1>4. /\ c.q \in QNodes /\ QNode(c) = queryTree[c.q] /\ S \in SUBSET Queries
      /\ status[t] = "running" /\ T \in SUBSET AllPoints
      /\ IsLeafNode(queryTree[c.q])
  BY <1>1, <1>2, NodesOfCall DEF MakesAll
<1>5. s \in Slots
  BY SlotIs
<1>6. \A q \in S : found[q] \in Relaxed(q, bufs[s][q], T)
  BY <1>3 DEF OneOfEach
<1>7. /\ \A q \in S : bufs'[s][q] = found[q]
      /\ \A q \in Queries : q \notin S => bufs'[s][q] = bufs[s][q]
      /\ \A u \in Slots : u # s => bufs'[u] = bufs[u]
      /\ bufs' = [u \in Slots |-> bufs'[u]]
      /\ bufs'[s] = [q \in Queries |-> bufs'[s][q]]
  BY <1>1, <1>3, <1>4, <1>5 DEF BuffersInv
<1> HIDE DEF S, T, s
<1>8. ASSUME NEW q \in S
      PROVE  /\ bufs'[s][q] \in Buffers(AllPoints)
             /\ Grows(q, bufs[s][q], bufs'[s][q], T)
  <2>1. q \in Queries /\ Measured(q, AllPoints)
    BY <1>1, <1>4, InfinityIs
  <2>2. bufs[s][q] \in Buffers(AllPoints) /\ (HasK(bufs[s][q]) => IsFull(q, bufs[s][q]))
    BY <1>1, <1>5, <2>1, BuffersAre
  <2> QED
    BY <1>4, <1>6, <1>7, <2>1, <2>2, RelaxedIs
<1>9. ASSUME NEW u \in Slots, NEW q \in Queries
      PROVE  bufs'[u][q] \in Buffers(AllPoints) /\ Grows(q, bufs[u][q], bufs'[u][q], {})
  <2>1. CASE u = s /\ q \in S
    BY <1>8, <2>1 DEF Grows
  <2>2. CASE ~(u = s /\ q \in S)
    <3>1. bufs'[u][q] = bufs[u][q]
      BY <1>7, <2>2
    <3>2. Grows(q, bufs[u][q], bufs[u][q], {}) /\ bufs[u][q] \in Buffers(AllPoints)
      BY <1>1, BuffersAre DEF Grows
    <3> QED
      BY <3>1, <3>2
  <2> QED
    BY <2>1, <2>2
<1>10. BuffersGrow
  <2>1. bufs' \in [Slots -> [Queries -> Buffers(AllPoints)]]
    <3>1. \A u \in Slots : bufs'[u] = [q \in Queries |-> bufs'[u][q]]
      BY <1>1, <1>7 DEF BuffersInv
    <3>2. \A u \in Slots : bufs'[u] \in [Queries -> Buffers(AllPoints)]
      BY <1>9, <3>1
    <3> QED
      BY <1>7, <3>2
  <2> QED
    BY <1>9, <2>1 DEF BuffersGrow
<1>11. BuffersInv'
  <2>1. /\ Trees' = Trees /\ Queries' = Queries /\ AllPoints' = AllPoints /\ Slots' = Slots
        /\ has_buffer' = has_buffer /\ \A u : Slot(u)' = Slot(u)
    BY <1>2, InputsStay
  <2>2. \A u \in Slots, q \in Queries : /\ HasK(bufs'[u][q]) => IsFull(q, bufs'[u][q])
                                        /\ HasK(bufs[u][q]) => HasK(bufs'[u][q])
    BY <1>9 DEF Grows
  <2>3. 1 \in Trees /\ 1 <= t /\ Slot(1) \in Slots
    BY <1>1 DEF InputsInv, Trees, Slots
  <2>4. ASSUME has_buffer, status[1] \in {"called", "thrown"}, NEW q \in Queries
        PROVE  bufs'[Slot(1)][q] = NewBuffer
    <3>1. Slot(1) # s
      BY <1>1, <1>4, <2>3, <2>4, OtherSlot DEF s
    <3>2. bufs'[Slot(1)][q] = bufs[Slot(1)][q]
      BY <1>7, <2>3, <3>1
    <3> QED
      BY <1>1, <2>4, <3>2 DEF BuffersInv
  <2>5. ASSUME has_buffer, status[1] \in {"running", "done"}, NEW q \in Queries
        PROVE  HasK(bufs'[Slot(1)][q])
    BY <1>1, <2>2, <2>3, <2>5 DEF BuffersInv
  <2> QED
    BY <1>2, <1>10, <2>1, <2>2, <2>4, <2>5 DEF BuffersInv, BuffersGrow
<1>12. DistInv' /\ InputsInv'
  BY <1>1, <1>2, <1>10, DistStays, InputsInvStays
<1>13. PICK v : v = SliceRadius(S, bufs'[s])
  OBVIOUS
<1>14. LeafRadius(c, found) = v
  <2>1. {RadiusOf(q, found[q]) : q \in S} = {RadiusOf(q, bufs'[s][q]) : q \in S}
    BY <1>7
  <2> QED
    BY <1>13, <2>1 DEF LeafRadius, SliceRadius, S
<1>15. MaySet(t, c.q, v)' /\ v \in Nat
  <2>1. /\ Trees' = Trees /\ QNodes' = QNodes /\ queryTree' = queryTree
        /\ Slot(t)' = s /\ queryTree[c.q].points = S
    BY <1>2, <1>4, InputsStay DEF s, S
  <2>2. LeavesMaySet'
    BY <1>11, <1>12, LeafMaySetNext
  <2>3. (queryTree[c.q].points)' = S /\ (bufs[Slot(t)])' = bufs'[s]
    BY <2>1
  <2>4. v = SliceRadius((queryTree[c.q].points)', (bufs[Slot(t)])')
    BY <1>13, <2>3
  <2>5. IsLeafNode(queryTree'[c.q])
    BY <1>4, <2>1
  <2>6. MaySet(t, c.q, v)'
    BY <1>4, <2>1, <2>2, <2>4, <2>5 DEF LeavesMaySet
  <2>7. Infinity \in Nat
    BY <1>1, InfinityIs
  <2>8. v \in 0..Infinity
    BY <2>6 DEF MaySet
  <2> QED
    BY <2>6, <2>7, <2>8
<1>16. ASSUME NEW q \in Queries, NEW p \in rtrees[t][<<>>].points, LooksAt(t, c, q, p)
       PROVE  Settled(q, p)'
  <2>1. q \in S /\ p \in T
    BY <1>16 DEF LooksAt, Covers, S, T
  <2>2. p \in bufs'[s][q].elems \/ Within(q, bufs'[s][q].elems, Cost(q, p))
    BY <1>8, <2>1 DEF Grows
  <2>3. Slots' = Slots
    BY <1>2, InputsStay
  <2> QED
    BY <1>5, <2>2, <2>3 DEF Settled
<1> DEFINE st == State("radius", v)
<1>17. st.at = "radius" /\ st.n = v /\ SeenAre(st.seen) /\ Goes(t, c, st)
  BY <1>3, <1>14, StateIs
<1> HIDE DEF st
<1>18. st.at \in {"radius", "returned"} /\ st.n \in Nat
  BY <1>15, <1>17
<1>19. MaySet(t, c.q, st.n)'
  BY <1>15, <1>17
<1> QED
  BY <1>2, <1>10, <1>11, <1>16, <1>17, <1>18, <1>19, GoesInv
-----------------------------------------------------------------------------
(* Setting a distance *)

\* Two calls of a tree that are both about to do something have different queries.
LEMMA WritersParted ==
  ASSUME InputsInv, CallsInv, NEW t \in Trees, NEW c \in DOMAIN calls[t],
         NEW d \in DOMAIN calls[t], Writes(t, c), Writes(t, d), c # d
  PROVE  Parted(c.q, d.q)
<1>1. NoneCross(PhasesOf(t), calls[t])
  BY CallsOfTree
<1>2. /\ calls[t][c].at # "returned" /\ calls[t][d].at # "returned"
      /\ calls[t][c].at # "phase" /\ calls[t][d].at # "phase"
  BY DEF Writes
<1> QED
  BY <1>1, <1>2 DEF NoneCross, WaitsOver

LEMMA OneRuns ==
  ASSUME InputsInv, OrderInv, NEW t \in Trees, NEW u \in Trees, t # u,
         status[t] = "running", status[u] = "running"
  PROVE  apart
<1>1. t < u \/ u < t
  BY DEF Trees, InputsInv
<1> QED
  BY <1>1 DEF OrderInv

\* A distance is set to what the call saw, unless it is lower already.
LEMMA SetDistIs ==
  ASSUME InputsInv, DistInv, CallsInv, RadiusInv, UNCHANGED inputs,
         NEW t \in Trees, NEW c \in DOMAIN calls[t], SetDist(t, c)
  PROVE  /\ dist' \in [{DistSlot(u) : u \in Trees} -> [QNodes -> 0..Infinity]]
         /\ \A u \in Trees, n \in QNodes :
              /\ dist'[DistSlot(u)][n] <= dist[DistSlot(u)][n]
              /\ ~(DistSlot(u) = DistSlot(t) /\ n = c.q) =>
                   dist'[DistSlot(u)][n] = dist[DistSlot(u)][n]
         /\ dist'[DistSlot(t)][c.q] \in {calls[t][c].n, dist[DistSlot(t)][c.q]}
         /\ mode # "ATOMIC_LEAF" => dist'[DistSlot(t)][c.q] = calls[t][c].n
<1> DEFINE s == DistSlot(t)
           v == calls[t][c].n
           old == dist[s][c.q]
           new == NewDist(old, v)
<1>1. c.q \in QNodes /\ Infinity \in Nat /\ s \in {DistSlot(u) : u \in Trees}
  BY NodesOfCall, InfinityIs, SlotIs
<1>2. MaySet(t, c.q, v)
  BY DEF SetDist, IsAt, RadiusInv
<1>3. v \in 0..Infinity /\ old \in 0..Infinity /\ (mode # "ATOMIC_LEAF" => v <= old)
  BY <1>1, <1>2 DEF DistInv, MaySet
<1>4. dist' = [dist EXCEPT ![s][c.q] = new]
  BY DEF SetDist
<1>5. new \in {v, old} /\ new <= old /\ (mode # "ATOMIC_LEAF" => new = v)
  <2>1. CASE mode = "ATOMIC_LEAF"
    <3>1. new = Min({old, v})
      BY <2>1 DEF NewDist
    <3>2. {old, v} \in SUBSET Int /\ {old, v} # {} /\ {old, v} = {old} \cup {v}
      BY <1>1, <1>3
    <3> HIDE DEF old, v, new
    <3>3. IsFiniteSet({old} \cup {v})
      BY FS_Singleton, FS_AddElement
    <3>4. IsFiniteSet({old, v})
      BY <3>2, <3>3
    <3>5. Min({old, v}) \in {old, v} /\ \A y \in {old, v} : Min({old, v}) <= y
      BY <3>2, <3>4, MinIs
    <3> QED
      BY <2>1, <3>1, <3>5
  <2>2. CASE mode # "ATOMIC_LEAF"
    BY <1>3, <2>2 DEF NewDist
  <2> QED
    BY <2>1, <2>2
<1>6. dist \in [{DistSlot(u) : u \in Trees} -> [QNodes -> 0..Infinity]]
  BY DEF DistInv
<1>7. new \in 0..Infinity
  BY <1>3, <1>5
<1>8. \A u \in Trees : DistSlot(u) \in {DistSlot(w) : w \in Trees}
  BY SlotIs
<1> DEFINE D == {DistSlot(u) : u \in Trees}
           M == 0..Infinity
<1>9. \A x \in M : x \in Int
  BY <1>1
<1>10. dist' \in [D -> [QNodes -> M]]
  <2> HIDE DEF new, s, D, M
  <2> QED
    BY <1>1, <1>4, <1>6, <1>7 DEF D, M
<1>11. dist'[s][c.q] = new
       /\ \A x \in D, n \in QNodes : ~(x = s /\ n = c.q) => dist'[x][n] = dist[x][n]
  <2> HIDE DEF new, s, D
  <2> QED
    BY <1>1, <1>4, <1>6 DEF D
<1>12. \A x \in D, n \in QNodes : dist[x][n] \in Int
  <2> HIDE DEF D, M
  <2> QED
    BY <1>6, <1>9 DEF D, M
<1>13. \A x \in D, n \in QNodes : dist'[x][n] <= dist[x][n]
  <2> HIDE DEF new, s, D
  <2> QED
    BY <1>5, <1>11, <1>12 DEF s
<1> HIDE DEF new
<1> QED
  BY <1>5, <1>8, <1>10, <1>11, <1>13

\* What a call is to set does not become too high while another one sets a distance:
\* no two set the same.
LEMMA OtherRadius ==
  ASSUME IInv, UNCHANGED inputs, NEW t \in Trees, NEW c \in DOMAIN calls[t], SetDist(t, c),
         NEW u \in Trees, NEW d \in DOMAIN calls[u], calls[u][d].at = "radius",
         ~(u = t /\ d = c), mode # "ATOMIC_LEAF"
  PROVE  ~(DistSlot(u) = DistSlot(t) /\ d.q = c.q)
<1>1. InputsInv /\ CallsInv /\ OrderInv
  BY DEF IInv
<1>2. /\ Writes(t, c) /\ Writes(u, d) /\ status[t] = "running" /\ status[u] = "running"
      /\ c.q \in Paths /\ d.q \in Paths
  BY <1>1, NodesOfCall, QueryNodesAre DEF SetDist, IsAt, Writes
<1>3. CASE u = t
  <2>1. Parted(c.q, d.q)
    BY <1>1, <1>2, <1>3, WritersParted
  <2> QED
    BY <1>2, <2>1, PrefixesOrder DEF Parted
<1>4. CASE u # t
  <2>1. apart
    BY <1>1, <1>2, <1>4, OneRuns
  <2>2. mode = "ARRAY"
    BY <1>1, <2>1 DEF InputsInv, Modes
  <2> QED
    BY <1>4, <2>2 DEF DistSlot
<1> QED
  BY <1>3, <1>4

LEMMA SetDistInv ==
  ASSUME IInv, NEW t \in Trees, NEW c \in DOMAIN calls[t], SetDist(t, c)
  PROVE  IInv'
<1>1. /\ InputsInv /\ StateInv /\ CallsInv /\ OrderInv /\ BuffersInv /\ DistInv /\ RadiusInv
      /\ CoverInv
  BY DEF IInv
<1> DEFINE st == State("returned", 0)
           v == calls[t][c].n
<1>2. /\ UNCHANGED <<inputs, bufs, status, res>> /\ UNCHANGED <<inputs, bufs, status>>
      /\ UNCHANGED <<inputs, status>> /\ UNCHANGED <<inputs, status, res>> /\ UNCHANGED inputs
      /\ bufs' = bufs /\ status' = status
      /\ calls[t][c].at = "radius" /\ Ready(t, c)
      /\ Goes(t, c, st) /\ st.at = "returned" /\ st.n = 0 /\ SeenAre(st.seen)
  BY EnteredIsReady, StateIs DEF SetDist, IsAt
<1> HIDE DEF st
<1>3. st.at \in {"radius", "returned"} /\ st.n \in Nat /\ SeenAre(st.seen)
  BY <1>2
<1>4. InputsInv' /\ StateInv' /\ OrderInv' /\ BuffersInv' /\ BuffersGrow
  BY <1>1, <1>2, StateStays, BuffersStay
<1>5. /\ CallsInv' /\ calls'[t] = [calls[t] EXCEPT ![c] = st]
      /\ \A u \in Trees : u # t => calls'[u] = calls[u]
  BY <1>1, <1>2, <1>3, GoesStep
<1>6. /\ dist' \in [{DistSlot(u) : u \in Trees} -> [QNodes -> 0..Infinity]]
      /\ \A u \in Trees, n \in QNodes :
           /\ dist'[DistSlot(u)][n] <= dist[DistSlot(u)][n]
           /\ ~(DistSlot(u) = DistSlot(t) /\ n = c.q) =>
                dist'[DistSlot(u)][n] = dist[DistSlot(u)][n]
      /\ dist'[DistSlot(t)][c.q] \in {v, dist[DistSlot(t)][c.q]}
      /\ mode # "ATOMIC_LEAF" => dist'[DistSlot(t)][c.q] = v
  BY <1>1, <1>2, SetDistIs
<1>7. /\ Trees' = Trees /\ QNodes' = QNodes /\ queryTree' = queryTree /\ mode' = mode
      /\ Slots' = Slots /\ \A u : DistSlot(u)' = DistSlot(u) /\ Slot(u)' = Slot(u)
      /\ \A n : Bounded(n)' = Bounded(n)
  BY <1>2, InputsStay
<1>8. \A u \in Trees, n \in QNodes : dist'[DistSlot(u)][n] \in Int
                                     /\ dist'[DistSlot(u)][n] <= dist[DistSlot(u)][n]
                                     /\ dist[DistSlot(u)][n] \in Int
  BY <1>1, <1>6, SlotIs, InfinityIs DEF DistInv
<1>9. \A u \in Trees, n \in QNodes, w \in Int : NotBelow(u, n, w) => NotBelow(u, n, w)'
  BY <1>1, <1>2, <1>4, <1>8, NotBelowStays
<1>10. \A u \in Trees, q \in Queries, w \in Int : IsBound(u, q, w) => IsBound(u, q, w)'
  BY <1>1, <1>2, <1>4, BoundsStay
<1>11. /\ MaySet(t, c.q, v) /\ c.q \in QNodes /\ v \in Int
       /\ \A n \in QNodes : queryTree[n].points \in SUBSET Queries
  <2>1. MaySet(t, c.q, v) /\ c.q \in QNodes /\ Infinity \in Nat
    BY <1>1, <1>2, NodesOfCall, InfinityIs DEF RadiusInv
  <2>2. v \in Int
    BY <2>1 DEF MaySet
  <2> QED
    BY <1>1, <2>1, <2>2, QueryNodesAre
<1> HIDE DEF v
<1>12. ASSUME NEW u \in Trees, NEW n \in QNodes
       PROVE  /\ Bounded(n) => \A q \in queryTree[n].points : IsBound(u, q, dist'[DistSlot(u)][n])
              /\ mode # "ATOMIC_LEAF" => NotBelow(u, n, dist'[DistSlot(u)][n])
  <2>1. /\ Bounded(n) => \A q \in queryTree[n].points : IsBound(u, q, dist[DistSlot(u)][n])
        /\ mode # "ATOMIC_LEAF" => NotBelow(u, n, dist[DistSlot(u)][n])
    BY <1>1 DEF DistInv
  <2>2. CASE dist'[DistSlot(u)][n] = dist[DistSlot(u)][n]
    BY <2>1, <2>2
  <2>3. CASE dist'[DistSlot(u)][n] # dist[DistSlot(u)][n]
    <3>1. DistSlot(u) = DistSlot(t) /\ n = c.q
      BY <1>6, <2>3
    <3>2. dist'[DistSlot(u)][n] = v
      BY <1>6, <2>3, <3>1
    <3>3. /\ Bounded(n) => \A q \in queryTree[n].points : IsBound(t, q, v)
          /\ mode # "ATOMIC_LEAF" => NotBelow(t, n, v)
      BY <1>11, <3>1 DEF MaySet
    <3>4. mode = "ARRAY" => u = t
      BY <3>1 DEF DistSlot
    <3>5. Bounded(n) => \A q \in queryTree[n].points : IsBound(u, q, v)
      BY <3>3, <3>4 DEF IsBound
    <3>6. ASSUME mode # "ATOMIC_LEAF"  PROVE NotBelow(u, n, v)
      <4>1. Slot(u) = Slot(t)
        BY <1>1, <3>4, <3>6 DEF InputsInv, Modes, Slot
      <4> QED
        BY <3>1, <3>3, <3>6, <4>1 DEF NotBelow
    <3> QED
      BY <3>2, <3>5, <3>6
  <2> QED
    BY <2>2, <2>3
<1>13. DistInv'
  <2>1. ASSUME NEW u \in Trees, NEW n \in QNodes
        PROVE  /\ Bounded(n) => \A q \in queryTree[n].points : IsBound(u, q, dist[DistSlot(u)][n])'
               /\ mode # "ATOMIC_LEAF" => NotBelow(u, n, dist[DistSlot(u)][n])'
    <3>1. PICK w \in Int : w = dist'[DistSlot(u)][n]
      BY <1>8
    <3>2. (dist[DistSlot(u)][n])' = w
      BY <1>7, <3>1
    <3>3. /\ Bounded(n) => \A q \in queryTree[n].points : IsBound(u, q, w)'
          /\ mode # "ATOMIC_LEAF" => NotBelow(u, n, w)'
      BY <1>9, <1>10, <1>11, <1>12, <3>1
    <3> QED
      BY <3>2, <3>3 DEF IsBound, NotBelow
  <2>2. {DistSlot(u) : u \in Trees}' = {DistSlot(u) : u \in Trees}
    BY <1>7
  <2>3. (dist \in [{DistSlot(u) : u \in Trees} -> [QNodes -> 0..Infinity]])'
    BY <1>6, <1>7, <2>2
  <2> QED
    BY <1>7, <2>1, <2>3 DEF DistInv
<1>14. RadiusInv'
  <2>1. ASSUME NEW u \in Trees, NEW d \in DOMAIN calls'[u], calls'[u][d].at = "radius"
        PROVE  MaySet(u, d.q, calls[u][d].n)'
    <3>1. ~(u = t /\ d = c) /\ d \in DOMAIN calls[u] /\ calls'[u][d] = calls[u][d]
      BY <1>2, <1>5, <2>1
    <3>2. PICK w : w = calls[u][d].n
      OBVIOUS
    <3>3. MaySet(u, d.q, w) /\ d.q \in QNodes
      BY <1>1, <2>1, <3>1, <3>2, NodesOfCall DEF RadiusInv
    <3>4. w \in Int
      BY <1>1, <3>3, InfinityIs DEF MaySet
    <3>5. ASSUME mode # "ATOMIC_LEAF"  PROVE w <= dist'[DistSlot(u)][d.q]
      <4>1. ~(DistSlot(u) = DistSlot(t) /\ d.q = c.q)
        BY <1>2, <2>1, <3>1, <3>5, OtherRadius
      <4> QED
        BY <1>6, <3>3, <3>5, <4>1 DEF MaySet
    <3>6. Bounded(d.q) => \A q \in queryTree[d.q].points : IsBound(u, q, w)'
      BY <1>10, <1>11, <3>3, <3>4 DEF MaySet
    <3>7. mode # "ATOMIC_LEAF" => NotBelow(u, d.q, w)'
      BY <1>9, <3>3, <3>4 DEF MaySet
    <3>8. w \in 0..Infinity
      BY <3>3 DEF MaySet
    <3>9. MaySet(u, d.q, w)' /\ calls'[u][d].n = w
      BY <1>7, <3>1, <3>2, <3>5, <3>6, <3>7, <3>8 DEF MaySet
    <3> QED
      BY <3>9 DEF MaySet, IsBound, NotBelow
  <2> QED
    BY <1>7, <2>1 DEF RadiusInv
<1>15. CoverInv'
  <2>1. ASSUME NEW u \in Trees, NEW q \in Queries, NEW p \in rtrees[u][<<>>].points, Pending(u, q, p)
        PROVE  Pending(u, q, p)' \/ Settled(q, p)'
    <3>1. Pending(u, q, p)' \/ (u = t /\ LooksAt(t, c, q, p))
      BY <1>1, <1>2, <1>3, <2>1, GoesPending
    <3> QED
      BY <1>2, <3>1 DEF LooksAt
  <2> QED
    BY <1>1, <1>2, <1>4, <2>1, CoverStays
<1> QED
  BY <1>4, <1>5, <1>13, <1>14, <1>15 DEF IInv
-----------------------------------------------------------------------------
(* The search of a tree begins, and ends *)

LEMMA SamePending ==
  ASSUME UNCHANGED inputs, NEW u, calls'[u] = calls[u], NEW q, NEW p, Pending(u, q, p)
  PROVE  Pending(u, q, p)'
<1>1. PICK d \in DOMAIN calls[u] : LooksAt(u, d, q, p)
  BY DEF Pending
<1>2. LooksAt(u, d, q, p)'
  BY <1>1, LooksStay
<1> QED
  BY <1>1, <1>2 DEF Pending

\* The calls of tree t are replaced by some of which none is about to set a distance.
LEMMA RadiusStays ==
  ASSUME InputsInv, CallsInv, BuffersInv, DistInv, RadiusInv, UNCHANGED <<inputs, dist>>,
         BuffersGrow, NEW t \in Trees, \A u \in Trees : u # t => calls'[u] = calls[u],
         \A c \in DOMAIN calls'[t] : calls'[t][c].at # "radius"
  PROVE  RadiusInv'
<1>1. UNCHANGED inputs
  OBVIOUS
<1>2. ASSUME NEW u \in Trees, NEW d \in DOMAIN calls'[u], calls'[u][d].at = "radius"
      PROVE  MaySet(u, d.q, calls[u][d].n)'
  <2>1. d \in DOMAIN calls[u] /\ calls'[u][d] = calls[u][d]
    BY <1>2
  <2>2. d.q \in QNodes
    BY <2>1, NodesOfCall
  <2>3. PICK v : v = calls[u][d].n
    OBVIOUS
  <2>4. MaySet(u, d.q, v)
    BY <1>2, <2>1, <2>3 DEF RadiusInv
  <2>5. MaySet(u, d.q, v)' /\ calls'[u][d].n = v
    BY <2>1, <2>2, <2>3, <2>4, DistStays
  <2> QED
    BY <2>5 DEF MaySet, IsBound, NotBelow
<1>3. Trees' = Trees
  BY <1>1, InputsStay
<1> QED
  BY <1>2, <1>3 DEF RadiusInv

\* The calls of a tree whose search has not begun, or has ended
LEMMA NoCalls ==
  ASSUME CallsInv, NEW t \in Trees, status[t] # "running"
  PROVE  DOMAIN calls[t] = {} /\ \A q, p : ~Pending(t, q, p)
BY DEF CallsInv, CallsAre, Pending

LEMMA RootIsCall ==
  ASSUME InputsInv, NEW t \in Trees
  PROVE  /\ Root(t) \in CallsOf(t) /\ Root(t).q = <<>> /\ Root(t).r = <<>>
         /\ Root(t).op = "updateDualDist" => has_buffer /\ t = 1
         /\ ~(has_buffer /\ t = 1) => Root(t).op = "DualKnnHelper"
<1>1. <<>> \in QNodes /\ <<>> \in DOMAIN rtrees[t]
  BY DEF InputsInv, Shape, QNodes
<1> QED
  BY <1>1 DEF Root, UpdateCall, KnnCall, CallsOf

\* The search of tree t begins.  The buffer tree has been searched before that.
LEMMA EnterInv ==
  ASSUME IInv, UNCHANGED <<inputs, dist, res>>, BuffersGrow, BuffersInv',
         NEW t \in Trees, status[t] = "called",
         status' = [status EXCEPT ![t] = "running"],
         calls' = [calls EXCEPT ![t] = [c \in {Root(t)} |-> State("entered", 0)]],
         has_buffer /\ t = 1 =>
           \A q \in Queries, p \in rtrees[t][<<>>].points : Settled(q, p)'
  PROVE  IInv'
<1>1. /\ InputsInv /\ StateInv /\ CallsInv /\ OrderInv /\ BuffersInv /\ DistInv /\ RadiusInv
      /\ CoverInv
  BY DEF IInv
<1>2. UNCHANGED inputs /\ UNCHANGED <<inputs, dist>> /\ res' = res
  OBVIOUS
<1>3. /\ Trees' = Trees /\ Queries' = Queries /\ AllPoints' = AllPoints /\ apart' = apart
      /\ rtrees' = rtrees /\ has_buffer' = has_buffer
      /\ \A u : Root(u)' = Root(u) /\ CallsOf(u)' = CallsOf(u) /\ PhasesOf(u)' = PhasesOf(u)
      /\ \A u, c : Phases(u, c)' = Phases(u, c)
      /\ \A u, c, q, p : Covers(u, c, q, p)' = Covers(u, c, q, p)
      /\ SharesDists' = SharesDists
  BY <1>2, InputsStay
<1>4. calls = [u \in Trees |-> calls[u]] /\ status = [u \in Trees |-> status[u]]
  BY <1>1 DEF CallsInv, StateInv
<1> DEFINE enter == [c \in {Root(t)} |-> State("entered", 0)]
<1>5. /\ calls' = [u \in Trees |-> calls'[u]] /\ calls'[t] = enter
      /\ \A u \in Trees : u # t => calls'[u] = calls[u]
      /\ status'[t] = "running" /\ \A u \in Trees : u # t => status'[u] = status[u]
  BY <1>4
<1>6. /\ DOMAIN enter = {Root(t)}
      /\ \A c \in DOMAIN enter : /\ c = Root(t) /\ enter[c].at = "entered" /\ enter[c].n = 0
                                 /\ SeenAre(enter[c].seen)
  BY StateIs
<1> HIDE DEF enter
<1>7. StateInv'
  <2>1. status' \in [Trees -> {"waiting", "called", "running", "done", "thrown"}]
    BY <1>1, <1>3 DEF StateInv
  <2> QED
    BY <1>1, <1>2, <1>3, <2>1 DEF StateInv, DualKnnExact, QueriesFindNearest
<1>8. CallsInv'
  <2>1. CallsAre(t)'
    <3>1. \A c \in DOMAIN calls'[t] : /\ c = Root(t)
                                      /\ calls'[t][c].at = "entered" /\ calls'[t][c].n = 0
                                      /\ SeenAre(calls'[t][c].seen)
      BY <1>5, <1>6
    <3>2. DOMAIN calls'[t] = {Root(t)}
      BY <1>5, <1>6
    <3> QED
      BY <1>1, <1>3, <1>5, <3>1, <3>2, RootIsCall DEF CallsAre
  <2>2. NoneCross(PhasesOf(t), calls'[t]) /\ RootLast(Root(t), calls'[t])
    BY <1>5, <1>6 DEF NoneCross, RootLast
  <2>3. ASSUME NEW u \in Trees, u # t
        PROVE  CallsAre(u)' /\ NoneCross(PhasesOf(u), calls'[u]) /\ RootLast(Root(u), calls'[u])
    <3>1. CallsAre(u) /\ NoneCross(PhasesOf(u), calls[u]) /\ RootLast(Root(u), calls[u])
      BY <1>1 DEF CallsInv
    <3>2. CallsAre(u)'
      BY <1>3, <1>5, <2>3, <3>1 DEF CallsAre
    <3> QED
      BY <1>5, <2>3, <3>1, <3>2
  <2>4. \A u \in Trees : /\ CallsAre(u)' /\ NoneCross(PhasesOf(u), calls'[u])
                         /\ RootLast(Root(u), calls'[u])
    BY <2>1, <2>2, <2>3
  <2> QED
    BY <1>3, <1>5, <2>4 DEF CallsInv
<1>9. OrderInv'
  BY <1>1, <1>3, <1>5 DEF OrderInv
<1>10. DistInv'
  BY <1>1, <1>2, DistStays
<1>11. RadiusInv'
  BY <1>1, <1>2, <1>5, <1>6, RadiusStays
<1>12. CoverInv'
  <2>1. ASSUME NEW u \in Trees, status'[u] \in {"running", "done"},
               NEW q \in Queries, NEW p \in rtrees[u][<<>>].points
        PROVE  Settled(q, p)' \/ Pending(u, q, p)'
    <3>1. CASE u # t
      <4>1. Settled(q, p) \/ Pending(u, q, p)
        BY <1>1, <1>5, <2>1, <3>1 DEF CoverInv
      <4>2. p \in AllPoints
        BY DEF AllPoints
      <4>3. calls'[u] = calls[u]
        BY <1>5, <3>1
      <4> QED
        BY <1>1, <1>2, <4>1, <4>2, <4>3, BoundsStay, SamePending
    <3>2. CASE u = t /\ has_buffer /\ t = 1
      BY <3>2
    <3>3. CASE u = t /\ ~(has_buffer /\ t = 1)
      <4>1. Covers(t, Root(t), q, p)
        BY <1>1, <3>3, RootIsCall DEF Covers, QNode, RNode, Queries
      <4>2. Root(t) \in DOMAIN calls'[t] /\ calls'[t][Root(t)].at = "entered"
        BY <1>5, <1>6
      <4>3. LooksAt(t, Root(t), q, p)'
        BY <1>3, <4>1, <4>2 DEF LooksAt
      <4> QED
        BY <1>3, <3>3, <4>2, <4>3 DEF Pending
    <3> QED
      BY <3>1, <3>2, <3>3
  <2> QED
    BY <1>3, <2>1 DEF CoverInv
<1> QED
  BY <1>1, <1>2, <1>7, <1>8, <1>9, <1>10, <1>11, <1>12, InputsInvStays DEF IInv

\* Buffers that stay, while the search of another tree than the buffer tree begins
LEMMA StartTreeInv ==
  ASSUME IInv, NEW t \in Trees, StartTree(t)
  PROVE  IInv'
<1>1. InputsInv /\ BuffersInv /\ StateInv
  BY DEF IInv
<1>2. /\ UNCHANGED <<inputs, dist, res>> /\ UNCHANGED inputs /\ bufs' = bufs
      /\ status[t] = "called" /\ ~(has_buffer /\ t = 1)
      /\ status' = [status EXCEPT ![t] = "running"]
      /\ calls' = [calls EXCEPT ![t] = [c \in {Root(t)} |-> State("entered", 0)]]
  BY DEF StartTree
<1>3. /\ Queries' = Queries /\ AllPoints' = AllPoints /\ Slots' = Slots
      /\ has_buffer' = has_buffer /\ \A u : Slot(u)' = Slot(u)
  BY <1>2, InputsStay
<1>4. has_buffer => status'[1] = status[1]
  BY <1>1, <1>2 DEF StateInv
<1>5. BuffersInv'
  BY <1>1, <1>2, <1>3, <1>4 DEF BuffersInv
<1>6. BuffersGrow
  BY <1>1, <1>2, SameBuffers
<1> QED
  BY <1>2, <1>5, <1>6, EnterInv
\* What knn of the buffer tree leaves in its buffers
LEMMA SearchedIs ==
  ASSUME InputsInv, NEW t \in Trees, Cardinality(rtrees[t][<<>>].points) >= k,
         NEW q \in Queries,
         NEW c \in KeepK(q, [elems |-> rtrees[t][<<>>].points, kth |-> NoPoint, cached |-> FALSE])
  PROVE  /\ c \in Buffers(AllPoints) /\ HasK(c) /\ IsFull(q, c)
         /\ Grows(q, NewBuffer, c, rtrees[t][<<>>].points)
<1> DEFINE S == rtrees[t][<<>>].points
           all == [elems |-> S, kth |-> NoPoint, cached |-> FALSE]
<1>1. S \in SUBSET AllPoints
  BY DEF AllPoints
<1>2. Measured(q, AllPoints) /\ CostsAre(q, AllPoints) /\ IsFiniteSet(AllPoints)
  BY InfinityIs DEF Measured, CostsAre
<1>3. /\ NewBuffer \in Buffers(AllPoints) /\ NewBuffer.elems = {}
      /\ HasK(NewBuffer) => IsFull(q, NewBuffer)
  BY NewBufferIs
<1>4. /\ all \in Buffers(AllPoints) /\ all.elems = NewBuffer.elems \cup S /\ ~all.cached
      /\ HasK(all)
  BY <1>1, <1>3 DEF Buffers, HasK, ptr
<1>5. c \in KeepK(q, all)
  OBVIOUS
<1> HIDE DEF all, S
<1>6. c \in Buffers(AllPoints) /\ Grows(q, NewBuffer, c, S)
  BY <1>1, <1>2, <1>3, <1>4, <1>5, KeptIs
<1>7. IsFull(q, c)
  BY <1>2, <1>4, <1>5, KeepKIs
<1>8. HasK(c)
  BY <1>7, kAssumption DEF IsFull, HasK
<1> QED
  BY <1>6, <1>7, <1>8 DEF S

LEMMA SearchBufferTreeInv ==
  ASSUME IInv, NEW t \in Trees, SearchBufferTree(t)
  PROVE  IInv'
<1>1. /\ InputsInv /\ StateInv /\ CallsInv /\ OrderInv /\ BuffersInv /\ DistInv /\ RadiusInv
      /\ CoverInv
  BY DEF IInv
<1> DEFINE S == rtrees[t][<<>>].points
<1>2. /\ UNCHANGED <<inputs, dist, res>> /\ UNCHANGED <<inputs, dist>> /\ UNCHANGED inputs
      /\ res' = res
      /\ status[t] = "called" /\ has_buffer /\ t = 1 /\ Slot(1) = 1 /\ Slot(1) \in Slots
  BY SlotIs DEF SearchBufferTree, Slot
<1>3. /\ Trees' = Trees /\ Queries' = Queries /\ AllPoints' = AllPoints /\ Slots' = Slots
      /\ apart' = apart /\ has_buffer' = has_buffer /\ rtrees' = rtrees
      /\ SharesDists' = SharesDists
      /\ \A u : Slot(u)' = Slot(u) /\ Root(u)' = Root(u) /\ CallsOf(u)' = CallsOf(u)
                /\ PhasesOf(u)' = PhasesOf(u)
      /\ \A u, c : Phases(u, c)' = Phases(u, c)
  BY <1>2, InputsStay
<1>4. \A q \in Queries : bufs[Slot(1)][q] = NewBuffer
  BY <1>1, <1>2 DEF BuffersInv
<1>5. status = [u \in Trees |-> status[u]]
  BY <1>1 DEF StateInv
<1>6. CASE Cardinality(S) < k
  <2>1. /\ status' = [status EXCEPT ![t] = "thrown"] /\ UNCHANGED <<bufs, calls>>
        /\ bufs' = bufs /\ calls' = calls
    <3>1. ~(Cardinality(S) >= k)
      <4>1. IsFiniteSet(S)
        <5>1. S \in SUBSET AllPoints /\ IsFiniteSet(AllPoints)
          BY <1>1, InfinityIs, InputsArePoints, FS_Subset DEF AllPoints, ArePoints
        <5> QED
          BY <5>1, FS_Subset
      <4>2. Cardinality(S) \in Nat
        BY <4>1, FS_CardinalityType
      <4> HIDE DEF S
      <4> QED
        BY <1>6, <4>2, kAssumption
    <3> QED
      BY <3>1 DEF SearchBufferTree
  <2>2. status'[t] = "thrown" /\ \A u \in Trees : u # t => status'[u] = status[u]
    BY <1>5, <2>1
  <2>3. DOMAIN calls[t] = {}
    BY <1>1, <1>2, NoCalls
  <2>4. StateInv'
    <3>1. status' \in [Trees -> {"waiting", "called", "running", "done", "thrown"}]
      BY <1>1, <2>1 DEF StateInv
    <3> QED
      BY <1>1, <1>2, <1>3, <3>1 DEF StateInv, DualKnnExact, QueriesFindNearest
  <2>5. CallsInv'
    <3>1. ASSUME NEW u \in Trees  PROVE CallsAre(u)'
      <4>1. CallsAre(u)
        BY <1>1 DEF CallsInv
      <4> QED
        BY <1>2, <1>3, <2>1, <2>2, <2>3, <4>1 DEF CallsAre
    <3> QED
      BY <1>1, <1>3, <2>1, <3>1 DEF CallsInv
  <2>6. OrderInv'
    BY <1>1, <1>2, <1>3, <2>2 DEF OrderInv
  <2>7. BuffersInv' /\ BuffersGrow
    <3>1. BuffersGrow
      BY <1>1, <2>1, SameBuffers
    <3>2. BuffersInv'
      BY <1>1, <1>2, <1>3, <1>4, <2>1, <2>2 DEF BuffersInv
    <3> QED
      BY <3>1, <3>2
  <2>8. DistInv' /\ RadiusInv'
    BY <1>1, <1>2, <2>1, <2>3, <2>7, DistStays, RadiusStays
  <2>9. CoverInv'
    <3>1. ASSUME NEW u \in Trees, status'[u] \in {"running", "done"},
                 NEW q \in Queries, NEW p \in rtrees[u][<<>>].points
          PROVE  Settled(q, p)' \/ Pending(u, q, p)'
      <4>1. Settled(q, p) \/ Pending(u, q, p)
        BY <1>1, <2>2, <3>1 DEF CoverInv
      <4>2. p \in AllPoints
        BY DEF AllPoints
      <4> QED
        BY <1>1, <1>2, <2>1, <2>7, <4>1, <4>2, BoundsStay, SamePending
    <3> QED
      BY <1>3, <3>1 DEF CoverInv
  <2> QED
    BY <1>1, <1>2, <2>4, <2>5, <2>6, <2>7, <2>8, <2>9, InputsInvStays DEF IInv
<1>7. CASE ~(Cardinality(S) < k)
  <2>1. /\ Cardinality(S) >= k
        /\ status' = [status EXCEPT ![t] = "running"]
        /\ calls' = [calls EXCEPT ![t] = [c \in {Root(t)} |-> State("entered", 0)]]
    BY <1>7 DEF SearchBufferTree
  <2>2. PICK found \in OneOfEach([q \in Queries |->
                         KeepK(q, [elems |-> S, kth |-> NoPoint, cached |-> FALSE])]) :
          bufs' = [bufs EXCEPT ![Slot(t)] = found]
    BY <1>7 DEF SearchBufferTree
  <2>3. /\ found = [q \in Queries |-> found[q]]
        /\ \A q \in Queries : found[q] \in KeepK(q, [elems |-> S, kth |-> NoPoint, cached |-> FALSE])
    BY <2>2 DEF OneOfEach
  <2>4. /\ bufs'[Slot(1)] = found /\ bufs' = [u \in Slots |-> bufs'[u]]
        /\ \A u \in Slots : u # Slot(1) => bufs'[u] = bufs[u]
    BY <1>1, <1>2, <2>2 DEF BuffersInv
  <2>5. ASSUME NEW q \in Queries
        PROVE  /\ found[q] \in Buffers(AllPoints) /\ HasK(found[q]) /\ IsFull(q, found[q])
               /\ Grows(q, NewBuffer, found[q], S)
    BY <1>1, <2>1, <2>3, SearchedIs
  <2> HIDE DEF S
  <2>6. ASSUME NEW u \in Slots, NEW q \in Queries
        PROVE  bufs'[u][q] \in Buffers(AllPoints) /\ Grows(q, bufs[u][q], bufs'[u][q], {})
    <3>1. CASE u = Slot(1)
      <4>1. bufs[u][q] = NewBuffer /\ bufs'[u][q] = found[q]
        BY <1>4, <2>4, <3>1
      <4> QED
        BY <2>5, <4>1 DEF Grows
    <3>2. CASE u # Slot(1)
      <4>1. bufs'[u][q] = bufs[u][q]
        BY <2>4, <3>2
      <4>2. Grows(q, bufs[u][q], bufs[u][q], {}) /\ bufs[u][q] \in Buffers(AllPoints)
        BY <1>1, BuffersAre DEF Grows
      <4> QED
        BY <4>1, <4>2
    <3> QED
      BY <3>1, <3>2
  <2>7. BuffersGrow
    <3>1. \A u \in Slots : bufs'[u] = [q \in Queries |-> bufs'[u][q]]
      BY <1>1, <2>3, <2>4 DEF BuffersInv
    <3>2. \A u \in Slots : bufs'[u] \in [Queries -> Buffers(AllPoints)]
      BY <2>6, <3>1
    <3>3. bufs' \in [Slots -> [Queries -> Buffers(AllPoints)]]
      BY <2>4, <3>2
    <3> QED
      BY <2>6, <3>3 DEF BuffersGrow
  <2>8. BuffersInv'
    <3>1. \A u \in Slots, q \in Queries : HasK(bufs'[u][q]) => IsFull(q, bufs'[u][q])
      BY <2>6 DEF Grows
    <3>2. status'[1] = "running"
      BY <1>2, <1>5, <2>1
    <3>3. \A q \in Queries : HasK(bufs'[Slot(1)][q])
      BY <2>4, <2>5
    <3> QED
      BY <1>3, <2>7, <3>1, <3>2, <3>3 DEF BuffersInv, BuffersGrow
  <2>9. ASSUME NEW q \in Queries, NEW p \in rtrees[t][<<>>].points
        PROVE  Settled(q, p)'
    <3>1. p \in found[q].elems \/ Within(q, found[q].elems, Cost(q, p))
      BY <2>5 DEF Grows, S
    <3>2. p \in bufs'[Slot(1)][q].elems \/ Within(q, bufs'[Slot(1)][q].elems, Cost(q, p))
      BY <2>4, <3>1
    <3> QED
      BY <1>2, <1>3, <3>2 DEF Settled
  <2> QED
    BY <1>2, <2>1, <2>7, <2>8, <2>9, EnterInv
<1> QED
  BY <1>6, <1>7

LEMMA EndTreeInv ==
  ASSUME IInv, NEW t \in Trees, EndTree(t)
  PROVE  IInv'
<1>1. /\ InputsInv /\ StateInv /\ CallsInv /\ OrderInv /\ BuffersInv /\ DistInv /\ RadiusInv
      /\ CoverInv
  BY DEF IInv
<1>2. /\ UNCHANGED <<inputs, dist>> /\ UNCHANGED inputs /\ res' = res /\ bufs' = bufs
      /\ status[t] = "running" /\ calls[t][Root(t)].at = "returned"
      /\ status' = [s \in Trees |-> IF s = t THEN "done"
                                    ELSE IF ~apart /\ s = t + 1 THEN "called" ELSE status[s]]
      /\ calls' = [calls EXCEPT ![t] = <<>>]
  BY DEF EndTree
<1>3. /\ Trees' = Trees /\ Queries' = Queries /\ AllPoints' = AllPoints /\ Slots' = Slots
      /\ apart' = apart /\ has_buffer' = has_buffer /\ rtrees' = rtrees
      /\ SharesDists' = SharesDists
      /\ \A u : Slot(u)' = Slot(u) /\ Root(u)' = Root(u) /\ CallsOf(u)' = CallsOf(u)
                /\ PhasesOf(u)' = PhasesOf(u)
      /\ \A u, c : Phases(u, c)' = Phases(u, c)
  BY <1>2, InputsStay
<1>4. /\ calls' = [u \in Trees |-> calls'[u]] /\ DOMAIN calls'[t] = {}
      /\ \A u \in Trees : u # t => calls'[u] = calls[u]
  <2>1. calls = [u \in Trees |-> calls[u]]
    BY <1>1 DEF CallsInv
  <2>2. PICK none : none = <<>> /\ DOMAIN none = {}
    OBVIOUS
  <2>3. calls' = [calls EXCEPT ![t] = none]
    BY <1>2, <2>2
  <2> QED
    BY <2>1, <2>2, <2>3
<1>5. Trees = 1..Len(rtrees) /\ Len(rtrees) \in Nat
  BY <1>1 DEF Trees, InputsInv
<1>6. /\ status'[t] = "done"
      /\ \A u \in Trees : u # t => \/ status'[u] = status[u]
                                   \/ /\ ~apart /\ u = t + 1
                                      /\ status'[u] = "called" /\ status[u] = "waiting"
  <2>1. ASSUME NEW u \in Trees, ~apart, u = t + 1  PROVE status[u] = "waiting"
    BY <1>1, <1>2, <1>5, <2>1 DEF OrderInv
  <2> QED
    BY <1>2, <2>1
<1>7. StateInv'
  <2>1. status' \in [Trees -> {"waiting", "called", "running", "done", "thrown"}]
    BY <1>1, <1>2 DEF StateInv
  <2> QED
    BY <1>1, <1>2, <1>3, <2>1 DEF StateInv, DualKnnExact, QueriesFindNearest
<1>8. CallsInv'
  <2>1. ASSUME NEW u \in Trees
        PROVE  CallsAre(u)' /\ NoneCross(PhasesOf(u), calls'[u]) /\ RootLast(Root(u), calls'[u])
    <3>1. CASE u = t
      BY <1>3, <1>4, <1>6, <3>1 DEF CallsAre, NoneCross, RootLast
    <3>2. CASE u # t
      <4>1. CallsAre(u) /\ NoneCross(PhasesOf(u), calls[u]) /\ RootLast(Root(u), calls[u])
        BY <1>1 DEF CallsInv
      <4>2. status'[u] = status[u] \/ (status'[u] # "running" /\ status[u] # "running")
        BY <1>6, <3>2
      <4>3. CallsAre(u)'
        BY <1>3, <1>4, <3>2, <4>1, <4>2 DEF CallsAre
      <4> QED
        BY <1>4, <3>2, <4>1, <4>3
    <3> QED
      BY <3>1, <3>2
  <2> QED
    BY <1>3, <1>4, <2>1 DEF CallsInv
<1>9. OrderInv'
  <2>1. ASSUME NEW x \in Trees, NEW y \in Trees, ~apart, x < y, status'[y] # "waiting"
        PROVE  status'[x] = "done"
    <3>1. CASE y = t
      BY <1>1, <1>2, <1>5, <1>6, <2>1, <3>1 DEF OrderInv
    <3>2. CASE y = t + 1
      BY <1>1, <1>2, <1>5, <1>6, <2>1, <3>2 DEF OrderInv
    <3>3. CASE y # t /\ y # t + 1
      <4>1. status[y] # "waiting" /\ status[x] = "done"
        BY <1>1, <1>6, <2>1, <3>3 DEF OrderInv
      <4> QED
        BY <1>6, <4>1
    <3> QED
      BY <3>1, <3>2, <3>3
  <2> QED
    BY <1>3, <2>1 DEF OrderInv
<1>10. BuffersGrow
  BY <1>1, <1>2, SameBuffers
<1>11. BuffersInv'
  <2>1. 1 \in Trees /\ ~(\E u \in Trees : 1 = u + 1)
    BY <1>1, <1>5 DEF InputsInv
  <2>2. status'[1] = status[1] \/ (status'[1] = "done" /\ status[1] = "running")
    BY <1>2, <1>6, <2>1
  <2> QED
    BY <1>1, <1>2, <1>3, <2>2 DEF BuffersInv
<1>12. DistInv'
  BY <1>1, <1>2, <1>10, DistStays
<1>13. RadiusInv'
  BY <1>1, <1>2, <1>4, <1>10, RadiusStays
<1>14. CoverInv'
  <2>1. ASSUME NEW u \in Trees, status'[u] \in {"running", "done"},
               NEW q \in Queries, NEW p \in rtrees[u][<<>>].points
        PROVE  Settled(q, p)' \/ Pending(u, q, p)'
    <3>1. status[u] \in {"running", "done"}
      BY <1>2, <1>6, <2>1
    <3>2. Settled(q, p) \/ Pending(u, q, p)
      BY <1>1, <2>1, <3>1 DEF CoverInv
    <3>3. p \in AllPoints
      BY DEF AllPoints
    <3>4. CASE u = t
      <4>1. \A c \in DOMAIN calls[t] : calls[t][c].at = "returned"
        BY <1>1, <1>2 DEF CallsInv, RootLast
      <4>2. ~Pending(t, q, p)
        BY <4>1 DEF Pending, LooksAt
      <4> QED
        BY <1>1, <1>2, <1>10, <3>2, <3>3, <3>4, <4>2, BoundsStay
    <3>5. CASE u # t
      BY <1>1, <1>2, <1>4, <1>10, <3>2, <3>3, <3>5, BoundsStay, SamePending
    <3> QED
      BY <3>4, <3>5
  <2> QED
    BY <1>3, <2>1 DEF CoverInv
<1> QED
  BY <1>1, <1>2, <1>7, <1>8, <1>9, <1>11, <1>12, <1>13, <1>14, InputsInvStays DEF IInv
-----------------------------------------------------------------------------
(* The query returns *)

\* A step of no search
LEMMA QuietInv ==
  ASSUME IInv, UNCHANGED <<inputs, bufs, dist, calls>>,
         \A u \in Trees : status'[u] = "running" <=> status[u] = "running"
  PROVE  /\ InputsInv' /\ CallsInv' /\ DistInv' /\ RadiusInv' /\ BuffersGrow
         /\ \A u, q, p : Pending(u, q, p) => Pending(u, q, p)'
<1>1. /\ InputsInv /\ CallsInv /\ BuffersInv /\ DistInv /\ RadiusInv
  BY DEF IInv
<1>2. /\ UNCHANGED inputs /\ UNCHANGED <<inputs, dist>> /\ bufs' = bufs /\ calls' = calls
  OBVIOUS
<1>3. /\ Trees' = Trees /\ has_buffer' = has_buffer
      /\ \A u : Root(u)' = Root(u) /\ CallsOf(u)' = CallsOf(u) /\ PhasesOf(u)' = PhasesOf(u)
      /\ \A u, c : Phases(u, c)' = Phases(u, c)
  BY <1>2, InputsStay
<1>4. BuffersGrow
  BY <1>1, <1>2, SameBuffers
<1>5. CallsInv'
  <2>1. ASSUME NEW u \in Trees  PROVE CallsAre(u)'
    <3>1. CallsAre(u)
      BY <1>1 DEF CallsInv
    <3> QED
      BY <1>2, <1>3, <3>1 DEF CallsAre
  <2> QED
    BY <1>1, <1>2, <1>3, <2>1 DEF CallsInv
<1>6. DistInv' /\ \A u \in Trees, n \in QNodes : \A v : MaySet(u, n, v) => MaySet(u, n, v)'
  BY <1>1, <1>2, <1>4, DistStays
<1>7. RadiusInv'
  <2>1. ASSUME NEW u \in Trees, NEW d \in DOMAIN calls[u], calls[u][d].at = "radius"
        PROVE  MaySet(u, d.q, calls[u][d].n)'
    <3>1. PICK v : v = calls[u][d].n
      OBVIOUS
    <3>2. MaySet(u, d.q, v) /\ d.q \in QNodes
      BY <1>1, <2>1, <3>1, NodesOfCall DEF RadiusInv
    <3>3. MaySet(u, d.q, v)' /\ calls'[u][d].n = v
      BY <1>2, <1>6, <3>1, <3>2
    <3> QED
      BY <3>3 DEF MaySet, IsBound, NotBelow
  <2> QED
    BY <1>2, <1>3, <2>1 DEF RadiusInv
<1>8. \A u, q, p : Pending(u, q, p) => Pending(u, q, p)'
  BY <1>2, SamePending
<1> QED
  BY <1>1, <1>2, <1>4, <1>5, <1>6, <1>7, <1>8, InputsInvStays

LEMMA StutterInv ==
  ASSUME IInv, UNCHANGED vars
  PROVE  IInv'
<1>1. /\ InputsInv /\ StateInv /\ OrderInv /\ BuffersInv /\ CoverInv
  BY DEF IInv
<1>2. /\ UNCHANGED <<inputs, bufs, dist, calls>> /\ UNCHANGED <<inputs, status, res>>
      /\ UNCHANGED <<inputs, bufs, status>> /\ UNCHANGED <<inputs, status>> /\ status' = status
  BY DEF vars
<1>3. /\ InputsInv' /\ CallsInv' /\ DistInv' /\ RadiusInv' /\ BuffersGrow
      /\ \A u, q, p : Pending(u, q, p) => Pending(u, q, p)'
  BY <1>2, QuietInv
<1>4. StateInv' /\ OrderInv' /\ BuffersInv'
  BY <1>1, <1>2, StateStays, BuffersStay
<1>5. CoverInv'
  BY <1>1, <1>2, <1>3, CoverStays
<1> QED
  BY <1>3, <1>4, <1>5 DEF IInv

\* Points that are not among U are not needed.
LEMMA NearestIs ==
  ASSUME NEW q, NEW points, Measured(q, points), NEW U \in SUBSET points,
         NEW N \in KNearest(q, U),
         \A p \in points : p \in U \/ Within(q, U, Cost(q, p))
  PROVE  N \in KNearest(q, points)
<1>1. /\ N \in SUBSET U /\ Cardinality(N) = k
      /\ \A p \in N, o \in U \ N : Cost(q, p) <= Cost(q, o)
  BY DEF KNearest, kSubset
<1>2. IsFiniteSet(N) /\ IsFiniteSet(points) /\ CostsAre(q, U \cup {})
  BY <1>1, FS_Subset DEF Measured, CostsAre
<1>3. ASSUME NEW p \in N, NEW o \in points \ N  PROVE Cost(q, p) <= Cost(q, o)
  <2>1. CASE o \in U
    BY <1>1, <2>1
  <2>2. CASE o \notin U
    <3>1. Within(q, U \cup {}, Cost(q, o)) /\ Cost(q, o) \in Int
      BY <2>2, WithinMore DEF Measured
    <3>2. Within(q, N \cup {}, Cost(q, o))
      BY <1>2, <3>1, WithinKept
    <3>3. Within(q, N, Cost(q, o))
      BY <3>2, WithinMore
    <3> QED
      BY <1>1, <1>2, <3>3, WithinAll
  <2> QED
    BY <2>1, <2>2
<1>4. N \in kSubset(k, points)
  BY <1>1 DEF kSubset
<1> QED
  BY <1>3, <1>4 DEF KNearest

\* What one slice has found
LEMMA FoundIs ==
  ASSUME InputsInv, BuffersInv, NEW q \in Queries, NEW s \in Slots
  PROVE  /\ bufs[s][q].elems \in SUBSET AllPoints /\ IsFiniteSet(bufs[s][q].elems)
         /\ FoundBy(q, s) = {bufs[s][q].elems}
         /\ HasK(bufs[s][q]) => Cardinality(bufs[s][q].elems) = k
<1>1. Measured(q, AllPoints) /\ IsFiniteSet(AllPoints)
  BY InfinityIs DEF Measured
<1>2. bufs[s][q] \in Buffers(AllPoints) /\ (HasK(bufs[s][q]) => IsFull(q, bufs[s][q]))
  BY BuffersAre
<1>3. bufs[s][q].elems \in SUBSET AllPoints /\ IsFiniteSet(bufs[s][q].elems)
  BY <1>1, <1>2, FS_Subset DEF Buffers
<1>4. FoundBy(q, s) = {bufs[s][q].elems}
  BY <1>1, <1>2, FirstKIs DEF FoundBy
<1>5. HasK(bufs[s][q]) => Cardinality(bufs[s][q].elems) = k
  BY <1>2 DEF IsFull, ptr
<1> QED
  BY <1>3, <1>4, <1>5

\* What all slices have found
Found(q) == UNION {bufs[s][q].elems : s \in Slots}

LEMMA AnswersAreFound ==
  ASSUME InputsInv, BuffersInv, NEW q \in Queries, NEW N \in Answer(q)
  PROVE  /\ Found(q) \in SUBSET AllPoints
         /\ N \in IF apart THEN NearestFound(q, Found(q)) ELSE {Found(q)}
         /\ N \in SUBSET AllPoints
<1>1. Found(q) \in SUBSET AllPoints
  BY FoundIs DEF Found
<1>2. CASE ~apart
  <2>1. Slots = {1} /\ 1 \in Slots
    BY <1>2 DEF Slots, Slot, InputsInv, Trees
  <2>2. Found(q) = bufs[1][q].elems /\ N = bufs[1][q].elems
    BY <1>2, <2>1, FoundIs DEF Answer, Found
  <2> QED
    BY <1>1, <1>2, <2>2
<1>3. CASE apart
  <2>1. PICK f \in OneOfEach([s \in Slots |-> FoundBy(q, s)]) :
          N \in NearestFound(q, UNION {f[s] : s \in Slots})
    BY <1>3 DEF Answer
  <2>2. \A s \in Slots : f[s] = bufs[s][q].elems
    BY <2>1, FoundIs DEF OneOfEach
  <2>3. {f[s] : s \in Slots} = {bufs[s][q].elems : s \in Slots}
    BY <2>2
  <2>4. N \in NearestFound(q, Found(q))
    BY <2>1, <2>3 DEF Found
  <2>5. N \in SUBSET Found(q)
    BY <2>4 DEF NearestFound, KNearest, kSubset
  <2> QED
    BY <1>1, <1>3, <2>4, <2>5
<1> QED
  BY <1>2, <1>3

\* When all trees have been searched, the answers are the nearest points.
LEMMA AnswersAre ==
  ASSUME InputsInv, CallsInv, BuffersInv, CoverInv, ~SharesDists,
         \A t \in Trees : status[t] = "done",
         NEW q \in Queries, owner = "KdTree" => HasK(bufs[1][q]),
         NEW N \in Answer(q)
  PROVE  N \in KNearest(q, AllPoints)
<1> DEFINE U == Found(q)
<1>1. Measured(q, AllPoints) /\ IsFiniteSet(AllPoints)
  BY InfinityIs DEF Measured
<1>2. \A p \in AllPoints : Settled(q, p)
  BY NoCalls DEF CoverInv, AllPoints
<1>3. U \in SUBSET AllPoints /\ N \in IF apart THEN NearestFound(q, U) ELSE {U}
  BY AnswersAreFound
<1>4. IsFiniteSet(U) /\ Cardinality(U) \in Nat
  BY <1>1, <1>3, FS_Subset, FS_CardinalityType
<1>5. \A p \in AllPoints : p \in U \/ Within(q, U, Cost(q, p))
  <2>1. ASSUME NEW p \in AllPoints  PROVE p \in U \/ Within(q, U, Cost(q, p))
    <3>1. PICK s \in Slots : \/ p \in bufs[s][q].elems
                            \/ Within(q, bufs[s][q].elems, Cost(q, p))
      BY <1>2 DEF Settled
    <3>2. bufs[s][q].elems \subseteq U
      BY DEF Found
    <3> QED
      BY <3>1, <3>2, WithinMore
  <2> QED
    BY <2>1
<1>6. CASE owner = "KdTree"
  <2>1. Slots = {1} /\ ~apart
    BY <1>6 DEF Slots, Slot, InputsInv, Trees
  <2>2. U = bufs[1][q].elems /\ Cardinality(U) = k
    <3>1. 1 \in Slots /\ Cardinality(bufs[1][q].elems) = k
      BY <1>6, <2>1, FoundIs
    <3>2. U = bufs[1][q].elems
      BY <2>1 DEF Found
    <3> QED
      BY <3>1, <3>2
  <2>3. U \in KNearest(q, U)
    BY <2>2 DEF KNearest, kSubset
  <2> QED
    BY <1>1, <1>3, <1>5, <2>1, <2>3, NearestIs
<1>7. CASE owner = "LogTree"
  <2>1. Cardinality(U) >= k
    <3>1. SUFFICES ASSUME ~(Cardinality(U) >= k)  PROVE FALSE
      OBVIOUS
    <3>2. \A v : ~Within(q, U, v)
      BY <1>4, <3>1, WithinSize
    <3>3. U = AllPoints
      BY <1>3, <1>5, <3>2
    <3> QED
      BY <1>7, <3>1, <3>3 DEF InputsInv
  <2>2. N \in KNearest(q, U)
    <3>1. CASE apart
      <4>1. ~(Cardinality(U) < k)
        BY <1>4, <2>1, kAssumption
      <4> QED
        BY <1>3, <3>1, <4>1 DEF NearestFound
    <3>2. CASE ~apart
      <4>1. N = U /\ Slots = {1}
        BY <1>3, <3>2 DEF Slots, Slot, InputsInv, Trees
      <4>2. U = bufs[1][q].elems
        BY <4>1 DEF Found
      <4>3. HasK(bufs[1][q]) /\ Cardinality(U) = k
        BY <2>1, <4>1, <4>2, FoundIs DEF HasK, ptr
      <4> QED
        BY <4>1, <4>3 DEF KNearest, kSubset
    <3> QED
      BY <3>1, <3>2
  <2> HIDE DEF U
  <2> QED
    BY <1>1, <1>3, <1>5, <2>2, NearestIs
<1> QED
  BY <1>6, <1>7 DEF InputsInv

LEMMA ReturnInv ==
  ASSUME IInv, Return
  PROVE  IInv'
<1>1. /\ InputsInv /\ StateInv /\ CallsInv /\ OrderInv /\ BuffersInv /\ CoverInv
  BY DEF IInv
<1>2. /\ UNCHANGED <<inputs, bufs, dist, calls>> /\ UNCHANGED inputs /\ bufs' = bufs
      /\ \A t \in Trees : status[t] = "done"
  BY DEF Return
<1>3. status = [t \in Trees |-> status[t]]
  BY <1>1 DEF StateInv
<1>4. /\ Trees' = Trees /\ Queries' = Queries /\ AllPoints' = AllPoints /\ Slots' = Slots
      /\ apart' = apart /\ has_buffer' = has_buffer /\ rtrees' = rtrees
      /\ SharesDists' = SharesDists
      /\ \A u : Slot(u)' = Slot(u)
  BY <1>2, InputsStay
<1>5. CASE owner = "KdTree" /\ \E q \in Queries : ~HasK(bufs[1][q])
  <2>1. status' = [status EXCEPT ![1] = "thrown"] /\ res' = res
    BY <1>5 DEF Return
  <2>2. ~has_buffer /\ Trees = {1}
    <3>1. ~has_buffer /\ Len(rtrees) = 1
      BY <1>1, <1>5 DEF InputsInv
    <3>2. 1..1 = {1}
      OBVIOUS
    <3> QED
      BY <3>1, <3>2 DEF Trees
  <2>3. status'[1] = "thrown"
    BY <1>3, <2>1, <2>2
  <2>4. /\ InputsInv' /\ CallsInv' /\ DistInv' /\ RadiusInv'
    BY <1>2, <2>2, <2>3, QuietInv
  <2>5. StateInv'
    <3>1. status' \in [Trees -> {"waiting", "called", "running", "done", "thrown"}]
      BY <1>1, <2>1 DEF StateInv
    <3> QED
      BY <1>1, <1>4, <2>1, <3>1 DEF StateInv, DualKnnExact, QueriesFindNearest
  <2>6. OrderInv' /\ CoverInv'
    BY <1>4, <2>2, <2>3 DEF OrderInv, CoverInv
  <2>7. BuffersInv'
    BY <1>1, <1>2, <1>4, <2>2 DEF BuffersInv
  <2> QED
    BY <2>4, <2>5, <2>6, <2>7 DEF IInv
<1>6. CASE ~(owner = "KdTree" /\ \E q \in Queries : ~HasK(bufs[1][q]))
  <2>1. res' \in OneOfEach([q \in Queries |-> Answer(q)]) /\ status' = status
    BY <1>6 DEF Return
  <2>2. /\ \A q \in Queries : res'[q] \in SUBSET AllPoints
        /\ ~SharesDists => \A q \in Queries : res'[q] \in KNearest(q, AllPoints)
    <3>1. \A q \in Queries : res'[q] \in Answer(q)
      BY <2>1 DEF OneOfEach
    <3>2. \A q \in Queries : res'[q] \in SUBSET AllPoints
      BY <1>1, <3>1, AnswersAreFound
    <3> QED
      BY <1>1, <1>2, <1>6, <3>1, <3>2, AnswersAre
  <2>3. /\ InputsInv' /\ CallsInv' /\ DistInv' /\ RadiusInv' /\ BuffersGrow
        /\ \A u, q, p : Pending(u, q, p) => Pending(u, q, p)'
    BY <1>2, <2>1, QuietInv
  <2>4. StateInv'
    <3>1. \A q \in Queries : res'[q] \in SUBSET Points
      BY <1>1, <2>2, InfinityIs
    <3>2. res' = [q \in Queries |-> res'[q]]
      BY <2>1 DEF OneOfEach
    <3>3. res' \in [Queries -> SUBSET Points]
      BY <3>1, <3>2
    <3> QED
      BY <1>1, <1>4, <2>1, <2>2, <3>3 DEF StateInv, DualKnnExact, QueriesFindNearest
  <2>5. OrderInv' /\ BuffersInv'
    BY <1>1, <1>2, <1>4, <2>1 DEF OrderInv, BuffersInv
  <2>6. CoverInv'
    BY <1>1, <1>2, <2>1, <2>3, CoverStays
  <2> QED
    BY <2>3, <2>4, <2>5, <2>6 DEF IInv
<1> QED
  BY <1>5, <1>6
-----------------------------------------------------------------------------
(* The theorems *)

LEMMA StepInv ==
  ASSUME IInv, NEW t \in Trees, NEW c \in DOMAIN calls[t], Step(t, c)
  PROVE  IInv'
<1>1. CASE Prune(t, c)
  BY <1>1, PruneInv
<1>2. CASE Recurse(t, c)
  BY <1>2, RecurseInv
<1>3. CASE Relax(t, c)
  BY <1>3, RelaxInv
<1>4. CASE UpdateLeaf(t, c)
  BY <1>4, UpdateLeafInv
<1>5. CASE Join(t, c)
  BY <1>5, JoinInv
<1>6. CASE SetDist(t, c)
  BY <1>6, SetDistInv
<1>7. ASSUME NEW i \in 1..2, Read(t, c, i)  PROVE IInv'
  BY <1>7, ReadInv
<1> QED
  BY <1>1, <1>2, <1>3, <1>4, <1>5, <1>6, <1>7 DEF Step

LEMMA NextInv == IInv /\ [Next]_vars => IInv'
<1> SUFFICES ASSUME IInv, [Next]_vars  PROVE IInv'
  OBVIOUS
<1>1. CASE UNCHANGED vars
  BY <1>1, StutterInv
<1>2. CASE Return
  BY <1>2, ReturnInv
<1>3. CASE Ended
  BY <1>1, <1>3 DEF Ended
<1>4. ASSUME NEW t \in Trees, StartTree(t) \/ SearchBufferTree(t) \/ EndTree(t)
      PROVE  IInv'
  BY <1>4, StartTreeInv, SearchBufferTreeInv, EndTreeInv
<1>5. ASSUME NEW t \in Trees, NEW c \in DOMAIN calls[t], Step(t, c)
      PROVE  IInv'
  BY <1>5, StepInv
<1> QED
  BY <1>1, <1>2, <1>3, <1>4, <1>5 DEF Next

(***************************************************************************)
(* At any moment of a dual-tree query: of the calls of a tree's search     *)
(* that have not returned, one waits for the other or they have different  *)
(* queries; every query has k candidates within the distances of its nodes *)
(* and within those about to be set; and every point is a candidate of a   *)
(* query, or farther than k of them, or a call is yet to look at the two.  *)
(* Of searches that share the distances, the second is so at the leaves    *)
(* only, and the third need not be.                                        *)
(***************************************************************************)
THEOREM InvHolds == Spec => []IInv
<1>1. IInv /\ [Next]_vars => IInv'
  BY NextInv
<1> QED
  BY <1>1, InitInv, PTL DEF Spec

LEMMA TypesAre == IInv => TypeOK
<1> SUFFICES ASSUME IInv  PROVE TypeOK
  OBVIOUS
<1>1. /\ InputsInv /\ StateInv /\ CallsInv /\ BuffersInv /\ DistInv /\ RadiusInv
  BY DEF IInv
<1>2. AllPoints \in SUBSET Points /\ Infinity \in Nat
  BY <1>1, InfinityIs
<1>3. bufs \in [Slots -> [Queries -> Buffers(Points)]]
  <2>1. \A b \in Buffers(AllPoints) : b \in Buffers(Points)
    BY <1>2 DEF Buffers
  <2>2. bufs \in [Slots -> [Queries -> Buffers(AllPoints)]]
    BY <1>1 DEF BuffersInv
  <2>3. \A s \in Slots : bufs[s] \in [Queries -> Buffers(Points)]
    BY <2>1, <2>2
  <2> QED
    BY <2>2, <2>3
<1>4. \A s \in Slots, q \in Queries : ptr(bufs[s][q]) < 2 * k
  <2>1. \A s \in Slots, q \in Queries : ptr(bufs[s][q]) \in Nat /\ ptr(bufs[s][q]) <= k
    BY <1>1, BuffersAre
  <2> QED
    BY <2>1, kAssumption
<1>5. \A t \in DOMAIN dist : dist[t] \in [QNodes -> 0..Infinity]
  BY <1>1 DEF DistInv
<1>6. ASSUME NEW t \in Trees, NEW c \in DOMAIN calls[t]
      PROVE  /\ c.op \in {"DualKnnHelper", "updateDualDist"}
             /\ c.q \in QNodes /\ c.r \in DOMAIN rtrees[t]
             /\ calls[t][c].at \in {"entered", "phase", "radius", "returned"}
             /\ calls[t][c].n \in Nat
             /\ calls[t][c].at = "radius" => calls[t][c].n <= Infinity
             /\ DOMAIN calls[t][c].seen \subseteq 1..2
             /\ \A i \in DOMAIN calls[t][c].seen : calls[t][c].seen[i] \in 0..Infinity
  <2>1. c \in CallsOf(t) /\ CallsAre(t)
    BY <1>1, NodesOfCall DEF CallsInv
  <2>2. calls[t][c].at = "radius" => calls[t][c].n \in 0..Infinity
    BY <1>1 DEF RadiusInv, MaySet
  <2> QED
    BY <1>2, <2>1, <2>2 DEF CallsOf, CallsAre, SeenAre
<1>7. /\ mode \in Modes /\ owner \in {"KdTree", "LogTree"}
      /\ apart \in BOOLEAN /\ has_buffer \in BOOLEAN
  BY <1>1 DEF InputsInv
<1> QED
  BY <1>1, <1>3, <1>4, <1>5, <1>6, <1>7 DEF TypeOK, StateInv

(***************************************************************************)
(* The variables keep their types: a call is for nodes of the two trees,   *)
(* what is set to a query node is a distance or that of no candidates, and *)
(* between calls of insert a buffer has room for one more candidate.       *)
(***************************************************************************)
THEOREM TypeCorrect == Spec => []TypeOK
BY InvHolds, TypesAre, PTL

(***************************************************************************)
(* Unless ATOMIC_LEAF searches trees in parallel, dualKnn returns k points *)
(* for each query, none of the others of all the trees being nearer:       *)
(* whatever was pruned, for stale distances too, in whatever order the     *)
(* tasks of the two recursions ran, and whether the trees of a LogTree had *)
(* one buffer, or, with DKNN_ARRAY, one each.                              *)
(***************************************************************************)
THEOREM AnswersAreExact == Spec => []DualKnnExact
<1>1. IInv => DualKnnExact
  BY DEF IInv, StateInv, DualKnnExact, QueriesFindNearest
<1> QED
  BY <1>1, InvHolds, PTL

LEMMA BoundsAre == IInv => DistIsBound
<1> SUFFICES ASSUME IInv, NEW s \in DOMAIN dist, NEW n \in QNodes, dist[s][n] < Infinity,
                    IsLeafNode(queryTree[n]) \/ ~SharesDists, NEW q \in queryTree[n].points
             PROVE  Cardinality({p \in Candidates(s, q) : Cost(q, p) <= dist[s][n]}) >= k
  BY DEF DistIsBound
<1>1. InputsInv /\ BuffersInv /\ DistInv
  BY DEF IInv
<1>2. PICK t \in Trees : s = DistSlot(t)
  BY <1>1 DEF DistInv
<1>3. q \in Queries /\ Infinity \in Nat /\ IsFiniteSet(AllPoints)
  BY <1>1, QueryNodesAre, InfinityIs DEF Measured
<1>4. dist[s][n] # Infinity /\ IsBound(t, q, dist[s][n])
  BY <1>1, <1>2, <1>3 DEF DistInv, Bounded
<1>5. PICK u \in Slots : /\ Within(q, bufs[u][q].elems, dist[s][n])
                         /\ mode = "ARRAY" => u = Slot(t)
  BY <1>4 DEF IsBound
<1>6. bufs[u][q].elems \subseteq Candidates(s, q)
  <2>1. CASE mode = "ARRAY"
    <3>1. s = t
      BY <1>2, <2>1 DEF DistSlot
    <3> QED
      BY <1>5, <2>1, <3>1 DEF Candidates
  <2>2. CASE mode # "ARRAY"
    BY <2>2 DEF Candidates
  <2> QED
    BY <2>1, <2>2
<1>7. IsFiniteSet(Candidates(s, q))
  <2>1. \A w \in Slots : bufs[w][q].elems \in SUBSET AllPoints
    BY <1>1, <1>3, BuffersAre DEF Buffers
  <2>2. Candidates(s, q) \in SUBSET AllPoints
    <3>1. CASE mode = "ARRAY"
      <4>1. s = t /\ Slot(t) \in Slots
        BY <1>2, <3>1, SlotIs DEF DistSlot
      <4> QED
        BY <2>1, <3>1, <4>1 DEF Candidates
    <3>2. CASE mode # "ARRAY"
      BY <2>1, <3>2 DEF Candidates
    <3> QED
      BY <3>1, <3>2
  <2> QED
    BY <1>3, <2>2, FS_Subset
<1>8. PICK K \in SUBSET bufs[u][q].elems :
        Cardinality(K) = k /\ \A p \in K : Cost(q, p) <= dist[s][n]
  BY <1>5 DEF Within
<1> DEFINE near == {p \in Candidates(s, q) : Cost(q, p) <= dist[s][n]}
<1>9. K \subseteq near /\ near \subseteq Candidates(s, q)
  BY <1>6, <1>8
<1> HIDE DEF near
<1>10. IsFiniteSet(near) /\ Cardinality(K) <= Cardinality(near)
       /\ Cardinality(K) \in Nat /\ Cardinality(near) \in Nat
  BY <1>7, <1>9, FS_Subset, FS_CardinalityType
<1>11. Cardinality(near) >= k
  BY <1>8, <1>10, kAssumption
<1> QED
  BY <1>11 DEF near

(***************************************************************************)
(* dualKnnDist of a query node is no less than the k-th distance of any    *)
(* query below it at any moment, although it is read and set by tasks of   *)
(* many calls, with values computed a while ago, and without locks: what   *)
(* is pruned by it is not needed.  Where searches share the distances, as  *)
(* ATOMIC_LEAF lets them, that holds of the leaves, and is proved of them. *)
(***************************************************************************)
THEOREM DistsAreBounds == Spec => []DistIsBound
BY InvHolds, BoundsAre, PTL

LEMMA WritersAre == IInv => OneWriter
<1> SUFFICES ASSUME IInv  PROVE OneWriter
  OBVIOUS
<1>1. InputsInv /\ CallsInv /\ OrderInv
  BY DEF IInv
<1>2. ASSUME NEW t \in Trees, NEW c \in DOMAIN calls[t], NEW d \in DOMAIN calls[t],
             Writes(t, c), Writes(t, d), c # d
      PROVE  ~IsPrefix(c.q, d.q)
  BY <1>1, <1>2, WritersParted DEF Parted
<1>3. ASSUME NEW t \in Trees, NEW u \in Trees, status[t] = "running", status[u] = "running",
             t # u
      PROVE  Slot(t) # Slot(u) /\ (mode = "NONATOMIC_LEAF" => DistSlot(t) # DistSlot(u))
  <2>1. apart
    BY <1>1, <1>3, OneRuns
  <2> QED
    BY <1>1, <1>3, <2>1 DEF Slot, InputsInv
<1> QED
  BY <1>2, <1>3 DEF OneWriter

(***************************************************************************)
(* No two tasks write to the buffers of one query, or to one distance that *)
(* is not atomic: those of a tree's search that may be about to do so have *)
(* query nodes neither of which is below the other, and no two searches    *)
(* that share buffers or such distances run at a time.                     *)
(***************************************************************************)
THEOREM WritesAreApart == Spec => []OneWriter
BY InvHolds, WritersAre, PTL

LEMMA DistFalls ==
  ASSUME IInv, [Next]_vars
  PROVE  \A s \in DOMAIN dist : \A n \in QNodes : dist'[s][n] <= dist[s][n]
<1>1. InputsInv /\ CallsInv /\ DistInv /\ RadiusInv
  BY DEF IInv
<1>2. /\ \A s \in DOMAIN dist : \E u \in Trees : s = DistSlot(u)
      /\ \A s \in DOMAIN dist, n \in QNodes : dist[s][n] \in 0..Infinity
      /\ Infinity \in Nat
  BY <1>1, InfinityIs DEF DistInv
<1>3. CASE dist' = dist
  BY <1>2, <1>3
<1>4. ASSUME NEW t \in Trees, NEW c \in DOMAIN calls[t], SetDist(t, c)
      PROVE  \A s \in DOMAIN dist : \A n \in QNodes : dist'[s][n] <= dist[s][n]
  <2>1. UNCHANGED inputs
    BY <1>4 DEF SetDist
  <2>2. \A u \in Trees, n \in QNodes : dist'[DistSlot(u)][n] <= dist[DistSlot(u)][n]
    BY <1>1, <1>4, <2>1, SetDistIs
  <2> QED
    BY <1>2, <2>2
<1>5. dist' = dist \/ \E t \in Trees : \E c \in DOMAIN calls[t] : SetDist(t, c)
  <2>1. ASSUME NEW t \in Trees, StartTree(t) \/ SearchBufferTree(t) \/ EndTree(t)
        PROVE  dist' = dist
    BY <2>1 DEF StartTree, SearchBufferTree, EndTree
  <2>2. ASSUME NEW t \in Trees, NEW c \in DOMAIN calls[t], Step(t, c), ~SetDist(t, c)
        PROVE  dist' = dist
    BY <2>2 DEF Step, Prune, Recurse, Relax, UpdateLeaf, Read, Join
  <2>3. Return \/ Ended \/ UNCHANGED vars => dist' = dist
    BY DEF Return, Ended, vars
  <2> QED
    BY <2>1, <2>2, <2>3, Zenon DEF Next
<1> QED
  BY <1>3, <1>4, <1>5

(***************************************************************************)
(* No dualKnnDist ever rises: not when it is set from what its children    *)
(* had a while ago, nor when the searches of several trees set the same.   *)
(***************************************************************************)
THEOREM DistsNeverRise == Spec => DistNeverRises
<1>1. IInv /\ [Next]_vars =>
        [\A t \in DOMAIN dist : \A n \in QNodes : dist'[t][n] <= dist[t][n]]_vars
  BY DistFalls
<1> QED
  BY <1>1, InvHolds, PTL DEF Spec, DistNeverRises

=============================================================================
