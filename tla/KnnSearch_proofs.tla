--------------------------- MODULE KnnSearch_proofs ---------------------------
(***************************************************************************)
(* The searches of a knn are exact, for any LogTrees, query points, k,     *)
(* dimension and size of leaves, and any order of the tasks.               *)
(*                                                                         *)
(* The argument: a point that has been seen and not kept has k points as   *)
(* near that have been (KeepsNearest), and so it stays when more points    *)
(* come and keepK drops the farthest.  The calls still to be made hold the *)
(* points not seen yet, each point in one call only.  A radius always has  *)
(* k kept points within it, and the box of a node all its points, so that  *)
(* what a prune leaves out has k kept points as near, too.                 *)
(***************************************************************************)
EXTENDS KnnSearch, KnnBuffer_proofs

-----------------------------------------------------------------------------
(* The trees *)

LEMMA PointsAre ==
  /\ IsFiniteSet(Points) /\ \A p \in Points : IsPoint(p)
  /\ \A lt \in LogTrees :
       /\ lt.buffer \in SUBSET Points
       /\ lt.static \in Seq(SUBSET Points)
BY LogTreesAssumption DEF Points, IsPoint

LEMMA TreeIs ==
  ASSUME NEW built \in SUBSET Points, built # {}, NEW present \in SUBSET Points,
         NEW tight \in BOOLEAN
  PROVE  /\ Tree(built, present, tight) \in TreeNodes(Points)
         /\ Tree(built, present, tight).points = built \cap present
<1>1. built \in (SUBSET Points) \ {{}}
  OBVIOUS
<1>2. IsFiniteSet(Points) /\ \A p \in Points : IsPoint(p)
  BY PointsAre
<1>3. Tree(built, present, tight) \in TreeNodes(Points)
  BY <1>1, <1>2, TreesAreNodes
<1>4. Tree(built, present, tight).points = built \cap present
  BY <1>1, <1>2, TreesAreNodes
<1> QED
  BY <1>3, <1>4

\* The lists with and without static tree i
StaticNext(lists, lt, i) ==
  lists \cup {Append(s, Tree(lt.static[i], P, tight)) :
                s \in lists, P \in MayRemain(lt.static[i]), tight \in BOOLEAN}

StaticStep(f, lt, i) == IF i = 0 THEN {<<>>} ELSE StaticNext(f[i - 1], lt, i)

StaticGraph(f, lt) == f = [i \in 0..Len(lt.static) |-> StaticStep(f, lt, i)]

LEMMA StaticGraphExists ==
  ASSUME NEW lt \in LogTrees
  PROVE  \E f : StaticGraph(f, lt)
<1> DEFINE N == {n \in Nat : \E f : \A i \in 0..n : f[i] = StaticStep(f, lt, i)}
<1>1. 0 \in N
  <2> DEFINE f == [i \in 0..0 |-> {<<>>}]
  <2>1. \A i \in 0..0 : f[i] = StaticStep(f, lt, i)
    BY DEF StaticStep
  <2> QED
    BY <2>1
<1>2. ASSUME NEW n \in Nat, n \in N  PROVE n + 1 \in N
  <2>1. PICK f : \A i \in 0..n : f[i] = StaticStep(f, lt, i)
    BY <1>2
  <2> DEFINE g == [i \in 0..(n + 1) |-> StaticStep(f, lt, i)]
  <2>2. \A i \in 0..n : g[i] = f[i]
    BY <2>1
  <2>3. ASSUME NEW i \in 0..(n + 1)  PROVE g[i] = StaticStep(g, lt, i)
    <3>1. CASE i = 0
      BY <3>1 DEF StaticStep
    <3>2. CASE i # 0
      <4>1. g[i] = StaticStep(f, lt, i)
        OBVIOUS
      <4> HIDE DEF g
      <4>2. g[i - 1] = f[i - 1]
        BY <2>2, <3>2
      <4> QED
        BY <3>2, <4>1, <4>2 DEF StaticStep
    <3> QED
      BY <3>1, <3>2
  <2> HIDE DEF g
  <2> QED
    BY <2>3
<1>3. Len(lt.static) \in Nat
  BY PointsAre
<1>4. Len(lt.static) \in N
  <2> HIDE DEF N
  <2> QED
    BY <1>1, <1>2, <1>3, NatSetInduction
<1>5. PICK f : \A i \in 0..Len(lt.static) : f[i] = StaticStep(f, lt, i)
  BY <1>4
<1> DEFINE g == [i \in 0..Len(lt.static) |-> f[i]]
<1>6. ASSUME NEW i \in 0..Len(lt.static)  PROVE g[i] = StaticStep(g, lt, i)
  <2>1. CASE i = 0
    BY <1>5, <2>1 DEF StaticStep
  <2>2. CASE i # 0
    <3>1. g[i - 1] = f[i - 1] /\ g[i] = f[i]
      BY <1>3, <2>2
    <3> HIDE DEF g
    <3> QED
      BY <1>5, <2>2, <3>1 DEF StaticStep
  <2> QED
    BY <2>1, <2>2
<1>7. g = [i \in 0..Len(lt.static) |-> StaticStep(g, lt, i)]
  BY <1>6
<1> QED
  BY <1>7 DEF StaticGraph

\* Trees that share no points, all of them from S
TreesFrom(s, S) ==
  /\ s \in Seq(TreeNodes(Points))
  /\ \A i \in 1..Len(s) : s[i].points \subseteq S
  /\ \A i, j \in 1..Len(s) : i # j => s[i].points \cap s[j].points = {}

LEMMA TreesAppended ==
  ASSUME NEW s, NEW S, TreesFrom(s, S), NEW n \in TreeNodes(Points), n.points \cap S = {},
         NEW T, n.points \subseteq T
  PROVE  TreesFrom(Append(s, n), S \cup T)
<1>1. /\ Append(s, n) \in Seq(TreeNodes(Points))
      /\ Len(s) \in Nat /\ Len(Append(s, n)) = Len(s) + 1
      /\ Append(s, n)[Len(s) + 1] = n
      /\ \A i \in 1..Len(s) : Append(s, n)[i] = s[i]
  BY DEF TreesFrom
<1> DEFINE a == Append(s, n)
<1>2. \A i \in 1..Len(a) : (i \in 1..Len(s) /\ a[i] = s[i]) \/ (i = Len(s) + 1 /\ a[i] = n)
  BY <1>1
<1> HIDE DEF a
<1>3. \A i \in 1..Len(a) : a[i].points \subseteq S \cup T
  BY <1>2 DEF TreesFrom
<1>4. \A i, j \in 1..Len(a) : i # j => a[i].points \cap a[j].points = {}
  BY <1>2 DEF TreesFrom
<1> QED
  BY <1>1, <1>3, <1>4 DEF TreesFrom, a

LEMMA StaticTreesAre ==
  ASSUME NEW lt \in LogTrees, NEW s \in StaticTrees(lt)
  PROVE  TreesFrom(s, UNION {lt.static[i] : i \in 1..Len(lt.static)})
<1> DEFINE f == CHOOSE f : StaticGraph(f, lt)
           Upto(i) == UNION {lt.static[j] : j \in 1..i}
           N == {i \in Nat : i <= Len(lt.static) => \A x \in f[i] : TreesFrom(x, Upto(i))}
<1>1. StaticGraph(f, lt)
  BY StaticGraphExists
<1>2. StaticTrees(lt) = f[Len(lt.static)]
  BY DEF StaticTrees, StaticGraph, StaticStep, StaticNext
<1> HIDE DEF f
<1>3. Len(lt.static) \in Nat /\ \A i \in 1..Len(lt.static) : lt.static[i] \in SUBSET Points
  BY PointsAre
<1>3a. \A i \in 0..Len(lt.static) : f[i] = StaticStep(f, lt, i)
  BY <1>1 DEF StaticGraph
<1>4. 0 \in N
  <2>1. f[0] = {<<>>}
    <3>1. 0 \in 0..Len(lt.static)
      BY <1>3
    <3> QED
      BY <3>1, <1>3a DEF StaticStep
  <2>2. TreesFrom(<<>>, Upto(0))
    BY DEF TreesFrom
  <2> QED
    BY <2>1, <2>2
<1>5. ASSUME NEW i \in Nat, i \in N  PROVE i + 1 \in N
  <2> SUFFICES ASSUME i + 1 <= Len(lt.static), NEW x \in f[i + 1]
               PROVE  TreesFrom(x, Upto(i + 1))
    OBVIOUS
  <2>1. \A y \in f[i] : TreesFrom(y, Upto(i))
    BY <1>3, <1>5
  <2>2. f[i + 1] = f[i] \cup {Append(y, Tree(lt.static[i + 1], P, tight)) :
                       y \in f[i], P \in MayRemain(lt.static[i + 1]), tight \in BOOLEAN}
    <3>1. f[i + 1] = StaticStep(f, lt, i + 1) /\ i + 1 # 0 /\ (i + 1) - 1 = i
      BY <1>3, <1>3a
    <3> QED
      BY <3>1 DEF StaticStep, StaticNext
  <2>3. Upto(i + 1) = Upto(i) \cup lt.static[i + 1]
    <3>1. \A j \in 1..(i + 1) : j \in 1..i \/ j = i + 1
      OBVIOUS
    <3>2. \A j \in 1..i : j \in 1..(i + 1)
      OBVIOUS
    <3> QED
      BY <3>1, <3>2
  <2>4. lt.static[i + 1] \cap Upto(i) = {}
    <3>1. i + 1 \in 1..Len(lt.static) /\ \A j \in 1..i : j \in 1..Len(lt.static) /\ j # i + 1
      BY <1>3
    <3> QED
      BY <3>1, LogTreesAssumption
  <2>5. CASE x \in f[i]
    <3>1. TreesFrom(x, Upto(i))
      BY <2>1, <2>5
    <3> QED
      BY <2>3, <3>1 DEF TreesFrom
  <2>6. CASE x \notin f[i]
    <3>1. PICK y \in f[i], P \in MayRemain(lt.static[i + 1]), tight \in BOOLEAN :
                 x = Append(y, Tree(lt.static[i + 1], P, tight))
      BY <2>2, <2>6
    <3> DEFINE n == Tree(lt.static[i + 1], P, tight)
    <3>2. /\ lt.static[i + 1] \in (SUBSET Points) \ {{}}
          /\ P \in SUBSET Points
      <4>1. lt.static[i + 1] \in SUBSET Points
        BY <1>3
      <4> QED
        BY <4>1 DEF MayRemain
    <3>3. n \in TreeNodes(Points) /\ n.points \subseteq lt.static[i + 1]
      <4> HIDE DEF n
      <4>1. n \in TreeNodes(Points) /\ n.points = lt.static[i + 1] \cap P
        BY <3>2, TreeIs DEF n
      <4> QED
        BY <4>1
    <3> HIDE DEF n, Upto
    <3>4. n.points \cap Upto(i) = {}
      BY <2>4, <3>3
    <3>5. TreesFrom(Append(y, n), Upto(i) \cup lt.static[i + 1])
      BY <2>1, <3>3, <3>4, TreesAppended
    <3> QED
      BY <2>3, <3>1, <3>5 DEF n
  <2> QED
    BY <2>5, <2>6
<1>6. Len(lt.static) \in N
  <2> HIDE DEF N
  <2> QED
    BY <1>3, <1>4, <1>5, NatSetInduction
<1> QED
  BY <1>2, <1>6

\* The trees listed share no points.
LEMMA GatheredAre ==
  ASSUME NEW lt \in LogTrees, NEW ts \in GatheredTrees(lt)
  PROVE  TreesFrom(ts, Points)
<1>1. PICK b \in BufferTrees(lt), s \in StaticTrees(lt) : ts = b \o s
  BY DEF GatheredTrees
<1> DEFINE St == UNION {lt.static[i] : i \in 1..Len(lt.static)}
<1>2. TreesFrom(s, St)
  BY StaticTreesAre
<1>3. \A i \in 1..Len(lt.static) : lt.static[i] \in SUBSET Points /\ lt.static[i] \cap lt.buffer = {}
  BY PointsAre, LogTreesAssumption
<1>4. St \subseteq Points /\ St \cap lt.buffer = {}
  BY <1>3
<1> HIDE DEF St
<1>5. CASE b = <<>>
  <2>1. ts = s
    BY <1>1, <1>2, <1>5 DEF TreesFrom
  <2> QED
    BY <1>2, <1>4, <2>1 DEF TreesFrom
<1>6. CASE b # <<>>
  <2>1. PICK P \in (SUBSET lt.buffer) \X (SUBSET lt.buffer), tight \in BOOLEAN :
               P[2] # {} /\ P[2] \subseteq P[1] /\ b = <<Tree(P[1], P[2], tight)>>
    BY <1>6 DEF BufferTrees
  <2> DEFINE n == Tree(P[1], P[2], tight)
  <2>2. n \in TreeNodes(Points) /\ n.points \subseteq lt.buffer
    <3>1. P[1] \in (SUBSET Points) \ {{}} /\ P[2] \in SUBSET Points /\ P[1] \in SUBSET lt.buffer
      BY <2>1, PointsAre
    <3> HIDE DEF n
    <3>2. P[1] \in SUBSET Points /\ P[1] # {} /\ P[2] \in SUBSET Points /\ tight \in BOOLEAN
      BY <2>1, <3>1
    <3>3. n \in TreeNodes(Points) /\ n.points = P[1] \cap P[2]
      BY <3>2, TreeIs, ZenonT(30) DEF n
    <3> QED
      BY <3>1, <3>3
  <2> HIDE DEF n
  <2>3. /\ ts \in Seq(TreeNodes(Points)) /\ Len(ts) = Len(s) + 1 /\ Len(s) \in Nat
        /\ ts[1] = n /\ \A i \in 2..Len(ts) : ts[i] = s[i - 1] /\ i - 1 \in 1..Len(s)
    <3>1. ts = <<n>> \o s /\ s \in Seq(TreeNodes(Points))
      BY <1>1, <1>2, <2>1 DEF TreesFrom, n
    <3> QED
      BY <2>2, <3>1
  <2>4. \A i \in 1..Len(ts) : i = 1 \/ i \in 2..Len(ts)
    BY <2>3
  <2>5. lt.buffer \subseteq Points
    BY PointsAre
  <2>6. \A i \in 1..Len(ts) : ts[i].points \subseteq Points
    BY <1>2, <1>4, <2>2, <2>3, <2>4, <2>5 DEF TreesFrom
  <2>7. \A i \in 2..Len(ts) : ts[i].points \cap ts[1].points = {}
    BY <1>2, <1>4, <2>2, <2>3 DEF TreesFrom
  <2>8. \A i, j \in 2..Len(ts) : i # j => ts[i].points \cap ts[j].points = {}
    <3>1. SUFFICES ASSUME NEW i \in 2..Len(ts), NEW j \in 2..Len(ts), i # j
                   PROVE  ts[i].points \cap ts[j].points = {}
      OBVIOUS
    <3>2. i - 1 # j - 1 /\ i - 1 \in 1..Len(s) /\ j - 1 \in 1..Len(s)
      BY <2>3, <3>1
    <3> QED
      BY <1>2, <2>3, <3>2 DEF TreesFrom
  <2> QED
    BY <2>3, <2>4, <2>6, <2>7, <2>8 DEF TreesFrom
<1> QED
  BY <1>5, <1>6

-----------------------------------------------------------------------------
(* What has been kept *)

\* K are of S, and every other point of S has k of K as near.
Nearest(q, K, S) == K \subseteq S /\ \A p \in S \ K : Within(q, K, Cost(q, p))

\* L is left of K.
Cuts(q, K, L) ==
  /\ L \subseteq K
  /\ \A c \in Int : Within(q, K, c) => Within(q, L, c)
  /\ \A p \in K \ L : Within(q, L, Cost(q, p))

LEMMA NearestCut ==
  ASSUME NEW q, NEW S, CostsAre(q, S), NEW K, NEW L, Nearest(q, K, S), Cuts(q, K, L)
  PROVE  Nearest(q, L, S)
<1> SUFFICES ASSUME NEW p \in S \ L
             PROVE  Within(q, L, Cost(q, p))
  BY DEF Nearest, Cuts
<1>1. CASE p \in K
  BY <1>1 DEF Cuts
<1>2. CASE p \notin K
  BY <1>2 DEF Nearest, Cuts, CostsAre
<1> QED
  BY <1>1, <1>2

\* Of more points, those dropped have k as near.
LEMMA NearestMore ==
  ASSUME NEW q, NEW S, NEW K, Nearest(q, K, S), NEW T, NEW P \in SUBSET T,
         \A p \in T \ P : Within(q, K, Cost(q, p))
  PROVE  Nearest(q, K \cup P, S \cup T)
<1> SUFFICES ASSUME NEW p \in (S \cup T) \ (K \cup P)
             PROVE  Within(q, K \cup P, Cost(q, p))
  BY DEF Nearest
<1>1. Within(q, K, Cost(q, p))
  BY DEF Nearest
<1> QED
  BY <1>1, WithinMore

LEMMA NearestBoth ==
  ASSUME NEW q, NEW S, NEW K, Nearest(q, K, S), NEW T, NEW L, Nearest(q, L, T)
  PROVE  Nearest(q, K \cup L, S \cup T)
<1> SUFFICES ASSUME NEW p \in (S \cup T) \ (K \cup L)
             PROVE  Within(q, K \cup L, Cost(q, p))
  BY DEF Nearest
<1>1. Within(q, K, Cost(q, p)) \/ Within(q, L, Cost(q, p))
  BY DEF Nearest
<1> QED
  BY <1>1, WithinMore

LEMMA CutsNot == \A q, K : Cuts(q, K, K)
BY DEF Cuts

\* keepK cuts, whatever is still to be added.
LEMMA KeepKCuts ==
  ASSUME NEW q, NEW E, NEW A, CostsAre(q, E \cup A), NEW N \in KNearest(q, E)
  PROVE  Cuts(q, E \cup A, N \cup A)
<1>1. N \subseteq E
  BY DEF KNearest, kSubset
<1>2. \A c \in Int : Within(q, E \cup A, c) => Within(q, N \cup A, c)
  BY WithinKept
<1>3. ASSUME NEW p \in (E \cup A) \ (N \cup A)
      PROVE  Within(q, N \cup A, Cost(q, p))
  <2>1. Within(q, N, Cost(q, p))
    BY WithinDropped
  <2> QED
    BY <2>1, WithinMore
<1> QED
  BY <1>1, <1>2, <1>3 DEF Cuts

\* The answer, when k are left
LEMMA NearestAnswers ==
  ASSUME IsFiniteSet(Points), NEW S \in SUBSET Points, NEW K, Nearest(query, K, S),
         Cardinality(K) = k
  PROVE  Answers(K, S)
<1>1. K \in SUBSET S /\ IsFiniteSet(K)
  BY FS_Subset DEF Nearest
<1>2. \A o \in S \ K : \A p \in K : Cost(query, p) <= Cost(query, o)
  <2>1. \A o \in S \ K : Within(query, K, Cost(query, o))
    BY DEF Nearest
  <2> QED
    BY <1>1, <2>1, WithinAll
<1> QED
  BY <1>1, <1>2 DEF Answers

-----------------------------------------------------------------------------
(* The calls to be made *)

KnnCalls == [call : {"knnHelper", "other_child", "knnPrune"}, node : TreeNodes(Points)]

PointsOf(s) == UNION {s[i].node.points : i \in 1..Len(s)}

Apart(s) ==
  \A i, j \in 1..Len(s) : i # j => s[i].node.points \cap s[j].node.points = {}

LEMMA Pushed ==
  ASSUME NEW s \in Seq(KnnCalls), Apart(s), NEW c \in KnnCalls, c.node.points \cap PointsOf(s) = {}
  PROVE  /\ <<c>> \o s \in Seq(KnnCalls) /\ Apart(<<c>> \o s)
         /\ PointsOf(<<c>> \o s) = c.node.points \cup PointsOf(s)
         /\ \A i \in 1..Len(<<c>> \o s) :
              (<<c>> \o s)[i] = c \/ \E j \in 1..Len(s) : (<<c>> \o s)[i] = s[j]
<1> DEFINE t == <<c>> \o s
<1>1. /\ t \in Seq(KnnCalls) /\ Len(s) \in Nat /\ Len(t) = Len(s) + 1
      /\ t[1] = c /\ \A i \in 1..Len(s) : t[i + 1] = s[i]
  OBVIOUS
<1> HIDE DEF t
<1>2. \A i \in 1..Len(t) : i = 1 \/ (i - 1 \in 1..Len(s) /\ t[i] = s[i - 1])
  <2> SUFFICES ASSUME NEW i \in 1..Len(t), i # 1
               PROVE  i - 1 \in 1..Len(s) /\ t[i] = s[i - 1]
    OBVIOUS
  <2>1. i - 1 \in 1..Len(s) /\ (i - 1) + 1 = i
    BY <1>1
  <2> QED
    BY <1>1, <2>1
<1>3. \A i \in 1..Len(s) : s[i].node.points \subseteq PointsOf(s)
  BY DEF PointsOf
<1>4. Apart(t)
  <2> SUFFICES ASSUME NEW i \in 1..Len(t), NEW j \in 1..Len(t), i # j
               PROVE  t[i].node.points \cap t[j].node.points = {}
    BY DEF Apart
  <2>1. CASE i = 1 \/ j = 1
    BY <1>1, <1>2, <1>3, <2>1
  <2>2. CASE i # 1 /\ j # 1
    <3>1. i - 1 \in 1..Len(s) /\ j - 1 \in 1..Len(s) /\ i - 1 # j - 1
      BY <1>1, <1>2, <2>2
    <3> QED
      BY <1>2, <2>2, <3>1 DEF Apart
  <2> QED
    BY <2>1, <2>2
<1>5. PointsOf(t) = c.node.points \cup PointsOf(s)
  <2>1. ASSUME NEW p \in PointsOf(t)  PROVE p \in c.node.points \cup PointsOf(s)
    <3>1. PICK i \in 1..Len(t) : p \in t[i].node.points
      BY DEF PointsOf
    <3> QED
      BY <1>1, <1>2, <1>3, <3>1
  <2>2. c.node.points \subseteq PointsOf(t)
    <3>1. 1 \in 1..Len(t)
      BY <1>1
    <3> QED
      BY <1>1, <3>1 DEF PointsOf
  <2>3. ASSUME NEW p \in PointsOf(s)  PROVE p \in PointsOf(t)
    <3>1. PICK i \in 1..Len(s) : p \in s[i].node.points
      BY DEF PointsOf
    <3>2. i + 1 \in 1..Len(t) /\ t[i + 1] = s[i]
      BY <1>1
    <3> QED
      BY <3>1, <3>2 DEF PointsOf
  <2> QED
    BY <2>1, <2>2, <2>3
<1> QED
  BY <1>1, <1>2, <1>4, <1>5 DEF t

LEMMA Popped ==
  ASSUME NEW s \in Seq(KnnCalls), Apart(s), s # <<>>
  PROVE  /\ Tail(s) \in Seq(KnnCalls) /\ Apart(Tail(s)) /\ Head(s) \in KnnCalls
         /\ Head(s).node.points \cap PointsOf(Tail(s)) = {}
         /\ PointsOf(s) = Head(s).node.points \cup PointsOf(Tail(s))
         /\ \A i \in 1..Len(Tail(s)) : \E j \in 1..Len(s) : Tail(s)[i] = s[j]
<1> DEFINE t == Tail(s)
<1>1. /\ t \in Seq(KnnCalls) /\ Len(s) \in Nat /\ Len(t) = Len(s) - 1 /\ Len(s) >= 1
      /\ Head(s) = s[1] /\ \A i \in 1..Len(t) : t[i] = s[i + 1]
  OBVIOUS
<1> HIDE DEF t
<1>2. \A i \in 1..Len(t) : i + 1 \in 2..Len(s) /\ t[i] = s[i + 1]
  BY <1>1
<1>3. Apart(t)
  <2> SUFFICES ASSUME NEW i \in 1..Len(t), NEW j \in 1..Len(t), i # j
               PROVE  t[i].node.points \cap t[j].node.points = {}
    BY DEF Apart
  <2>1. i + 1 \in 1..Len(s) /\ j + 1 \in 1..Len(s) /\ i + 1 # j + 1
    BY <1>1
  <2> QED
    BY <1>2, <2>1 DEF Apart
<1>4. \A i \in 1..Len(t) : Head(s).node.points \cap t[i].node.points = {}
  <2>1. \A i \in 1..Len(t) : i + 1 \in 1..Len(s) /\ 1 \in 1..Len(s) /\ i + 1 # 1
    BY <1>1
  <2> QED
    BY <1>1, <2>1 DEF Apart
<1>5. Head(s).node.points \cap PointsOf(t) = {}
  BY <1>4 DEF PointsOf
<1>6. ASSUME NEW p \in PointsOf(s)  PROVE p \in Head(s).node.points \cup PointsOf(t)
  <2>1. PICK i \in 1..Len(s) : p \in s[i].node.points
    BY DEF PointsOf
  <2>2. CASE i = 1
    BY <1>1, <2>1, <2>2
  <2>3. CASE i # 1
    <3>1. i - 1 \in 1..Len(t) /\ t[i - 1] = s[i]
      BY <1>1, <2>3
    <3> QED
      BY <2>1, <3>1 DEF PointsOf
  <2> QED
    BY <2>2, <2>3
<1>7. ASSUME NEW p \in Head(s).node.points \cup PointsOf(t)  PROVE p \in PointsOf(s)
  <2>1. CASE p \in Head(s).node.points
    <3>1. 1 \in 1..Len(s)
      BY <1>1
    <3> QED
      BY <1>1, <2>1, <3>1 DEF PointsOf
  <2>2. CASE p \in PointsOf(t)
    <3>1. PICK i \in 1..Len(t) : p \in t[i].node.points
      BY <2>2 DEF PointsOf
    <3>2. i + 1 \in 1..Len(s) /\ t[i] = s[i + 1]
      BY <1>1
    <3> QED
      BY <3>1, <3>2 DEF PointsOf
  <2> QED
    BY <2>1, <2>2
<1>8. \A i \in 1..Len(t) : i + 1 \in 1..Len(s) /\ t[i] = s[i + 1]
  BY <1>1
<1> QED
  BY <1>1, <1>3, <1>5, <1>6, <1>7, <1>8 DEF t

-----------------------------------------------------------------------------
(* The inductive invariant *)

\* The state keeps its type, and the trees listed are trees that share no points.
StateInv ==
  /\ TypeOK
  /\ trees # <<>> /\ TreesFrom(trees, Points)
  /\ stack \in [1..Last -> Seq(KnnCalls)]

\* A buffer has room between inserts, and is as keepK leaves it while cached.
BuffersInv ==
  \A t \in 1..Last : BufferInv(query, bufs[t]) /\ bufs[t].elems \cap adding[t] = {}

\* A search with buffer b, points A to add, radius r and calls s has kept the
\* nearest of the points it has seen, the others are in the calls, and the radius
\* has k of those kept within it.
SearchOf(t, b, A, r, s) ==
  /\ Nearest(query, b.elems \cup A, Scope(t) \ PointsOf(s))
  /\ Apart(s) /\ PointsOf(s) \subseteq trees[t].points
  /\ r = Infinity \/ Within(query, b.elems \cup A, r)
  /\ \A i \in 1..Len(s) :
       s[i].call = "knnPrune" =>
         HasK(b) /\ (update \/ Within(query, b.elems \cup A, r))

SearchInv(t) == SearchOf(t, bufs[t], adding[t], radius[t], stack[t])

\* A search that waits has not begun.
WaitInv(t) ==
  /\ bufs[t] = NewBuffer /\ adding[t] = {} /\ radius[t] = Infinity
  /\ stack[t] = <<Call("knnHelper", trees[t])>>

\* The trees whose results have been put into the buffer of the first
Merged(t) ==
  {j \in 2..Last : t = 1 /\ variant = "parallel" /\ status[j] = "merged"}

Combined(t) == Scope(t) \cup UNION {trees[j].points : j \in Merged(t)}

\* A search that is done has kept the nearest; while another's results are
\* added to the first buffer, these are just as many as it then can take.
DoneOf(t, b, A) ==
  /\ Nearest(query, b.elems \cup A, Combined(t))
  /\ A = {} => IsFull(query, b)
  /\ A # {} => /\ Merged(t) # {} /\ HasK(b)
               /\ ptr(b) + Cardinality(A) = 2 * k

DoneInv(t) == DoneOf(t, bufs[t], adding[t])

\* When tree t was the first to be searched with its buffer, it may have thrown.
ThrownInv(t) ==
  /\ Cardinality(trees[t].points) < k
  /\ variant = "parallel" \/ t = TreeAt(1)

TreeInv(t) ==
  /\ status[t] = "searching" => SearchInv(t)
  /\ status[t] = "waiting" => WaitInv(t)
  /\ status[t] = "done" => DoneInv(t)
  /\ status[t] = "thrown" => ThrownInv(t)
  /\ status[t] \in {"merged", "thrown"} => adding[t] = {}

\* Results are combined when all searches are done.
ParallelInv ==
  variant = "parallel" =>
    /\ \A t \in 1..Last : status[t] # "waiting"
    /\ (\E t \in 1..Last : status[t] = "merged") =>
         status[1] = "done" /\ \A t \in 1..Last : status[t] \in {"done", "merged"}

\* Otherwise the trees are searched one after the other.
SerialInv ==
  variant # "parallel" =>
    \A i \in 1..Last :
      /\ status[TreeAt(i)] # "waiting" =>
           \A j \in 1..(i - 1) : status[TreeAt(j)] = "merged"
      /\ status[TreeAt(i)] # "merged" =>
           \A j \in (i + 1)..Last : status[TreeAt(j)] = "waiting"
      /\ status[TreeAt(i)] = "done" => i = Last
      /\ status[TreeAt(i)] = "searching" /\ i > 1 => HasK(bufs[TreeAt(i)])

IInv ==
  /\ StateInv /\ BuffersInv
  /\ \A t \in 1..Last : TreeInv(t)
  /\ ParallelInv /\ SerialInv

-----------------------------------------------------------------------------
(* What follows at once *)

\* Every distance is less than Infinity.
LEMMA InfinityIs ==
  ASSUME Points # {}, NEW q \in Queries
  PROVE  Infinity \in Nat /\ \A p \in Points : Cost(q, p) \in 0..(Infinity - 1)
<1> DEFINE C == {Cost(x, p) : x \in Queries, p \in Points}
           f == [x \in Queries \X Points |-> Cost(x[1], x[2])]
<1>1. \A x \in Queries, p \in Points : Cost(x, p) \in Nat
  BY PointsAre, QueriesAssumption, CostBounds DEF IsPoint
<1>2. IsFiniteSet(Queries \X Points)
  BY QueriesAssumption, PointsAre, FS_Product
<1>3. IsFiniteSet({f[x] : x \in Queries \X Points})
  <2> HIDE DEF f
  <2> QED
    BY <1>2, ImageIsFinite
<1>4. {f[x] : x \in Queries \X Points} = C
  <2>1. \A x \in Queries \X Points : f[x] = Cost(x[1], x[2]) /\ x[1] \in Queries /\ x[2] \in Points
    OBVIOUS
  <2>2. \A x \in Queries, p \in Points : <<x, p>> \in Queries \X Points /\ f[<<x, p>>] = Cost(x, p)
    OBVIOUS
  <2> HIDE DEF f
  <2>3. {f[x] : x \in Queries \X Points} \subseteq C
    BY <2>1
  <2>4. C \subseteq {f[x] : x \in Queries \X Points}
    <3> SUFFICES ASSUME NEW c \in C
                 PROVE  \E y \in Queries \X Points : c = f[y]
      OBVIOUS
    <3>1. PICK x \in Queries, p \in Points : c = Cost(x, p)
      OBVIOUS
    <3>2. <<x, p>> \in Queries \X Points /\ c = f[<<x, p>>]
      BY <2>2, <3>1
    <3> HIDE DEF C
    <3> QED
      BY <3>2, Zenon
  <2> HIDE DEF C
  <2> QED
    BY <2>3, <2>4
<1>5. IsFiniteSet(C)
  <2> HIDE DEF f, C
  <2> QED
    BY <1>3, <1>4
<1>6. C \in SUBSET Nat /\ C # {} /\ \A p \in Points : Cost(q, p) \in C
  <2>1. C \in SUBSET Nat
    BY <1>1
  <2>2. \A p \in Points : Cost(q, p) \in C
    OBVIOUS
  <2> HIDE DEF C
  <2> QED
    BY <2>1, <2>2
<1>7. Infinity = 1 + Max(C)
  BY DEF Infinity
<1> HIDE DEF C
<1>8. C \in SUBSET Int
  BY <1>6
<1>9. Max(C) \in C /\ \A c \in C : Max(C) >= c
  BY <1>5, <1>6, <1>8, MaxIs
<1>10. Max(C) \in Nat
  BY <1>6, <1>9
<1>11. \A p \in Points : Cost(q, p) \in Nat /\ Max(C) >= Cost(q, p)
  BY <1>6, <1>9
<1>12. \A p \in Points : Cost(q, p) \in 0..((1 + Max(C)) - 1)
  BY <1>10, <1>11
<1> QED
  BY <1>7, <1>10, <1>12

LEMMA ScopeIs ==
  ASSUME trees \in Seq(TreeNodes(Points)), NEW t \in 1..Last
  PROVE  /\ Last \in Nat
         /\ TreeAt(t) \in 1..Last /\ TreeAt(TreeAt(t)) = t
         /\ Scope(t) = UNION {trees[TreeAt(i)].points :
                                i \in {j \in 1..Last : j = TreeAt(t)
                                        \/ (variant # "parallel" /\ j <= TreeAt(t))}}
<1>1. Last \in Nat
  BY DEF Last
<1>2. \A j \in 1..Last : TreeAt(j) \in 1..Last /\ TreeAt(TreeAt(j)) = j
  BY <1>1 DEF TreeAt
<1>3. \A j \in 1..Last : TreeAt(j) = t <=> j = TreeAt(t)
  BY <1>2
<1>4. \A j \in 1..Last : (\E l \in j..Last : TreeAt(l) = t) <=> j <= TreeAt(t)
  <2> SUFFICES ASSUME NEW j \in 1..Last
               PROVE  (\E l \in j..Last : TreeAt(l) = t) <=> j <= TreeAt(t)
    OBVIOUS
  <2>1. \A l \in j..Last : l \in 1..Last
    BY <1>1
  <2>2. ASSUME j <= TreeAt(t)  PROVE TreeAt(t) \in j..Last /\ TreeAt(TreeAt(t)) = t
    BY <1>1, <1>2, <2>2
  <2> QED
    BY <1>3, <2>1, <2>2
<1>5. {j \in 1..Last : TreeAt(j) = t \/ (variant # "parallel"
                                         /\ \E l \in j..Last : TreeAt(l) = t)}
        = {j \in 1..Last : j = TreeAt(t) \/ (variant # "parallel" /\ j <= TreeAt(t))}
  BY <1>3, <1>4
<1> QED
  BY <1>1, <1>2, <1>5 DEF Scope

\* What the state is made of
Basics ==
  /\ Last \in Nat /\ Last >= 1
  /\ IsFiniteSet(Points) /\ (\A p \in Points : IsPoint(p)) /\ IsPoint(query)
  /\ CostsAre(query, Points) /\ Infinity \in Nat
  /\ \A p \in Points : Cost(query, p) \in 0..(Infinity - 1)
  /\ \A t \in 1..Last :
       /\ TreeAt(t) \in 1..Last /\ TreeAt(TreeAt(t)) = t
       /\ bufs[t] \in Buffers(Points) /\ adding[t] \in SUBSET Points
       /\ radius[t] \in 0..Infinity
       /\ stack[t] \in Seq(KnnCalls)
       /\ trees[t] \in TreeNodes(Points) /\ trees[t].points \in SUBSET Points
       /\ Scope(t) \in SUBSET Points /\ trees[t].points \subseteq Scope(t)

LEMMA BasicsAre == ASSUME StateInv  PROVE Basics
<1>1. trees \in Seq(TreeNodes(Points)) /\ trees # <<>>
  BY DEF StateInv, TreesFrom
<1>2. Last \in Nat /\ Last >= 1 /\ \A t \in 1..Last : trees[t] \in TreeNodes(Points)
  BY <1>1 DEF Last
<1>3. Points # {}
  <2>1. PICK n \in TreeNodes(Points) : TRUE
    BY <1>2
  <2>2. PICK t \in (SUBSET Points) \X (SUBSET Points) \X BOOLEAN :
             n \in NodesOfTree(t[1], t[2], t[3])
    BY DEF TreeNodes
  <2>3. (SUBSET t[1]) \ {{}} # {} /\ t[1] \in SUBSET Points
    BY <2>2 DEF NodesOfTree
  <2> QED
    BY <2>3
<1>4. query \in Queries /\ IsPoint(query)
  BY QueriesAssumption DEF StateInv, TypeOK, IsPoint
<1>5. Infinity \in Nat /\ \A p \in Points : Cost(query, p) \in 0..(Infinity - 1)
  BY <1>3, <1>4, InfinityIs
<1>6. CostsAre(query, Points)
  BY <1>5 DEF CostsAre
<1>7. \A t \in 1..Last : trees[t].points \in SUBSET Points
  BY DEF StateInv, TreesFrom, Last
<1>8. \A t \in 1..Last : TreeAt(t) \in 1..Last /\ TreeAt(TreeAt(t)) = t
  BY <1>1, ScopeIs
<1>9. \A t \in 1..Last : Scope(t) \in SUBSET Points /\ trees[t].points \subseteq Scope(t)
  <2> SUFFICES ASSUME NEW t \in 1..Last
               PROVE  Scope(t) \in SUBSET Points /\ trees[t].points \subseteq Scope(t)
    OBVIOUS
  <2> DEFINE I == {j \in 1..Last : j = TreeAt(t) \/ (variant # "parallel" /\ j <= TreeAt(t))}
  <2>1. Scope(t) = UNION {trees[TreeAt(i)].points : i \in I}
    BY <1>1, ScopeIs
  <2>2. TreeAt(t) \in I /\ \A i \in I : TreeAt(i) \in 1..Last
    BY <1>8
  <2> HIDE DEF I
  <2>3. \A i \in I : trees[TreeAt(i)].points \in SUBSET Points
    BY <1>7, <2>2
  <2>4. trees[TreeAt(TreeAt(t))].points = trees[t].points
    BY <1>8
  <2> QED
    BY <2>1, <2>2, <2>3, <2>4
<1>10. \A t \in 1..Last : /\ bufs[t] \in Buffers(Points) /\ adding[t] \in SUBSET Points
                          /\ radius[t] \in 0..Infinity /\ stack[t] \in Seq(KnnCalls)
  BY DEF StateInv, TypeOK
<1> QED
  BY <1>2, <1>4, <1>5, <1>6, <1>7, <1>8, <1>9, <1>10, PointsAre DEF Basics

LEMMA InputsStand ==
  ASSUME UNCHANGED inputs
  PROVE  /\ Last' = Last /\ query' = query /\ trees' = trees /\ variant' = variant
         /\ update' = update /\ recurse_sibling' = recurse_sibling
         /\ \A t : TreeAt(t)' = TreeAt(t) /\ Scope(t)' = Scope(t)
BY DEF inputs, Last, TreeAt, Scope

\* Without a common buffer, or for the first tree, the scope is the tree.
LEMMA ScopeFirst ==
  ASSUME trees \in Seq(TreeNodes(Points)), NEW t \in 1..Last,
         variant = "parallel" \/ t = TreeAt(1)
  PROVE  Scope(t) = trees[t].points
<1> DEFINE I == {j \in 1..Last : j = TreeAt(t) \/ (variant # "parallel" /\ j <= TreeAt(t))}
<1>1. /\ Last \in Nat /\ TreeAt(t) \in 1..Last /\ TreeAt(TreeAt(t)) = t
      /\ Scope(t) = UNION {trees[TreeAt(i)].points : i \in I}
  BY ScopeIs
<1>2. variant = "parallel" \/ TreeAt(t) = 1
  <2>1. t = TreeAt(1) => TreeAt(t) = 1
    BY <1>1 DEF TreeAt
  <2> QED
    BY <2>1
<1>3. I = {TreeAt(t)}
  BY <1>1, <1>2
<1> HIDE DEF I
<1> QED
  BY <1>1, <1>3

\* With one, the scope of a tree is that of the one before, and the tree.
LEMMA ScopeNext ==
  ASSUME trees # <<>>, TreesFrom(trees, Points), NEW i \in 2..Last, variant # "parallel"
  PROVE  /\ TreeAt(i) \in 1..Last /\ TreeAt(i - 1) \in 1..Last /\ TreeAt(i) # TreeAt(i - 1)
         /\ Scope(TreeAt(i)) = Scope(TreeAt(i - 1)) \cup trees[TreeAt(i)].points
         /\ Scope(TreeAt(i - 1)) \cap trees[TreeAt(i)].points = {}
<1>1. trees \in Seq(TreeNodes(Points)) /\ Last \in Nat /\ i - 1 \in 1..Last /\ i \in 1..Last
  BY DEF TreesFrom, Last
<1>2. \A j \in 1..Last : TreeAt(j) \in 1..Last /\ TreeAt(TreeAt(j)) = j
  BY <1>1 DEF TreeAt
<1> DEFINE I(n) == {j \in 1..Last : j = n \/ (variant # "parallel" /\ j <= n)}
<1>3. \A n \in 1..Last : Scope(TreeAt(n)) = UNION {trees[TreeAt(j)].points : j \in I(n)}
  <2> SUFFICES ASSUME NEW n \in 1..Last
               PROVE  Scope(TreeAt(n)) = UNION {trees[TreeAt(j)].points : j \in I(n)}
    OBVIOUS
  <2>1. TreeAt(n) \in 1..Last /\ TreeAt(TreeAt(n)) = n
    BY <1>2
  <2> DEFINE u == TreeAt(n)
  <2> HIDE DEF u
  <2>2. u \in 1..Last /\ TreeAt(u) = n
    BY <2>1 DEF u
  <2>3. Scope(u) = UNION {trees[TreeAt(j)].points :
                            j \in {j \in 1..Last : j = TreeAt(u)
                                     \/ (variant # "parallel" /\ j <= TreeAt(u))}}
    BY <1>1, <2>2, ScopeIs
  <2> QED
    BY <2>2, <2>3 DEF u
<1>4. I(i) = I(i - 1) \cup {i} /\ i \notin I(i - 1)
  BY <1>1
<1>5. Scope(TreeAt(i)) = Scope(TreeAt(i - 1)) \cup trees[TreeAt(i)].points
  <2>1. /\ Scope(TreeAt(i)) = UNION {trees[TreeAt(j)].points : j \in I(i)}
        /\ Scope(TreeAt(i - 1)) = UNION {trees[TreeAt(j)].points : j \in I(i - 1)}
    BY <1>1, <1>3
  <2> HIDE DEF I
  <2> QED
    BY <1>4, <2>1
<1>6. \A j \in I(i - 1) : trees[TreeAt(j)].points \cap trees[TreeAt(i)].points = {}
  <2> SUFFICES ASSUME NEW j \in I(i - 1)
               PROVE  trees[TreeAt(j)].points \cap trees[TreeAt(i)].points = {}
    OBVIOUS
  <2>1. j \in 1..Last /\ j # i
    BY <1>4
  <2>2. TreeAt(j) \in 1..Last /\ TreeAt(i) \in 1..Last /\ TreeAt(j) # TreeAt(i)
    BY <1>1, <1>2, <2>1
  <2> QED
    BY <2>2 DEF TreesFrom, Last
<1>7. Scope(TreeAt(i - 1)) \cap trees[TreeAt(i)].points = {}
  <2>1. Scope(TreeAt(i - 1)) = UNION {trees[TreeAt(j)].points : j \in I(i - 1)}
    BY <1>1, <1>3
  <2> HIDE DEF I
  <2> QED
    BY <1>6, <2>1
<1>8. TreeAt(i) # TreeAt(i - 1)
  BY <1>1 DEF TreeAt
<1> QED
  BY <1>1, <1>2, <1>5, <1>7, <1>8

\* The points of a call on its own
LEMMA OneCall ==
  ASSUME NEW c \in KnnCalls
  PROVE  /\ <<c>> \in Seq(KnnCalls) /\ Apart(<<c>>) /\ PointsOf(<<c>>) = c.node.points
         /\ \A i \in 1..Len(<<c>>) : <<c>>[i] = c
<1>1. /\ <<c>> \in Seq(KnnCalls) /\ Len(<<c>>) = 1 /\ <<c>>[1] = c
  OBVIOUS
<1> DEFINE s == <<c>>
<1> HIDE DEF s
<1>2. s \in Seq(KnnCalls) /\ Len(s) = 1 /\ s[1] = c /\ \A i \in 1..Len(s) : i = 1
  BY <1>1 DEF s
<1> QED
  BY <1>2 DEF s, Apart, PointsOf

LEMMA TreesHavePoints ==
  ASSUME trees \in Seq(TreeNodes(Points)), trees # <<>>
  PROVE  Last \in Nat /\ Last >= 1 /\ Points # {}
<1>1. Last \in Nat /\ Last >= 1 /\ \A t \in 1..Last : trees[t] \in TreeNodes(Points)
  BY DEF Last
<1>2. PICK n \in TreeNodes(Points) : TRUE
  BY <1>1
<1>3. PICK t \in (SUBSET Points) \X (SUBSET Points) \X BOOLEAN :
           n \in NodesOfTree(t[1], t[2], t[3])
  BY DEF TreeNodes
<1>4. (SUBSET t[1]) \ {{}} # {} /\ t[1] \in SUBSET Points
  BY <1>3 DEF NodesOfTree
<1> QED
  BY <1>1, <1>4

LEMMA NewBufferIs ==
  /\ NewBuffer \in Buffers(Points) /\ ptr(NewBuffer) = 0 /\ NewBuffer.elems = {}
  /\ \A q : BufferInv(q, NewBuffer)
<1>1. Cardinality({}) = 0
  BY FS_EmptySet
<1> QED
  BY <1>1, kAssumption DEF NewBuffer, Buffers, ptr, BufferInv

LEMMA InitInv == ASSUME Init  PROVE IInv
<1>1. trees # <<>> /\ TreesFrom(trees, Points)
  <2>1. PICK lt \in LogTrees : trees \in GatheredTrees(lt) \ {<<>>}
    BY DEF Init
  <2> QED
    BY <2>1, GatheredAre
<1>2. trees \in Seq(TreeNodes(Points)) /\ \A t \in 1..Last : trees[t] \in TreeNodes(Points)
  BY <1>1 DEF TreesFrom, Last
<1>3. Last \in Nat /\ Last >= 1 /\ Points # {}
  BY <1>1, <1>2, TreesHavePoints
<1>4. Infinity \in Nat
  <2>1. query \in Queries
    BY DEF Init
  <2> QED
    BY <1>3, <2>1, InfinityIs
<1>5. \A t \in 1..Last :
        /\ bufs[t] = NewBuffer /\ radius[t] = Infinity /\ adding[t] = {}
        /\ stack[t] = <<Call("knnHelper", trees[t])>>
        /\ status[t] = IF variant = "parallel" \/ t = TreeAt(1) THEN "searching" ELSE "waiting"
  BY DEF Init
<1>6. \A t \in 1..Last : Call("knnHelper", trees[t]) \in KnnCalls
  BY <1>2 DEF Call, KnnCalls
<1>7. \A t \in 1..Last : stack[t] \in Seq(KnnCalls) /\ Apart(stack[t]) /\ PointsOf(stack[t]) = trees[t].points
  <2> SUFFICES ASSUME NEW t \in 1..Last
               PROVE  /\ stack[t] \in Seq(KnnCalls) /\ Apart(stack[t])
                      /\ PointsOf(stack[t]) = trees[t].points
    OBVIOUS
  <2> DEFINE c == Call("knnHelper", trees[t])
  <2>1. c.node = trees[t]
    BY DEF Call
  <2>2. c \in KnnCalls /\ stack[t] = <<c>>
    BY <1>5, <1>6
  <2> HIDE DEF c
  <2> QED
    BY <2>1, <2>2, OneCall
<1>7a. \A t \in 1..Last : \A i \in 1..Len(stack[t]) : stack[t][i].call = "knnHelper"
  <2>1. \A t \in 1..Last : Call("knnHelper", trees[t]).call = "knnHelper"
    BY DEF Call
  <2> QED
    BY <1>5, <1>6, <2>1, OneCall
<1>8. StateInv
  <2>1. bufs \in [1..Last -> Buffers(Points)] /\ \A t \in 1..Last : ptr(bufs[t]) < 2 * k
    BY <1>5, NewBufferIs, kAssumption DEF Init
  <2>2. /\ status \in [1..Last -> {"waiting", "searching", "done", "merged", "thrown"}]
        /\ adding \in [1..Last -> SUBSET Points]
    BY DEF Init
  <2>3. radius \in [1..Last -> 0..Infinity]
    BY <1>4 DEF Init
  <2>4. stack \in [1..Last -> Seq(KnnCalls)]
    BY <1>7 DEF Init
  <2>5. \A t \in 1..Last : \A i \in 1..Len(stack[t]) :
          stack[t][i].call \in {"knnHelper", "other_child", "knnPrune"}
    BY <1>7a
  <2> QED
    BY <1>1, <2>1, <2>2, <2>3, <2>4, <2>5 DEF StateInv, TypeOK, Init
<1>9. BuffersInv
  BY <1>5, NewBufferIs DEF BuffersInv
<1>10. ASSUME NEW t \in 1..Last  PROVE TreeInv(t)
  <2>1. CASE variant = "parallel" \/ t = TreeAt(1)
    <3>1. Scope(t) = trees[t].points
      BY <1>2, <2>1, ScopeFirst
    <3>2. Nearest(query, NewBuffer.elems \cup {}, Scope(t) \ PointsOf(stack[t]))
      BY <1>7, <3>1, NewBufferIs DEF Nearest
    <3>3. \A i \in 1..Len(stack[t]) : stack[t][i].call # "knnPrune"
      BY <1>7a
    <3>4. SearchInv(t)
      BY <1>5, <1>7, <3>2, <3>3 DEF SearchInv, SearchOf
    <3>5. status[t] = "searching"
      BY <1>5, <2>1
    <3> QED
      BY <3>4, <3>5 DEF TreeInv
  <2>2. CASE ~(variant = "parallel" \/ t = TreeAt(1))
    <3>1. status[t] = "waiting"
      BY <1>5, <2>2
    <3> QED
      BY <1>5, <3>1 DEF TreeInv, WaitInv
  <2> QED
    BY <2>1, <2>2
<1>11. ParallelInv
  BY <1>5 DEF ParallelInv
<1>12. SerialInv
  <2> SUFFICES ASSUME variant # "parallel", NEW i \in 1..Last
               PROVE  status[TreeAt(i)] = IF i = 1 THEN "searching" ELSE "waiting"
    <3>1. \A i \in 1..Last : /\ (i = 1 \/ i > 1) /\ 1..(1 - 1) = {}
                             /\ \A j \in (i + 1)..Last : j \in 1..Last /\ j # 1
      BY <1>3
    <3> QED
      BY <3>1 DEF SerialInv
  <2>1. TreeAt(i) \in 1..Last /\ (TreeAt(i) = TreeAt(1) <=> i = 1)
    BY <1>3 DEF TreeAt
  <2> QED
    BY <1>5, <2>1
<1> QED
  BY <1>8, <1>9, <1>10, <1>11, <1>12 DEF IInv

-----------------------------------------------------------------------------
(* A step of one tree's search *)

\* What is true of a tree stays true when nothing it speaks of changes.
LEMMA TreeStands ==
  ASSUME NEW u, TreeInv(u), UNCHANGED inputs,
         bufs'[u] = bufs[u], adding'[u] = adding[u], radius'[u] = radius[u],
         stack'[u] = stack[u], status'[u] = status[u], Merged(u)' = Merged(u)
  PROVE  TreeInv(u)'
<1>1. /\ query' = query /\ trees' = trees /\ variant' = variant /\ update' = update
      /\ Scope(u)' = Scope(u) /\ TreeAt(1)' = TreeAt(1)
  BY InputsStand
<1>2. Infinity' = Infinity
  BY DEF Infinity
<1>3. Combined(u)' = Combined(u)
  BY <1>1 DEF Combined
<1>4. SearchInv(u) => SearchInv(u)'
  BY <1>1, <1>2 DEF SearchInv, SearchOf, Nearest, Within, Apart, PointsOf, HasK, ptr
<1>5. WaitInv(u) => WaitInv(u)'
  BY <1>1, <1>2 DEF WaitInv, NewBuffer, Call
<1>6. DoneInv(u) => DoneInv(u)'
  BY <1>1, <1>3 DEF DoneInv, DoneOf, Nearest, Within, IsFull, HasK, ptr, Farthest
<1>7. ThrownInv(u) => ThrownInv(u)'
  BY <1>1 DEF ThrownInv
<1> QED
  BY <1>4, <1>5, <1>6, <1>7 DEF TreeInv

\* The search of t goes on with a buffer, points to add, a radius and calls.
GoesOn(t, b, A, r, s) ==
  /\ bufs' = [bufs EXCEPT ![t] = b] /\ adding' = [adding EXCEPT ![t] = A]
  /\ radius' = [radius EXCEPT ![t] = r] /\ stack' = [stack EXCEPT ![t] = s]
  /\ UNCHANGED <<inputs, status>>

LEMMA SearchStep ==
  ASSUME IInv, NEW t \in 1..Last, NEW b \in Buffers(Points), NEW A \in SUBSET Points,
         NEW r \in 0..Infinity, NEW s \in Seq(KnnCalls), GoesOn(t, b, A, r, s),
         status[t] \in {"searching", "done"},
         BufferInv(query, b), b.elems \cap A = {}, HasK(bufs[t]) => HasK(b),
         status[t] = "searching" => SearchOf(t, b, A, r, s),
         status[t] = "done" => DoneOf(t, b, A)
  PROVE  IInv'
<1>1. /\ Last' = Last /\ query' = query /\ trees' = trees /\ variant' = variant
      /\ update' = update /\ recurse_sibling' = recurse_sibling /\ status' = status
      /\ UNCHANGED inputs
      /\ \A u : TreeAt(u)' = TreeAt(u) /\ Scope(u)' = Scope(u)
  BY InputsStand DEF GoesOn
<1>2. Infinity' = Infinity /\ Points' = Points
  BY DEF Infinity
<1>3. /\ bufs \in [1..Last -> Buffers(Points)] /\ adding \in [1..Last -> SUBSET Points]
      /\ radius \in [1..Last -> 0..Infinity] /\ stack \in [1..Last -> Seq(KnnCalls)]
      /\ \A u \in 1..Last : ptr(bufs[u]) < 2 * k
  BY DEF IInv, StateInv, TypeOK
<1>4. /\ bufs'[t] = b /\ adding'[t] = A /\ radius'[t] = r /\ stack'[t] = s
      /\ \A u \in 1..Last : u # t =>
           bufs'[u] = bufs[u] /\ adding'[u] = adding[u] /\ radius'[u] = radius[u]
           /\ stack'[u] = stack[u]
  BY <1>3 DEF GoesOn
<1>5. /\ bufs' \in [1..Last -> Buffers(Points)] /\ adding' \in [1..Last -> SUBSET Points]
      /\ radius' \in [1..Last -> 0..Infinity] /\ stack' \in [1..Last -> Seq(KnnCalls)]
  BY <1>3 DEF GoesOn
<1>6. StateInv'
  <2>1. \A u \in 1..Last : ptr(bufs'[u]) < 2 * k
    BY <1>3, <1>4 DEF BufferInv
  <2>2. \A u \in 1..Last : \A i \in 1..Len(stack'[u]) :
          stack'[u][i].call \in {"knnHelper", "other_child", "knnPrune"}
    <3> SUFFICES ASSUME NEW u \in 1..Last, NEW i \in 1..Len(stack'[u])
                 PROVE  stack'[u][i].call \in {"knnHelper", "other_child", "knnPrune"}
      OBVIOUS
    <3>1. stack'[u] \in Seq(KnnCalls)
      BY <1>5
    <3>2. stack'[u][i] \in KnnCalls
      BY <3>1
    <3> QED
      BY <3>2 DEF KnnCalls
  <2>3. TypeOK'
    BY <1>1, <1>2, <1>5, <2>1, <2>2 DEF IInv, StateInv, TypeOK, ptr
  <2>4. (trees # <<>> /\ TreesFrom(trees, Points))'
    BY <1>1 DEF IInv, StateInv, TreesFrom
  <2> QED
    BY <1>1, <1>5, <2>3, <2>4 DEF StateInv
<1>7. BuffersInv'
  <2> SUFFICES ASSUME NEW u \in 1..Last
               PROVE  BufferInv(query, bufs'[u]) /\ bufs'[u].elems \cap adding'[u] = {}
    BY <1>1 DEF BuffersInv, BufferInv, IsFull, Farthest, ptr
  <2>1. CASE u = t
    BY <1>4, <2>1
  <2>2. CASE u # t
    BY <1>4, <2>2 DEF IInv, BuffersInv
  <2> QED
    BY <2>1, <2>2
<1>8. \A u : Merged(u)' = Merged(u)
  BY <1>1 DEF Merged
<1>9. ASSUME NEW u \in 1..Last  PROVE TreeInv(u)'
  <2>1. CASE u # t
    <3>1. TreeInv(u)
      BY DEF IInv
    <3> QED
      BY <1>1, <1>4, <1>8, <2>1, <3>1, TreeStands
  <2>2. CASE u = t
    <3>1. CASE status[t] = "searching"
      <4>1. SearchOf(t, b, A, r, s)
        BY <3>1
      <4>2. SearchInv(t)'
        BY <1>1, <1>2, <1>4, <4>1
          DEF SearchInv, SearchOf, Nearest, Within, Apart, PointsOf, HasK, ptr
      <4> QED
        BY <1>1, <2>2, <3>1, <4>2 DEF TreeInv
    <3>2. CASE status[t] = "done"
      <4>1. DoneOf(t, b, A) /\ Combined(t)' = Combined(t) /\ Merged(t)' = Merged(t)
        BY <1>1, <1>8, <3>2 DEF Combined
      <4>2. DoneInv(t)'
        BY <1>1, <1>4, <4>1
          DEF DoneInv, DoneOf, Nearest, Within, IsFull, HasK, ptr, Farthest
      <4> QED
        BY <1>1, <2>2, <3>2, <4>2 DEF TreeInv
    <3> QED
      BY <3>1, <3>2
  <2> QED
    BY <2>1, <2>2
<1>10. ParallelInv'
  BY <1>1 DEF IInv, ParallelInv
<1>11. SerialInv'
  <2>1. \A u \in 1..Last : HasK(bufs[u]) => HasK(bufs'[u])
    BY <1>4
  <2>2. \A i \in 1..Last : TreeAt(i) \in 1..Last
    BY BasicsAre DEF IInv, Basics
  <2>3. SerialInv
    BY DEF IInv
  <2> QED
    BY <1>1, <2>1, <2>2, <2>3 DEF SerialInv, HasK, ptr
<1> QED
  BY <1>1, <1>6, <1>7, <1>9, <1>10, <1>11 DEF IInv

\* A search stands when part of what it has kept is cut.
LEMMA SearchCut ==
  ASSUME StateInv, NEW t \in 1..Last, NEW b, NEW A, NEW r \in 0..Infinity, NEW s,
         SearchOf(t, b, A, r, s), NEW c, NEW D,
         Cuts(query, b.elems \cup A, c.elems \cup D), HasK(b) => HasK(c)
  PROVE  SearchOf(t, c, D, r, s)
<1>1. Basics
  BY BasicsAre
<1>2. CostsAre(query, Scope(t) \ PointsOf(s))
  BY <1>1 DEF Basics, CostsAre
<1>3. Nearest(query, c.elems \cup D, Scope(t) \ PointsOf(s))
  BY <1>2, NearestCut DEF SearchOf
<1>4. r \in Int
  BY <1>1 DEF Basics
<1>5. Within(query, b.elems \cup A, r) => Within(query, c.elems \cup D, r)
  BY <1>4 DEF Cuts
<1> QED
  BY <1>3, <1>5 DEF SearchOf

LEMMA AddInv == ASSUME IInv, NEW t \in 1..Last, Add(t)  PROVE IInv'
<1>1. Basics
  BY BasicsAre DEF IInv
<1>2. PICK p \in adding[t] :
        /\ \E b \in Insert(query, bufs[t], p) : bufs' = [bufs EXCEPT ![t] = b]
        /\ adding' = [adding EXCEPT ![t] = @ \ {p}]
  BY DEF Add
<1>3. PICK b \in Insert(query, bufs[t], p) : bufs' = [bufs EXCEPT ![t] = b]
  BY <1>2
<1> DEFINE E == bufs[t].elems  all == adding[t]  A == all \ {p}
           r == radius[t]  s == stack[t]
<1>4. TreeInv(t) /\ BufferInv(query, bufs[t]) /\ E \cap all = {}
  BY DEF IInv, BuffersInv
<1>5. status[t] \in {"searching", "done"}
  <2>1. status[t] \in {"waiting", "searching", "done", "merged", "thrown"}
    BY DEF IInv, StateInv, TypeOK
  <2> QED
    BY <1>4, <2>1 DEF TreeInv, WaitInv
<1>6. /\ IsFiniteSet(Points) /\ CostsAre(query, Points) /\ bufs[t] \in Buffers(Points)
      /\ all \in SUBSET Points /\ r \in 0..Infinity /\ s \in Seq(KnnCalls)
      /\ ptr(bufs[t]) < 2 * k
  BY <1>1, <1>4 DEF Basics, BufferInv
<1>7. E \in SUBSET Points /\ IsFiniteSet(E) /\ IsFiniteSet(all) /\ ptr(bufs[t]) \in Nat
  BY <1>6, FS_Subset, FS_CardinalityType DEF Buffers, ptr
<1>8. p \in Points /\ p \notin E
  BY <1>4, <1>6
<1>9. /\ b \in Buffers(Points)
      /\ \/ ptr(bufs[t]) + 1 < 2 * k /\ b.elems = E \cup {p} /\ ~b.cached
         \/ ptr(bufs[t]) + 1 = 2 * k /\ IsFull(query, b) /\ b.elems \in KNearest(query, E \cup {p})
  BY <1>6, <1>8, InsertIs
<1>10. Cardinality(all) \in Nat /\ Cardinality(A) = Cardinality(all) - 1 /\ IsFiniteSet(A)
  BY <1>7, FS_RemoveElement, FS_CardinalityType
<1>11. A = {} <=> Cardinality(all) = 1
  <2>1. A = {} <=> Cardinality(A) = 0
    BY <1>10, FS_EmptySet
  <2> QED
    BY <1>10, <2>1
<1>12. /\ BufferInv(query, b) /\ b.elems \cap A = {} /\ (HasK(bufs[t]) => HasK(b))
       /\ Cuts(query, E \cup all, b.elems \cup A)
       /\ ptr(bufs[t]) + Cardinality(all) = 2 * k =>
            /\ A = {} => IsFull(query, b)
            /\ A # {} => ptr(b) + Cardinality(A) = 2 * k
  <2>1. CASE ptr(bufs[t]) + 1 < 2 * k /\ b.elems = E \cup {p} /\ ~b.cached
    <3>1. ptr(b) = ptr(bufs[t]) + 1
      BY <1>7, <1>8, <2>1, FS_AddElement DEF ptr
    <3>2. BufferInv(query, b) /\ (HasK(bufs[t]) => HasK(b))
      BY <1>7, <2>1, <3>1, kAssumption DEF BufferInv, HasK
    <3>3. b.elems \cup A = E \cup all /\ b.elems \cap A = {}
      BY <1>4, <1>8, <2>1
    <3>4. Cuts(query, E \cup all, b.elems \cup A)
      BY <3>3, CutsNot
    <3> HIDE DEF A, all, E
    <3> QED
      BY <1>7, <1>10, <1>11, <2>1, <3>1, <3>2, <3>3, <3>4, kAssumption DEF HasK
  <2>2. CASE ptr(bufs[t]) + 1 = 2 * k /\ IsFull(query, b)
             /\ b.elems \in KNearest(query, E \cup {p})
    <3>1. ptr(b) = k /\ BufferInv(query, b) /\ HasK(b)
      BY <2>2, kAssumption DEF IsFull, BufferInv, HasK
    <3>2. b.elems \subseteq E \cup {p}
      BY <2>2 DEF KNearest, kSubset
    <3>3. b.elems \cap A = {}
      BY <1>4, <1>8, <3>2
    <3>4. (E \cup {p}) \cup A = E \cup all
      OBVIOUS
    <3>5. CostsAre(query, (E \cup {p}) \cup A)
      BY <1>6, <1>7, <1>8, <3>4 DEF CostsAre
    <3>6. Cuts(query, (E \cup {p}) \cup A, b.elems \cup A)
      <4> HIDE DEF A, E
      <4> QED
        BY <2>2, <3>5, KeepKCuts
    <3>7. Cuts(query, E \cup all, b.elems \cup A)
      BY <3>4, <3>6
    <3> HIDE DEF A, all, E
    <3> QED
      BY <1>7, <1>10, <1>11, <2>2, <3>1, <3>3, <3>7
  <2> QED
    BY <1>9, <2>1, <2>2
<1>13. GoesOn(t, b, A, r, s)
  <2>1. UNCHANGED <<inputs, stack, radius, status>>
    BY DEF Add
  <2>2. adding' = [adding EXCEPT ![t] = A]
    BY <1>2
  <2>3. stack \in [1..Last -> Seq(KnnCalls)] /\ radius \in [1..Last -> 0..Infinity]
    BY DEF IInv, StateInv, TypeOK
  <2>4. stack' = [stack EXCEPT ![t] = s] /\ radius' = [radius EXCEPT ![t] = r]
    BY <2>1, <2>3
  <2> QED
    BY <1>3, <2>1, <2>2, <2>4 DEF GoesOn
<1>14. ASSUME status[t] = "searching"  PROVE SearchOf(t, b, A, r, s)
  <2>1. SearchOf(t, bufs[t], all, r, s)
    BY <1>4, <1>14 DEF TreeInv, SearchInv
  <2>2. StateInv
    BY DEF IInv
  <2> HIDE DEF A, all, E, r, s
  <2> QED
    BY <1>6, <1>12, <2>1, <2>2, SearchCut DEF E
<1>15. ASSUME status[t] = "done"  PROVE DoneOf(t, b, A)
  <2>1. DoneOf(t, bufs[t], all)
    BY <1>4, <1>15 DEF TreeInv, DoneInv
  <2>2. CostsAre(query, Combined(t))
    <3>1. \A j \in Merged(t) : trees[j].points \subseteq Points
      BY <1>1 DEF Basics, Merged
    <3>2. Combined(t) \subseteq Points
      BY <1>1, <3>1 DEF Basics, Combined
    <3> QED
      BY <1>6, <3>2 DEF CostsAre
  <2>3. Nearest(query, b.elems \cup A, Combined(t))
    <3> HIDE DEF A, all
    <3> QED
      BY <1>12, <2>1, <2>2, NearestCut DEF DoneOf
  <2>4. Merged(t) # {} /\ HasK(bufs[t]) /\ ptr(bufs[t]) + Cardinality(all) = 2 * k
    BY <2>1 DEF DoneOf
  <2> HIDE DEF A, all
  <2> QED
    BY <1>12, <2>3, <2>4 DEF DoneOf
<1>16. A \in SUBSET Points
  BY <1>6
<1> HIDE DEF A, r, s
<1> QED
  BY <1>5, <1>6, <1>9, <1>12, <1>13, <1>14, <1>15, <1>16, SearchStep

-----------------------------------------------------------------------------
(* The calls of a search *)

\* A buffer and a radius a call may go on with
Moved(t, b, r) ==
  /\ b \in Buffers(Points) /\ BufferInv(query, b) /\ (HasK(bufs[t]) => HasK(b))
  /\ Cuts(query, bufs[t].elems, b.elems)
  /\ r \in 0..Infinity /\ (r = Infinity \/ Within(query, b.elems, r))

\* The prunes among the calls may be made with a buffer and a radius.
PrunesRight(b, r, s) ==
  \A i \in 1..Len(s) :
    s[i].call = "knnPrune" => HasK(b) /\ (update \/ Within(query, b.elems, r))

\* The points D of the calls are looked at, A of them to be added, and the calls s are left.
LooksAt(t, b, D, A, s) ==
  /\ s \in Seq(KnnCalls) /\ Apart(s)
  /\ PointsOf(stack[t]) = D \cup PointsOf(s) /\ D \cap PointsOf(s) = {}
  /\ A \in SUBSET D /\ \A p \in D \ A : Within(query, b.elems, Cost(query, p))

LEMMA Rearranged ==
  ASSUME StateInv, NEW t \in 1..Last, SearchOf(t, bufs[t], {}, radius[t], stack[t]),
         NEW b, NEW r, Moved(t, b, r), NEW s, PrunesRight(b, r, s),
         NEW D, NEW A, LooksAt(t, b, D, A, s)
  PROVE  SearchOf(t, b, A, r, s) /\ b.elems \cap A = {}
<1>0. /\ s \in Seq(KnnCalls) /\ Apart(s)
      /\ PointsOf(stack[t]) = D \cup PointsOf(s) /\ D \cap PointsOf(s) = {}
      /\ A \in SUBSET D /\ \A p \in D \ A : Within(query, b.elems, Cost(query, p))
  BY DEF LooksAt
<1>1. Basics
  BY BasicsAre
<1> DEFINE S == Scope(t) \ PointsOf(stack[t])
<1>2. Nearest(query, bufs[t].elems, S) /\ PointsOf(stack[t]) \subseteq trees[t].points
  <2>1. bufs[t].elems \cup {} = bufs[t].elems
    OBVIOUS
  <2> QED
    BY <2>1 DEF SearchOf
<1>3. CostsAre(query, S) /\ trees[t].points \subseteq Scope(t)
  BY <1>1 DEF Basics, CostsAre
<1>4. Nearest(query, b.elems, S)
  <2> HIDE DEF S
  <2> QED
    BY <1>2, <1>3, NearestCut DEF Moved
<1>5. b.elems \cap A = {}
  <2>1. b.elems \subseteq S
    BY <1>4 DEF Nearest
  <2> QED
    BY <1>0, <2>1
<1>6. Nearest(query, b.elems \cup A, S \cup D)
  <2> HIDE DEF S
  <2> QED
    BY <1>0, <1>4, NearestMore
<1>7. S \cup D = Scope(t) \ PointsOf(s)
  BY <1>0, <1>2, <1>3
<1>8. Nearest(query, b.elems \cup A, Scope(t) \ PointsOf(s))
  BY <1>6, <1>7
<1>9. Within(query, b.elems, r) => Within(query, b.elems \cup A, r)
  BY WithinMore
<1>10. PointsOf(s) \subseteq trees[t].points
  BY <1>0, <1>2
<1> QED
  BY <1>0, <1>5, <1>8, <1>9, <1>10 DEF SearchOf, Moved, PrunesRight

\* A call on a node, and the calls after it
LEMMA CallIs ==
  ASSUME IInv, NEW t \in 1..Last, NEW f, Calls(t, f), NEW node, node = Top(t).node,
         NEW rest, rest = Tail(stack[t])
  PROVE  /\ StateInv /\ Basics /\ status[t] = "searching" /\ adding[t] = {}
         /\ SearchOf(t, bufs[t], {}, radius[t], stack[t]) /\ Moved(t, bufs[t], radius[t])
         /\ IsFull(query, bufs[t]) \/ ~bufs[t].cached \/ ~HasK(bufs[t])
         /\ node \in TreeNodes(Points) /\ node.points \in SUBSET Points
         /\ BoxHolds(node.box, node.points) /\ Splits(node, Points)
         /\ rest \in Seq(KnnCalls) /\ Apart(rest)
         /\ node.points \cap PointsOf(rest) = {}
         /\ PointsOf(stack[t]) = node.points \cup PointsOf(rest)
         /\ PrunesRight(bufs[t], radius[t], rest)
         /\ f = "knnPrune" => HasK(bufs[t]) /\ (update \/ Within(query, bufs[t].elems, radius[t]))
<1>1. StateInv /\ Basics /\ BufferInv(query, bufs[t]) /\ TreeInv(t)
  BY BasicsAre DEF IInv, BuffersInv
<1>2. status[t] = "searching" /\ adding[t] = {} /\ stack[t] # <<>> /\ Head(stack[t]).call = f
  BY DEF Calls, Searching, Top
<1>3. SearchOf(t, bufs[t], {}, radius[t], stack[t])
  BY <1>1, <1>2 DEF TreeInv, SearchInv
<1>4. stack[t] \in Seq(KnnCalls) /\ Apart(stack[t]) /\ bufs[t] \in Buffers(Points)
  BY <1>1, <1>3 DEF Basics, SearchOf
<1>5. /\ rest \in Seq(KnnCalls) /\ Apart(rest) /\ Head(stack[t]) \in KnnCalls
      /\ node.points \cap PointsOf(rest) = {}
      /\ PointsOf(stack[t]) = node.points \cup PointsOf(rest)
      /\ \A i \in 1..Len(rest) : \E j \in 1..Len(stack[t]) : rest[i] = stack[t][j]
  <2>1. node = Head(stack[t]).node
    BY DEF Top
  <2>2. PICK s : s = stack[t]
    OBVIOUS
  <2>3. s \in Seq(KnnCalls) /\ Apart(s) /\ s # <<>>
    BY <1>2, <1>4, <2>2
  <2> QED
    BY <2>1, <2>2, <2>3, Popped
<1>6. node \in TreeNodes(Points)
  BY <1>5 DEF KnnCalls, Top
<1>7. IsFiniteSet(Points) /\ \A p \in Points : IsPoint(p)
  BY <1>1 DEF Basics
<1>8. node.points \in SUBSET Points /\ BoxHolds(node.box, node.points) /\ Splits(node, Points)
  BY <1>6, <1>7, NodesAreSound
<1>9. bufs[t].elems \cup {} = bufs[t].elems
  OBVIOUS
<1>10. PrunesRight(bufs[t], radius[t], stack[t])
  BY <1>3, <1>9 DEF SearchOf, PrunesRight
<1>11. PrunesRight(bufs[t], radius[t], rest)
  BY <1>5, <1>10 DEF PrunesRight
<1>12. Moved(t, bufs[t], radius[t])
  BY <1>1, <1>3, <1>9, CutsNot DEF Moved, SearchOf, Basics
<1>13. f = "knnPrune" => HasK(bufs[t]) /\ (update \/ Within(query, bufs[t].elems, radius[t]))
  <2>1. 1 \in 1..Len(stack[t]) /\ stack[t][1] = Head(stack[t])
    BY <1>2, <1>4
  <2> QED
    BY <1>2, <1>10, <2>1 DEF PrunesRight
<1>14. IsFull(query, bufs[t]) \/ ~bufs[t].cached \/ ~HasK(bufs[t])
  <2>1. bufs[t].elems = {} => ~HasK(bufs[t])
    BY FS_EmptySet, kAssumption DEF HasK, ptr
  <2> QED
    BY <1>1, <2>1 DEF BufferInv
<1> QED
  BY <1>1, <1>2, <1>3, <1>5, <1>6, <1>8, <1>11, <1>12, <1>13, <1>14

\* A call ends, with points of its node to be added.
LEMMA CallEnds ==
  ASSUME IInv, NEW t \in 1..Last, NEW f, Calls(t, f), NEW node, node = Top(t).node,
         NEW b, NEW r, Moved(t, b, r), PrunesRight(b, r, Tail(stack[t])),
         NEW A \in SUBSET node.points,
         \A p \in node.points \ A : Within(query, b.elems, Cost(query, p)),
         GoesOn(t, b, A, r, <<>> \o Tail(stack[t]))
  PROVE  IInv'
<1> DEFINE rest == Tail(stack[t])
<1>1. /\ StateInv /\ status[t] = "searching"
      /\ SearchOf(t, bufs[t], {}, radius[t], stack[t])
      /\ node.points \in SUBSET Points /\ rest \in Seq(KnnCalls) /\ Apart(rest)
      /\ node.points \cap PointsOf(rest) = {}
      /\ PointsOf(stack[t]) = node.points \cup PointsOf(rest)
  BY CallIs
<1>2. GoesOn(t, b, A, r, rest)
  <2>1. <<>> \o rest = rest
    BY <1>1
  <2> QED
    BY <2>1
<1> HIDE DEF rest
<1>3. SearchOf(t, b, A, r, rest) /\ b.elems \cap A = {}
  <2>1. PrunesRight(b, r, rest)
    BY DEF rest
  <2>2. LooksAt(t, b, node.points, A, rest)
    BY <1>1 DEF LooksAt
  <2> QED
    BY <1>1, <2>1, <2>2, Rearranged
<1>4. A \in SUBSET Points
  BY <1>1
<1> QED
  BY <1>1, <1>2, <1>3, <1>4, SearchStep DEF Moved

\* A call goes over to another on its node.
LEMMA CallAgain ==
  ASSUME IInv, NEW t \in 1..Last, NEW f, Calls(t, f), NEW node, node = Top(t).node,
         NEW b, NEW r, Moved(t, b, r), PrunesRight(b, r, Tail(stack[t])),
         NEW g \in {"knnHelper", "other_child", "knnPrune"},
         g = "knnPrune" => HasK(b) /\ (update \/ Within(query, b.elems, r)),
         GoesOn(t, b, {}, r, <<Call(g, node)>> \o Tail(stack[t]))
  PROVE  IInv'
<1> DEFINE rest == Tail(stack[t])  c == Call(g, node)  s == <<c>> \o rest
<1>1. /\ StateInv /\ status[t] = "searching"
      /\ SearchOf(t, bufs[t], {}, radius[t], stack[t])
      /\ node \in TreeNodes(Points) /\ rest \in Seq(KnnCalls) /\ Apart(rest)
      /\ node.points \cap PointsOf(rest) = {}
      /\ PointsOf(stack[t]) = node.points \cup PointsOf(rest)
  BY CallIs
<1>2. c \in KnnCalls /\ c.node = node /\ c.call = g
  BY <1>1 DEF Call, KnnCalls
<1> HIDE DEF c, rest
<1>3. /\ s \in Seq(KnnCalls) /\ Apart(s) /\ PointsOf(s) = node.points \cup PointsOf(rest)
      /\ \A i \in 1..Len(s) : s[i] = c \/ \E j \in 1..Len(rest) : s[i] = rest[j]
  BY <1>1, <1>2, Pushed
<1> HIDE DEF s
<1>4. PrunesRight(b, r, s)
  BY <1>2, <1>3 DEF PrunesRight, rest
<1>5. SearchOf(t, b, {}, r, s) /\ b.elems \cap {} = {}
  <2>1. PointsOf(stack[t]) = {} \cup PointsOf(s) /\ {} \cap PointsOf(s) = {}
    BY <1>1, <1>3
  <2>2. LooksAt(t, b, {}, {}, s)
    BY <1>3, <2>1 DEF LooksAt
  <2> QED
    BY <1>1, <1>4, <2>2, Rearranged
<1>6. GoesOn(t, b, {}, r, s)
  BY DEF s, c, rest
<1> QED
  BY <1>1, <1>3, <1>5, <1>6, SearchStep DEF Moved

\* A call makes two, on the children of its node.
LEMMA CallBoth ==
  ASSUME IInv, NEW t \in 1..Last, NEW f, Calls(t, f), NEW node, node = Top(t).node,
         NEW b, NEW r, Moved(t, b, r), PrunesRight(b, r, Tail(stack[t])),
         ~IsLeaf(node), NEW m, NEW n, {m, n} = {node.children[1], node.children[2]},
         NEW g \in {"knnHelper", "other_child", "knnPrune"},
         NEW h \in {"knnHelper", "other_child", "knnPrune"},
         "knnPrune" \in {g, h} => HasK(b) /\ (update \/ Within(query, b.elems, r)),
         GoesOn(t, b, {}, r, <<Call(g, m), Call(h, n)>> \o Tail(stack[t]))
  PROVE  IInv'
<1> DEFINE rest == Tail(stack[t])  c == Call(g, m)  d == Call(h, n)
           s1 == <<d>> \o rest  s == <<c>> \o s1
<1>1. /\ StateInv /\ status[t] = "searching"
      /\ SearchOf(t, bufs[t], {}, radius[t], stack[t])
      /\ Splits(node, Points) /\ rest \in Seq(KnnCalls) /\ Apart(rest)
      /\ node.points \cap PointsOf(rest) = {}
      /\ PointsOf(stack[t]) = node.points \cup PointsOf(rest)
  <2>1. rest = Tail(stack[t])
    OBVIOUS
  <2> HIDE DEF rest, c, d, s1, s
  <2> QED
    BY <2>1, CallIs
<1>2. /\ m \in TreeNodes(Points) /\ n \in TreeNodes(Points)
      /\ m.points \cup n.points = node.points /\ m.points \cap n.points = {}
  <2>1. /\ node.children \in Seq(TreeNodes(Points)) /\ Len(node.children) = 2
        /\ node.children[1].points \cup node.children[2].points = node.points
        /\ node.children[1].points \cap node.children[2].points = {}
    BY <1>1 DEF Splits, IsLeaf
  <2> DEFINE a == node.children[1]  e == node.children[2]
  <2>2. /\ a \in TreeNodes(Points) /\ e \in TreeNodes(Points)
        /\ a.points \cup e.points = node.points /\ a.points \cap e.points = {}
    BY <2>1
  <2> HIDE DEF a, e
  <2>3. (m = a /\ n = e) \/ (m = e /\ n = a)
    BY DEF a, e
  <2> QED
    BY <2>2, <2>3
<1>3. /\ c \in KnnCalls /\ c.node = m /\ c.call = g
      /\ d \in KnnCalls /\ d.node = n /\ d.call = h
  BY <1>2 DEF Call, KnnCalls
<1>4. s = <<c, d>> \o rest
  BY <1>1, <1>3
<1> HIDE DEF c, d, rest
<1>5. /\ s1 \in Seq(KnnCalls) /\ Apart(s1) /\ PointsOf(s1) = n.points \cup PointsOf(rest)
      /\ \A i \in 1..Len(s1) : s1[i] = d \/ \E j \in 1..Len(rest) : s1[i] = rest[j]
  <2>1. n.points \cap PointsOf(rest) = {}
    BY <1>1, <1>2
  <2> QED
    BY <1>1, <1>3, <2>1, Pushed
<1> HIDE DEF s1
<1>6. /\ s \in Seq(KnnCalls) /\ Apart(s) /\ PointsOf(s) = m.points \cup PointsOf(s1)
      /\ \A i \in 1..Len(s) : s[i] = c \/ \E j \in 1..Len(s1) : s[i] = s1[j]
  <2>1. m.points \cap PointsOf(s1) = {}
    BY <1>1, <1>2, <1>5
  <2> QED
    BY <1>3, <1>5, <2>1, Pushed
<1> HIDE DEF s
<1>7. PrunesRight(b, r, s)
  <2>1. PrunesRight(b, r, rest)
    BY DEF rest
  <2>2. PrunesRight(b, r, s1)
    <3>1. d.call = "knnPrune" => HasK(b) /\ (update \/ Within(query, b.elems, r))
      BY <1>3
    <3> QED
      BY <1>5, <2>1, <3>1 DEF PrunesRight
  <2>3. c.call = "knnPrune" => HasK(b) /\ (update \/ Within(query, b.elems, r))
    BY <1>3
  <2> QED
    BY <1>6, <2>2, <2>3 DEF PrunesRight
<1>8. SearchOf(t, b, {}, r, s) /\ b.elems \cap {} = {}
  <2>1. PointsOf(stack[t]) = {} \cup PointsOf(s) /\ {} \cap PointsOf(s) = {}
    BY <1>1, <1>2, <1>5, <1>6
  <2>2. LooksAt(t, b, {}, {}, s)
    BY <1>6, <2>1 DEF LooksAt
  <2> QED
    BY <1>1, <1>7, <2>2, Rearranged
<1>9. GoesOn(t, b, {}, r, s)
  BY <1>4 DEF c, d, rest
<1> QED
  BY <1>1, <1>6, <1>8, <1>9, SearchStep DEF Moved

\* What is left unchanged is also set to what it was.
LEMMA Unmoved ==
  ASSUME IInv, NEW t \in 1..Last
  PROVE  /\ bufs = [bufs EXCEPT ![t] = bufs[t]] /\ adding = [adding EXCEPT ![t] = adding[t]]
         /\ radius = [radius EXCEPT ![t] = radius[t]] /\ stack = [stack EXCEPT ![t] = stack[t]]
BY DEF IInv, StateInv, TypeOK

\* Of the points of a node, all are nearer than Infinity.
LEMMA AllWithin ==
  ASSUME Basics, NEW S \in SUBSET Points
  PROVE  {p \in S : Cost(query, p) <= Infinity} = S
BY DEF Basics

LEMMA KnnHelperInv == ASSUME IInv, NEW t \in 1..Last, KnnHelper(t)  PROVE IInv'
<1> DEFINE node == Top(t).node  b == bufs[t]  r == radius[t]
<1>1. Calls(t, "knnHelper") /\ UNCHANGED <<inputs, bufs, radius, status>>
  BY DEF KnnHelper
<1>2. /\ Basics /\ Moved(t, b, r) /\ PrunesRight(b, r, Tail(stack[t])) /\ adding[t] = {}
      /\ node.points \in SUBSET Points
  BY <1>1, CallIs
<1>3. CASE IsLeaf(node) /\ Replace(t, <<>>) /\ AddToBuffer(t, node, Infinity)
  <2>1. adding' = [adding EXCEPT ![t] = node.points]
    BY <1>2, <1>3, AllWithin DEF AddToBuffer
  <2>2. GoesOn(t, b, node.points, r, <<>> \o Tail(stack[t]))
    <3>1. stack' = [stack EXCEPT ![t] = <<>> \o Tail(stack[t])]
      BY <1>3 DEF Replace
    <3> QED
      BY <1>1, <2>1, <3>1, Unmoved DEF GoesOn
  <2> HIDE DEF b, r, node
  <2> QED
    BY <1>1, <1>2, <2>2, CallEnds DEF node
<1>4. CASE /\ ~IsLeaf(node)
           /\ Replace(t, <<Call("knnHelper", Near(node)), Call("other_child", Far(node))>>)
           /\ UNCHANGED adding
  <2>1. GoesOn(t, b, {}, r, <<Call("knnHelper", Near(node)), Call("other_child", Far(node))>>
                               \o Tail(stack[t]))
    <3>1. stack' = [stack EXCEPT ![t] = <<Call("knnHelper", Near(node)),
                                          Call("other_child", Far(node))>> \o Tail(stack[t])]
      BY <1>4 DEF Replace
    <3> QED
      BY <1>1, <1>2, <1>4, <3>1, Unmoved DEF GoesOn
  <2>2. {Near(node), Far(node)} = {node.children[1], node.children[2]}
    BY DEF Near, Far
  <2>3. ~IsLeaf(node) /\ Moved(t, b, r) /\ PrunesRight(b, r, Tail(stack[t]))
    BY <1>2, <1>4
  <2>4. PICK g, h, m, n : /\ g = "knnHelper" /\ m = Near(node)
                          /\ h = "other_child" /\ n = Far(node)
    OBVIOUS
  <2>5. /\ g \in {"knnHelper", "other_child", "knnPrune"} /\ "knnPrune" \notin {g, h}
        /\ h \in {"knnHelper", "other_child", "knnPrune"}
        /\ {m, n} = {node.children[1], node.children[2]}
        /\ GoesOn(t, b, {}, r, <<Call(g, m), Call(h, n)>> \o Tail(stack[t]))
    BY <2>1, <2>2, <2>4
  <2>6. Calls(t, "knnHelper") /\ node = Top(t).node
    BY <1>1
  <2> HIDE DEF b, r, node
  <2> QED
    BY <2>3, <2>5, <2>6, CallBoth
<1> QED
  BY <1>3, <1>4 DEF KnnHelper

\* keepK leaves k points, within the distance of the farthest.
LEMMA KeepKMoves ==
  ASSUME IInv, NEW t \in 1..Last, NEW f, Calls(t, f), HasK(bufs[t]),
         NEW b \in KeepK(query, bufs[t])
  PROVE  /\ b \in Buffers(Points) /\ BufferInv(query, b) /\ HasK(b)
         /\ Cuts(query, bufs[t].elems, b.elems)
         /\ Cost(query, b.kth) \in 0..(Infinity - 1) /\ Infinity \in Nat
         /\ Within(query, b.elems, Cost(query, b.kth))
<1> DEFINE node == Top(t).node
<1>1. /\ Basics /\ (IsFull(query, bufs[t]) \/ ~bufs[t].cached \/ ~HasK(bufs[t]))
      /\ Moved(t, bufs[t], radius[t])
  BY CallIs
<1>2. /\ bufs[t] \in Buffers(Points) /\ IsFiniteSet(Points) /\ CostsAre(query, Points)
      /\ bufs[t].elems \in SUBSET Points
  BY <1>1 DEF Basics, Moved, Buffers
<1>3. b \in Buffers(Points) /\ IsFull(query, b) /\ b.elems \in KNearest(query, bufs[t].elems)
  BY <1>1, <1>2, KeepKIs
<1>4. HasK(b) /\ BufferInv(query, b)
  BY <1>3, kAssumption DEF IsFull, HasK, BufferInv
<1>5. Cuts(query, bufs[t].elems, b.elems)
  <2>1. CostsAre(query, bufs[t].elems \cup {})
    BY <1>2 DEF CostsAre
  <2>2. Cuts(query, bufs[t].elems \cup {}, b.elems \cup {})
    BY <1>3, <2>1, KeepKCuts
  <2>3. bufs[t].elems \cup {} = bufs[t].elems /\ b.elems \cup {} = b.elems
    OBVIOUS
  <2> QED
    BY <2>2, <2>3
<1>6. b.kth \in b.elems /\ \A p \in b.elems : Cost(query, p) <= Cost(query, b.kth)
  BY <1>3 DEF IsFull, Farthest
<1>7. b.elems \in SUBSET Points /\ IsFiniteSet(b.elems) /\ Cardinality(b.elems) = k
  BY <1>2, <1>3, FS_Subset DEF Buffers, IsFull, ptr
<1>8. Within(query, b.elems, Cost(query, b.kth))
  BY <1>6, <1>7, SizeWithin
<1>9. Cost(query, b.kth) \in 0..(Infinity - 1) /\ Infinity \in Nat
  BY <1>1, <1>6, <1>7 DEF Basics
<1> QED
  BY <1>3, <1>4, <1>5, <1>8, <1>9

LEMMA OtherChildInv == ASSUME IInv, NEW t \in 1..Last, OtherChild(t)  PROVE IInv'
<1> DEFINE node == Top(t).node  rest == Tail(stack[t])
<1>1. Calls(t, "other_child") /\ UNCHANGED <<inputs, status>>
  BY DEF OtherChild
<1>2. /\ Basics /\ Moved(t, bufs[t], radius[t]) /\ PrunesRight(bufs[t], radius[t], rest)
      /\ adding[t] = {} /\ node.points \in SUBSET Points
  BY <1>1, CallIs
<1>3. CASE /\ ~HasK(bufs[t]) /\ recurse_sibling
           /\ Replace(t, <<Call("knnHelper", node)>>)
           /\ UNCHANGED <<adding, bufs, radius>>
  <2> DEFINE b == bufs[t]  r == radius[t]
  <2>1. GoesOn(t, b, {}, r, <<Call("knnHelper", node)>> \o Tail(stack[t]))
    <3>1. stack' = [stack EXCEPT ![t] = <<Call("knnHelper", node)>> \o Tail(stack[t])]
      BY <1>3 DEF Replace
    <3> QED
      BY <1>1, <1>2, <1>3, <3>1, Unmoved DEF GoesOn
  <2> HIDE DEF b, r, node
  <2> QED
    BY <1>1, <1>2, <2>1, CallAgain DEF node, b, r
<1>4. CASE /\ ~HasK(bufs[t]) /\ ~recurse_sibling
           /\ Replace(t, <<>>) /\ AddToBuffer(t, node, Infinity)
           /\ UNCHANGED <<bufs, radius>>
  <2> DEFINE b == bufs[t]  r == radius[t]
  <2>1. adding' = [adding EXCEPT ![t] = node.points]
    BY <1>2, <1>4, AllWithin DEF AddToBuffer
  <2>2. GoesOn(t, b, node.points, r, <<>> \o Tail(stack[t]))
    <3>1. stack' = [stack EXCEPT ![t] = <<>> \o Tail(stack[t])]
      BY <1>4 DEF Replace
    <3> QED
      BY <1>1, <1>4, <2>1, <3>1, Unmoved DEF GoesOn
  <2> HIDE DEF b, r, node
  <2> QED
    BY <1>1, <1>2, <2>2, CallEnds DEF node, b, r
<1>5. CASE /\ HasK(bufs[t])
           /\ \E b \in IF update THEN {bufs[t]} ELSE KeepK(query, bufs[t]) :
                /\ bufs' = [bufs EXCEPT ![t] = b]
                /\ radius' = [radius EXCEPT ![t] =
                                IF update THEN Infinity ELSE Cost(query, b.kth)]
           /\ Replace(t, <<Call("knnPrune", node)>>)
           /\ UNCHANGED adding
  <2>1. PICK b \in IF update THEN {bufs[t]} ELSE KeepK(query, bufs[t]) :
               /\ bufs' = [bufs EXCEPT ![t] = b]
               /\ radius' = [radius EXCEPT ![t] =
                               IF update THEN Infinity ELSE Cost(query, b.kth)]
    BY <1>5
  <2> DEFINE r == IF update THEN Infinity ELSE Cost(query, b.kth)
  <2>2. GoesOn(t, b, {}, r, <<Call("knnPrune", node)>> \o Tail(stack[t]))
    <3>1. stack' = [stack EXCEPT ![t] = <<Call("knnPrune", node)>> \o Tail(stack[t])]
      BY <1>5 DEF Replace
    <3> QED
      BY <1>1, <1>2, <1>5, <2>1, <3>1, Unmoved DEF GoesOn
  <2>3. Moved(t, b, r) /\ HasK(b) /\ (update \/ Within(query, b.elems, r))
    <3>1. CASE update
      <4>1. b = bufs[t] /\ r = Infinity /\ Infinity \in 0..Infinity
        BY <1>2, <2>1, <3>1 DEF Basics
      <4> HIDE DEF r
      <4> QED
        BY <1>2, <1>5, <3>1, <4>1 DEF Moved
    <3>2. CASE ~update
      <4>1. b \in KeepK(query, bufs[t]) /\ r = Cost(query, b.kth)
        BY <2>1, <3>2
      <4> HIDE DEF r
      <4>2. /\ b \in Buffers(Points) /\ BufferInv(query, b) /\ HasK(b)
            /\ Cuts(query, bufs[t].elems, b.elems)
            /\ r \in 0..(Infinity - 1) /\ Infinity \in Nat
            /\ Within(query, b.elems, r)
        BY <1>1, <1>5, <4>1, KeepKMoves
      <4>3. r \in 0..Infinity
        BY <4>2
      <4> QED
        BY <4>2, <4>3 DEF Moved
    <3> QED
      BY <3>1, <3>2
  <2>4. PrunesRight(b, r, Tail(stack[t]))
    BY <2>3 DEF PrunesRight
  <2> HIDE DEF r, node
  <2> QED
    BY <1>1, <2>2, <2>3, <2>4, CallAgain DEF node
<1> QED
  BY <1>3, <1>4, <1>5 DEF OtherChild

\* No point of a box that a radius excludes is within the radius.
LEMMA ExcludesFar ==
  ASSUME Basics, NEW r \in Int, NEW box, NEW S \in SUBSET Points, BoxHolds(box, S),
         Excludes(r, box), NEW p \in S
  PROVE  r < Cost(query, p)
<1>1. IsPoint(query) /\ IsPoint(p)
  BY DEF Basics
<1>2. PICK d \in Dims :
        \/ query[d] < box.min[d] /\ (box.min[d] - query[d]) * (box.min[d] - query[d]) > r
        \/ query[d] > box.max[d] /\ (query[d] - box.max[d]) * (query[d] - box.max[d]) > r
  BY DEF Excludes
<1> DEFINE q == query[d]  x == p[d]
<1>3. /\ q \in Int /\ x \in Int /\ box.min[d] \in Int /\ box.max[d] \in Int
      /\ box.min[d] <= x /\ x <= box.max[d]
  BY <1>1 DEF IsPoint, BoxHolds
<1>4. (q - x) * (q - x) <= Cost(query, p) /\ Cost(query, p) \in Nat
  BY <1>1, CostBounds
<1> HIDE DEF q, x
<1>5. CASE q < box.min[d] /\ (box.min[d] - q) * (box.min[d] - q) > r
  <2> DEFINE m == box.min[d] - q  n == x - q
  <2>1. m \in Nat /\ n \in Nat /\ m <= n /\ (q - x) * (q - x) = n * n
    BY <1>3, <1>5
  <2>2. m * m <= n * n /\ m * m \in Nat /\ n * n \in Nat
    <3> HIDE DEF m, n
    <3> QED
      BY <2>1, Squares
  <2>3. m * m > r
    BY <1>5
  <2> HIDE DEF m, n
  <2> QED
    BY <1>4, <2>1, <2>2, <2>3
<1>6. CASE q > box.max[d] /\ (q - box.max[d]) * (q - box.max[d]) > r
  <2> DEFINE m == q - box.max[d]  n == q - x
  <2>1. m \in Nat /\ n \in Nat /\ m <= n
    BY <1>3, <1>6
  <2>2. m * m <= n * n /\ m * m \in Nat /\ n * n \in Nat
    <3> HIDE DEF m, n
    <3> QED
      BY <2>1, Squares
  <2>3. m * m > r /\ n * n <= Cost(query, p)
    BY <1>4, <1>6
  <2> HIDE DEF m, n
  <2> QED
    BY <1>4, <2>2, <2>3
<1> QED
  BY <1>2, <1>5, <1>6 DEF q

LEMMA WithinFurther ==
  ASSUME Basics, NEW E \in SUBSET Points, NEW r \in Int, NEW c \in Int, r <= c,
         Within(query, E, r)
  PROVE  Within(query, E, c)
<1>1. \A p \in E : Cost(query, p) \in Int
  BY DEF Basics, CostsAre
<1>2. PICK K \in SUBSET E : Cardinality(K) = k /\ \A p \in K : Cost(query, p) <= r
  BY DEF Within
<1>3. \A p \in K : Cost(query, p) <= c
  BY <1>1, <1>2
<1> QED
  BY <1>2, <1>3 DEF Within

\* A prune goes on with a radius that has k of the points kept within it.
LEMMA PruneMoves ==
  ASSUME IInv, NEW t \in 1..Last, Calls(t, "knnPrune"),
         NEW b \in IF update THEN KeepK(query, bufs[t]) ELSE {bufs[t]}, NEW r,
         r = IF update THEN Min2(radius[t], Cost(query, b.kth)) ELSE radius[t]
  PROVE  Moved(t, b, r) /\ HasK(b) /\ Within(query, b.elems, r)
<1>1. /\ Basics /\ Moved(t, bufs[t], radius[t]) /\ HasK(bufs[t])
      /\ update \/ Within(query, bufs[t].elems, radius[t])
  BY CallIs
<1>2. CASE ~update
  BY <1>1, <1>2
<1>3. CASE update
  <2> DEFINE c == Cost(query, b.kth)
  <2>1. b \in KeepK(query, bufs[t])
    BY <1>3
  <2>2. /\ b \in Buffers(Points) /\ BufferInv(query, b) /\ HasK(b)
        /\ Cuts(query, bufs[t].elems, b.elems)
        /\ c \in 0..(Infinity - 1) /\ Infinity \in Nat /\ Within(query, b.elems, c)
    BY <1>1, <2>1, KeepKMoves
  <2>3. radius[t] \in 0..Infinity
    BY <1>1 DEF Basics
  <2> HIDE DEF c
  <2>4. (r = c /\ c <= radius[t]) \/ (r = radius[t] /\ radius[t] < c)
    BY <1>3, <2>2, <2>3 DEF Min2, c
  <2>5. r \in 0..Infinity
    BY <2>2, <2>3, <2>4
  <2>6. Within(query, b.elems, r)
    <3>1. CASE r = c
      BY <2>2, <3>1
    <3>2. CASE r = radius[t] /\ radius[t] < c
      <4>1. radius[t] # Infinity /\ radius[t] \in Int
        BY <2>2, <2>3, <3>2
      <4>2. Within(query, bufs[t].elems, radius[t])
        BY <1>1, <4>1 DEF Moved
      <4> QED
        BY <2>2, <3>2, <4>1, <4>2 DEF Cuts
    <3> QED
      BY <2>4, <3>1, <3>2
  <2> QED
    BY <2>2, <2>5, <2>6 DEF Moved
<1> QED
  BY <1>2, <1>3

LEMMA KnnPruneInv == ASSUME IInv, NEW t \in 1..Last, KnnPrune(t)  PROVE IInv'
<1> DEFINE node == Top(t).node
<1>1. Calls(t, "knnPrune") /\ UNCHANGED <<inputs, status>>
  BY DEF KnnPrune
<1>2. /\ Basics /\ adding[t] = {} /\ node.points \in SUBSET Points
      /\ BoxHolds(node.box, node.points) /\ Splits(node, Points)
  BY <1>1, CallIs
<1>3. PICK b \in IF update THEN KeepK(query, bufs[t]) ELSE {bufs[t]} :
        LET r == IF update THEN Min2(radius[t], Cost(query, b.kth)) ELSE radius[t] IN
        /\ bufs' = [bufs EXCEPT ![t] = b]
        /\ radius' = [radius EXCEPT ![t] = r]
        /\ \/ /\ Excludes(r, node.box)
              /\ Replace(t, <<>>) /\ UNCHANGED adding
           \/ /\ ~Excludes(r, node.box) /\ (Includes(r, node.box) \/ IsLeaf(node))
              /\ Replace(t, <<>>) /\ AddToBuffer(t, node, r)
           \/ /\ ~Excludes(r, node.box) /\ ~Includes(r, node.box) /\ ~IsLeaf(node)
              /\ Replace(t, [i \in 1..2 |-> Call("knnPrune", node.children[i])])
              /\ UNCHANGED adding
  BY DEF KnnPrune
<1> DEFINE r == IF update THEN Min2(radius[t], Cost(query, b.kth)) ELSE radius[t]
<1>4. Moved(t, b, r) /\ HasK(b) /\ Within(query, b.elems, r)
  BY <1>1, PruneMoves
<1>5. r \in Int /\ b.elems \in SUBSET Points
  BY <1>2, <1>4 DEF Moved, Buffers, Basics
<1>6. PrunesRight(b, r, Tail(stack[t]))
  BY <1>4 DEF PrunesRight
<1>7. bufs' = [bufs EXCEPT ![t] = b] /\ radius' = [radius EXCEPT ![t] = r]
  BY <1>3
<1>8. CASE Excludes(r, node.box) /\ Replace(t, <<>>) /\ UNCHANGED adding
  <2>1. GoesOn(t, b, {}, r, <<>> \o Tail(stack[t]))
    <3>1. stack' = [stack EXCEPT ![t] = <<>> \o Tail(stack[t])]
      BY <1>8 DEF Replace
    <3> QED
      BY <1>1, <1>2, <1>7, <1>8, <3>1, Unmoved DEF GoesOn
  <2> HIDE DEF r, node
  <2>2. \A p \in node.points \ {} : Within(query, b.elems, Cost(query, p))
    <3> SUFFICES ASSUME NEW p \in node.points
                 PROVE  Within(query, b.elems, Cost(query, p))
      OBVIOUS
    <3>1. r < Cost(query, p)
      BY <1>2, <1>5, <1>8, ExcludesFar
    <3>2. Cost(query, p) \in Int /\ r <= Cost(query, p)
      BY <1>2, <1>5, <3>1 DEF Basics, CostsAre
    <3> QED
      BY <1>2, <1>4, <1>5, <3>2, WithinFurther
  <2> QED
    BY <1>1, <1>4, <1>6, <2>1, <2>2, CallEnds DEF node
<1>9. CASE Replace(t, <<>>) /\ AddToBuffer(t, node, r)
  <2> DEFINE A == {p \in node.points : Cost(query, p) <= r}
  <2>1. GoesOn(t, b, A, r, <<>> \o Tail(stack[t]))
    <3>1. stack' = [stack EXCEPT ![t] = <<>> \o Tail(stack[t])]
      BY <1>9 DEF Replace
    <3>2. adding' = [adding EXCEPT ![t] = A]
      BY <1>9 DEF AddToBuffer
    <3> QED
      BY <1>1, <1>7, <3>1, <3>2 DEF GoesOn
  <2> HIDE DEF r, node
  <2>2. \A p \in node.points \ A : Within(query, b.elems, Cost(query, p))
    <3> SUFFICES ASSUME NEW p \in node.points, ~(Cost(query, p) <= r)
                 PROVE  Within(query, b.elems, Cost(query, p))
      OBVIOUS
    <3>1. Cost(query, p) \in Int /\ r <= Cost(query, p)
      BY <1>2, <1>5 DEF Basics, CostsAre
    <3> QED
      BY <1>2, <1>4, <1>5, <3>1, WithinFurther
  <2>3. A \in SUBSET node.points
    OBVIOUS
  <2> HIDE DEF A
  <2> QED
    BY <1>1, <1>4, <1>6, <2>1, <2>2, <2>3, CallEnds DEF node
<1>10. CASE /\ ~IsLeaf(node)
            /\ Replace(t, [i \in 1..2 |-> Call("knnPrune", node.children[i])])
            /\ UNCHANGED adding
  <2> DEFINE m == node.children[1]  n == node.children[2]
  <2>1. GoesOn(t, b, {}, r, <<Call("knnPrune", m), Call("knnPrune", n)>> \o Tail(stack[t]))
    <3>1. [i \in 1..2 |-> Call("knnPrune", node.children[i])]
            = <<Call("knnPrune", m), Call("knnPrune", n)>>
      OBVIOUS
    <3>2. stack' = [stack EXCEPT ![t] = <<Call("knnPrune", m), Call("knnPrune", n)>>
                                          \o Tail(stack[t])]
      BY <1>10, <3>1 DEF Replace
    <3> QED
      BY <1>1, <1>2, <1>7, <1>10, <3>2, Unmoved DEF GoesOn
  <2>2. {m, n} = {node.children[1], node.children[2]}
    OBVIOUS
  <2> HIDE DEF r, m, n, node
  <2> QED
    BY <1>1, <1>4, <1>6, <1>10, <2>1, <2>2, CallBoth DEF node
<1> QED
  BY <1>3, <1>8, <1>9, <1>10

-----------------------------------------------------------------------------
(* The end of a search, and what is made of it *)

LEMMA StateStep ==
  ASSUME IInv, UNCHANGED <<inputs, stack, radius>>,
         bufs' \in [1..Last -> Buffers(Points)], adding' \in [1..Last -> SUBSET Points],
         status' \in [1..Last -> {"waiting", "searching", "done", "merged", "thrown"}],
         \A u \in 1..Last : BufferInv(query, bufs'[u]) /\ bufs'[u].elems \cap adding'[u] = {}
  PROVE  StateInv' /\ BuffersInv'
<1>1. /\ Last' = Last /\ query' = query /\ trees' = trees /\ variant' = variant
      /\ update' = update /\ recurse_sibling' = recurse_sibling
      /\ stack' = stack /\ radius' = radius
  BY InputsStand
<1>2. Infinity' = Infinity /\ Points' = Points
  BY DEF Infinity
<1>3. \A u \in 1..Last : ptr(bufs'[u]) < 2 * k
  BY DEF BufferInv
<1>4. TypeOK'
  BY <1>1, <1>2, <1>3 DEF IInv, StateInv, TypeOK, ptr
<1>5. StateInv'
  BY <1>1, <1>4 DEF IInv, StateInv, TreesFrom
<1>6. BuffersInv'
  BY <1>1 DEF BuffersInv, BufferInv, IsFull, Farthest, ptr
<1> QED
  BY <1>5, <1>6

\* While a search goes on, no results have been combined.
LEMMA NothingMerged ==
  ASSUME IInv, NEW t \in 1..Last, status[t] = "searching", NEW u
  PROVE  Merged(u) = {} /\ Combined(u) = Scope(u)
<1>1. variant = "parallel" => \A j \in 1..Last : status[j] # "merged"
  BY DEF IInv, ParallelInv
<1>2. Merged(u) = {}
  <2>1. \A j \in 2..Last : j \in 1..Last
    BY BasicsAre DEF IInv, Basics
  <2> QED
    BY <1>1, <2>1 DEF Merged
<1> QED
  BY <1>2 DEF Combined

\* A search that ends
LEMMA FinishIs ==
  ASSUME IInv, NEW t \in 1..Last, Finish(t)
  PROVE  /\ StateInv /\ Basics /\ status[t] = "searching" /\ adding[t] = {}
         /\ UNCHANGED inputs /\ stack' = stack /\ radius' = radius /\ adding' = adding
         /\ Nearest(query, bufs[t].elems, Scope(t))
         /\ bufs[t].cached => IsFull(query, bufs[t]) \/ ~HasK(bufs[t])
         /\ bufs[t].elems \in SUBSET Points /\ IsFiniteSet(bufs[t].elems)
         /\ bufs \in [1..Last -> Buffers(Points)] /\ adding \in [1..Last -> SUBSET Points]
         /\ status \in [1..Last -> {"waiting", "searching", "done", "merged", "thrown"}]
<1>1. StateInv /\ Basics /\ TreeInv(t) /\ BufferInv(query, bufs[t])
  BY BasicsAre DEF IInv, BuffersInv
<1>2. /\ status[t] = "searching" /\ adding[t] = {} /\ stack[t] = <<>>
      /\ UNCHANGED inputs /\ stack' = stack /\ radius' = radius /\ adding' = adding
  BY DEF Finish, Searching
<1>3. Nearest(query, bufs[t].elems, Scope(t))
  <2>1. Nearest(query, bufs[t].elems \cup adding[t], Scope(t) \ PointsOf(stack[t]))
    BY <1>1, <1>2 DEF TreeInv, SearchInv, SearchOf
  <2>2. PointsOf(<<>>) = {}
    BY DEF PointsOf
  <2>3. bufs[t].elems \cup adding[t] = bufs[t].elems
        /\ Scope(t) \ PointsOf(stack[t]) = Scope(t)
    BY <1>2, <2>2
  <2> QED
    BY <2>1, <2>3
<1>4. bufs[t].elems = {} => ~HasK(bufs[t])
  BY FS_EmptySet, kAssumption DEF HasK, ptr
<1>5. bufs[t].elems \in SUBSET Points /\ IsFiniteSet(bufs[t].elems)
  BY <1>1, FS_Subset DEF Basics, Buffers
<1> QED
  BY <1>1, <1>2, <1>3, <1>4, <1>5 DEF BufferInv, StateInv, TypeOK

\* The places of the trees in the order of a serial search
LEMMA PlacesAre ==
  ASSUME Basics
  PROVE  /\ \A i, j \in 1..Last : TreeAt(i) = TreeAt(j) => i = j
         /\ \A u \in 1..Last : \E i \in 1..Last : u = TreeAt(i)
<1>1. ASSUME NEW i \in 1..Last, NEW j \in 1..Last, TreeAt(i) = TreeAt(j)
      PROVE  i = j
  BY <1>1 DEF Basics
<1>2. ASSUME NEW u \in 1..Last
      PROVE  TreeAt(u) \in 1..Last /\ u = TreeAt(TreeAt(u))
  BY <1>2 DEF Basics
<1> QED
  BY <1>1, <1>2

LEMMA ThrowInv ==
  ASSUME IInv, NEW t \in 1..Last, Finish(t), ~HasK(bufs[t]),
         status' = [status EXCEPT ![t] = "thrown"], bufs' = bufs
  PROVE  IInv'
<1>1. /\ StateInv /\ Basics /\ status[t] = "searching" /\ adding[t] = {}
      /\ UNCHANGED inputs /\ stack' = stack /\ radius' = radius /\ adding' = adding
      /\ Nearest(query, bufs[t].elems, Scope(t))
      /\ bufs[t].elems \in SUBSET Points /\ IsFiniteSet(bufs[t].elems)
      /\ bufs \in [1..Last -> Buffers(Points)] /\ adding \in [1..Last -> SUBSET Points]
      /\ status \in [1..Last -> {"waiting", "searching", "done", "merged", "thrown"}]
  BY FinishIs
<1>2. /\ Last' = Last /\ query' = query /\ trees' = trees /\ variant' = variant
      /\ \A u : TreeAt(u)' = TreeAt(u) /\ Scope(u)' = Scope(u)
  BY <1>1, InputsStand
<1>3. \A u \in 1..Last : status'[u] = IF u = t THEN "thrown" ELSE status[u]
  BY <1>1
<1>4. StateInv' /\ BuffersInv'
  <2>1. status' \in [1..Last -> {"waiting", "searching", "done", "merged", "thrown"}]
    BY <1>1
  <2>2. \A u \in 1..Last : BufferInv(query, bufs[u]) /\ bufs[u].elems \cap adding[u] = {}
    BY DEF IInv, BuffersInv
  <2> QED
    BY <1>1, <2>1, <2>2, StateStep
<1>5. ThrownInv(t)
  <2>1. Scope(t) \subseteq bufs[t].elems
    <3> SUFFICES ASSUME NEW p \in Scope(t) \ bufs[t].elems
                 PROVE  FALSE
      OBVIOUS
    <3>1. Within(query, bufs[t].elems, Cost(query, p))
      BY <1>1 DEF Nearest
    <3> QED
      BY <1>1, <3>1, WithinSize DEF HasK, ptr
  <2>2. trees[t].points \subseteq bufs[t].elems
    BY <1>1, <2>1 DEF Basics
  <2>3. Cardinality(trees[t].points) < k
    <3>1. /\ Cardinality(trees[t].points) <= Cardinality(bufs[t].elems)
          /\ IsFiniteSet(trees[t].points)
      BY <1>1, <2>2, FS_Subset
    <3> QED
      BY <1>1, <3>1, FS_CardinalityType, kAssumption DEF HasK, ptr
  <2>4. variant = "parallel" \/ t = TreeAt(1)
    <3> SUFFICES ASSUME variant # "parallel"
                 PROVE  t = TreeAt(1)
      OBVIOUS
    <3>1. PICK i \in 1..Last : t = TreeAt(i)
      BY <1>1, PlacesAre
    <3>2. ~(i > 1)
      BY <1>1, <3>1 DEF IInv, SerialInv
    <3>3. i = 1
      BY <3>2
    <3> QED
      BY <3>1, <3>3
  <2> QED
    BY <2>3, <2>4 DEF ThrownInv
<1>6. \A u : Merged(u)' = {} /\ Merged(u) = {}
  <2>1. \A u : Merged(u) = {}
    BY <1>1, NothingMerged
  <2>2. \A j \in 2..Last : j \in 1..Last /\ (status'[j] = "merged" => status[j] = "merged")
    BY <1>1, <1>3 DEF Basics
  <2> QED
    BY <1>2, <2>1, <2>2 DEF Merged
<1>7. ASSUME NEW u \in 1..Last  PROVE TreeInv(u)'
  <2>1. CASE u # t
    <3>1. TreeInv(u)
      BY DEF IInv
    <3> QED
      BY <1>1, <1>3, <1>6, <2>1, <3>1, TreeStands
  <2>2. CASE u = t
    BY <1>1, <1>2, <1>3, <1>5, <2>2 DEF TreeInv, ThrownInv
  <2> QED
    BY <2>1, <2>2
<1>8. ParallelInv'
  <2>1. ParallelInv
    BY DEF IInv
  <2>2. variant = "parallel" =>
          \A u \in 1..Last : status'[u] # "waiting" /\ status'[u] # "merged"
    BY <1>1, <1>3, <2>1 DEF ParallelInv
  <2> QED
    BY <1>2, <2>2 DEF ParallelInv
<1>9. SerialInv'
  <2>1. SerialInv /\ \A i \in 1..Last : TreeAt(i) \in 1..Last
    BY <1>1 DEF IInv, Basics
  <2>2. \A i \in 1..Last :
          /\ status'[TreeAt(i)] = "waiting" <=> status[TreeAt(i)] = "waiting"
          /\ status'[TreeAt(i)] = "merged" <=> status[TreeAt(i)] = "merged"
          /\ status'[TreeAt(i)] = "done" => status[TreeAt(i)] = "done"
          /\ status'[TreeAt(i)] = "searching" => status[TreeAt(i)] = "searching"
    BY <1>1, <1>3, <2>1
  <2>3. \A i \in 1..Last : /\ \A j \in 1..(i - 1) : j \in 1..Last
                           /\ \A j \in (i + 1)..Last : j \in 1..Last
    BY <1>1 DEF Basics
  <2> QED
    BY <1>2, <2>1, <2>2, <2>3 DEF SerialInv, HasK, ptr
<1> QED
  BY <1>2, <1>4, <1>7, <1>8, <1>9 DEF IInv

\* What keepK makes of the buffer of a search that ends
LEMMA FinishKeeps ==
  ASSUME IInv, NEW t \in 1..Last, Finish(t), HasK(bufs[t]), NEW b \in KeepK(query, bufs[t])
  PROVE  /\ b \in Buffers(Points) /\ IsFull(query, b) /\ BufferInv(query, b) /\ HasK(b)
         /\ Nearest(query, b.elems, Scope(t))
<1>1. /\ Basics /\ (bufs[t].cached => IsFull(query, bufs[t]) \/ ~HasK(bufs[t]))
      /\ Nearest(query, bufs[t].elems, Scope(t)) /\ bufs[t].elems \in SUBSET Points
  BY FinishIs
<1>2. /\ bufs[t] \in Buffers(Points) /\ IsFiniteSet(Points) /\ CostsAre(query, Points)
      /\ Scope(t) \in SUBSET Points
  BY <1>1 DEF Basics
<1>3. b \in Buffers(Points) /\ IsFull(query, b) /\ b.elems \in KNearest(query, bufs[t].elems)
  BY <1>1, <1>2, KeepKIs
<1>4. HasK(b) /\ BufferInv(query, b)
  BY <1>3, kAssumption DEF IsFull, HasK, BufferInv
<1>5. Cuts(query, bufs[t].elems, b.elems)
  <2>1. CostsAre(query, bufs[t].elems \cup {})
    BY <1>1, <1>2 DEF CostsAre
  <2>2. Cuts(query, bufs[t].elems \cup {}, b.elems \cup {})
    BY <1>3, <2>1, KeepKCuts
  <2>3. bufs[t].elems \cup {} = bufs[t].elems /\ b.elems \cup {} = b.elems
    OBVIOUS
  <2> QED
    BY <2>2, <2>3
<1>6. CostsAre(query, Scope(t))
  BY <1>2 DEF CostsAre
<1>7. Nearest(query, b.elems, Scope(t))
  BY <1>1, <1>5, <1>6, NearestCut
<1> QED
  BY <1>3, <1>4, <1>7

LEMMA LastInv ==
  ASSUME IInv, NEW t \in 1..Last, Finish(t), HasK(bufs[t]), NEW b \in KeepK(query, bufs[t]),
         variant = "parallel" \/ t = TreeAt(Last),
         bufs' = [bufs EXCEPT ![t] = b], status' = [status EXCEPT ![t] = "done"]
  PROVE  IInv'
<1>1. /\ StateInv /\ Basics /\ status[t] = "searching" /\ adding[t] = {}
      /\ UNCHANGED inputs /\ stack' = stack /\ radius' = radius /\ adding' = adding
      /\ bufs \in [1..Last -> Buffers(Points)] /\ adding \in [1..Last -> SUBSET Points]
      /\ status \in [1..Last -> {"waiting", "searching", "done", "merged", "thrown"}]
  BY FinishIs
<1>2. /\ b \in Buffers(Points) /\ IsFull(query, b) /\ BufferInv(query, b) /\ HasK(b)
      /\ Nearest(query, b.elems, Scope(t))
  BY FinishKeeps
<1>3. /\ Last' = Last /\ query' = query /\ trees' = trees /\ variant' = variant
      /\ \A u : TreeAt(u)' = TreeAt(u) /\ Scope(u)' = Scope(u)
  BY <1>1, InputsStand
<1>4. \A u \in 1..Last : /\ status'[u] = IF u = t THEN "done" ELSE status[u]
                         /\ bufs'[u] = IF u = t THEN b ELSE bufs[u]
  BY <1>1
<1>5. StateInv' /\ BuffersInv'
  <2>1. /\ status' \in [1..Last -> {"waiting", "searching", "done", "merged", "thrown"}]
        /\ bufs' \in [1..Last -> Buffers(Points)]
    BY <1>1, <1>2
  <2>2. \A u \in 1..Last : BufferInv(query, bufs'[u]) /\ bufs'[u].elems \cap adding[u] = {}
    BY <1>1, <1>2, <1>4 DEF IInv, BuffersInv
  <2> QED
    BY <1>1, <2>1, <2>2, StateStep
<1>6. \A u : Merged(u)' = {} /\ Merged(u) = {}
  <2>1. \A u : Merged(u) = {}
    BY <1>1, NothingMerged
  <2>2. \A j \in 2..Last : j \in 1..Last /\ (status'[j] = "merged" => status[j] = "merged")
    BY <1>1, <1>4 DEF Basics
  <2> QED
    BY <1>3, <2>1, <2>2 DEF Merged
<1>7. ASSUME NEW u \in 1..Last  PROVE TreeInv(u)'
  <2>1. CASE u # t
    <3>1. TreeInv(u)
      BY DEF IInv
    <3> QED
      BY <1>1, <1>4, <1>6, <2>1, <3>1, TreeStands
  <2>2. CASE u = t
    <3>1. Combined(t)' = Scope(t)
      BY <1>3, <1>6 DEF Combined
    <3>2. b.elems \cup {} = b.elems
      OBVIOUS
    <3>3. bufs'[t] = b /\ adding'[t] = {} /\ status'[t] = "done"
      BY <1>1, <1>4
    <3>4. DoneInv(t)'
      BY <1>2, <1>3, <3>1, <3>2, <3>3 DEF DoneInv, DoneOf, Nearest, Within, IsFull, Farthest, ptr
    <3> QED
      BY <2>2, <3>3, <3>4 DEF TreeInv
  <2> QED
    BY <2>1, <2>2
<1>8. ParallelInv'
  <2>1. ParallelInv
    BY DEF IInv
  <2>2. variant = "parallel" =>
          \A u \in 1..Last : status'[u] # "waiting" /\ status'[u] # "merged"
    BY <1>1, <1>4, <2>1 DEF ParallelInv
  <2> QED
    BY <1>3, <2>2 DEF ParallelInv
<1>9. SerialInv'
  <2> SUFFICES ASSUME variant # "parallel"
               PROVE  SerialInv'
    BY <1>3 DEF SerialInv
  <2>1. SerialInv /\ \A i \in 1..Last : TreeAt(i) \in 1..Last
    BY <1>1 DEF IInv, Basics
  <2>2. \A i \in 1..Last :
          /\ status'[TreeAt(i)] = "waiting" <=> status[TreeAt(i)] = "waiting"
          /\ status'[TreeAt(i)] = "merged" <=> status[TreeAt(i)] = "merged"
          /\ status'[TreeAt(i)] = "done" => status[TreeAt(i)] = "done" \/ i = Last
          /\ status'[TreeAt(i)] = "searching" =>
               status[TreeAt(i)] = "searching" /\ bufs'[TreeAt(i)] = bufs[TreeAt(i)]
    <3>1. \A i \in 1..Last : TreeAt(i) = t => i = Last
      BY <1>1, PlacesAre DEF Basics
    <3> QED
      BY <1>1, <1>4, <2>1, <3>1
  <2>3. \A i \in 1..Last : /\ \A j \in 1..(i - 1) : j \in 1..Last
                           /\ \A j \in (i + 1)..Last : j \in 1..Last
    BY <1>1 DEF Basics
  <2> QED
    BY <1>3, <2>1, <2>2, <2>3 DEF SerialInv, HasK, ptr
<1> QED
  BY <1>3, <1>5, <1>7, <1>8, <1>9 DEF IInv

\* The order of the trees when tree i is searched after tree i - 1
LEMMA OrderStands ==
  ASSUME NEW n \in Nat, NEW i \in 2..n, NEW os, NEW ns,
         \A j \in 1..(i - 2) : os[j] = "merged", \A j \in i..n : os[j] = "waiting",
         ns[i] = "searching", ns[i - 1] = "merged",
         \A j \in 1..n : j # i /\ j # i - 1 => ns[j] = os[j]
  PROVE  \A l \in 1..n :
           /\ ns[l] # "waiting" => \A j \in 1..(l - 1) : ns[j] = "merged"
           /\ ns[l] # "merged" => \A j \in (l + 1)..n : ns[j] = "waiting"
           /\ ns[l] # "done" /\ (ns[l] = "searching" => l = i)
<1>1. \A j \in 1..(i - 1) : ns[j] = "merged"
  <2>1. \A j \in 1..(i - 1) : j = i - 1 \/ (j \in 1..(i - 2) /\ j \in 1..n /\ j # i)
    OBVIOUS
  <2> QED
    BY <2>1
<1>2. \A j \in (i + 1)..n : ns[j] = "waiting"
  <2>1. \A j \in (i + 1)..n : j \in i..n /\ j \in 1..n /\ j # i /\ j # i - 1
    OBVIOUS
  <2> QED
    BY <2>1
<1>3. \A l \in 1..n : l \in 1..(i - 1) \/ l = i \/ l \in (i + 1)..n
  OBVIOUS
<1>4. ASSUME NEW l \in 1..(i - 1)
      PROVE  ns[l] = "merged" /\ \A j \in 1..(l - 1) : ns[j] = "merged"
  <2>1. \A j \in 1..(l - 1) : j \in 1..(i - 1)
    OBVIOUS
  <2> QED
    BY <1>1, <2>1
<1>5. ASSUME NEW l \in (i + 1)..n
      PROVE  ns[l] = "waiting" /\ \A j \in (l + 1)..n : ns[j] = "waiting"
  <2>1. \A j \in (l + 1)..n : j \in (i + 1)..n
    OBVIOUS
  <2> QED
    BY <1>2, <2>1
<1> QED
  BY <1>1, <1>2, <1>3, <1>4, <1>5

\* The search of u is set to a state.
LEMMA SearchSet ==
  ASSUME NEW u, NEW b, NEW A, NEW r, NEW s, UNCHANGED inputs, SearchOf(u, b, A, r, s),
         bufs'[u] = b, adding'[u] = A, radius'[u] = r, stack'[u] = s
  PROVE  SearchInv(u)'
<1>1. /\ query' = query /\ trees' = trees /\ update' = update /\ Scope(u)' = Scope(u)
  BY InputsStand
<1>2. Infinity' = Infinity
  BY DEF Infinity
<1> QED
  BY <1>1, <1>2 DEF SearchInv, SearchOf, Nearest, Within, Apart, PointsOf, HasK, ptr

\* The next tree is searched with what is left.
LEMMA NextTreeInv ==
  ASSUME IInv, NEW t \in 1..Last, Finish(t), HasK(bufs[t]), NEW b \in KeepK(query, bufs[t]),
         NEW i \in 2..Last, NEW p \in Preloaded(b), variant # "parallel", t = TreeAt(i - 1),
         bufs' = [bufs EXCEPT ![t] = b, ![TreeAt(i)] = p],
         status' = [status EXCEPT ![t] = "merged", ![TreeAt(i)] = "searching"]
  PROVE  IInv'
<1>1. /\ StateInv /\ Basics /\ status[t] = "searching" /\ adding[t] = {}
      /\ UNCHANGED inputs /\ stack' = stack /\ radius' = radius /\ adding' = adding
      /\ bufs \in [1..Last -> Buffers(Points)] /\ adding \in [1..Last -> SUBSET Points]
      /\ status \in [1..Last -> {"waiting", "searching", "done", "merged", "thrown"}]
  BY FinishIs
<1>2. /\ b \in Buffers(Points) /\ IsFull(query, b) /\ BufferInv(query, b) /\ HasK(b)
      /\ Nearest(query, b.elems, Scope(t))
  BY FinishKeeps
<1>3. /\ Last' = Last /\ query' = query /\ trees' = trees /\ variant' = variant
      /\ update' = update /\ \A v : TreeAt(v)' = TreeAt(v) /\ Scope(v)' = Scope(v)
  BY <1>1, InputsStand
<1>3a. PICK u : u = TreeAt(i)
  OBVIOUS
<1>4. /\ u \in 1..Last /\ u # t /\ i \in 1..Last /\ i - 1 \in 1..Last
      /\ Scope(u) = Scope(t) \cup trees[u].points /\ Scope(t) \cap trees[u].points = {}
  <2>1. trees # <<>> /\ TreesFrom(trees, Points)
    BY <1>1 DEF StateInv
  <2>2. i \in 1..Last /\ i - 1 \in 1..Last
    BY <1>1 DEF Basics
  <2> QED
    BY <1>3a, <2>1, <2>2, ScopeNext
<1>5. p = b
  <2>1. FirstK(b) = {b.elems}
    BY <1>1, <1>2, FirstKIs DEF Basics
  <2>2. p = [elems |-> b.elems, kth |-> b.kth, cached |-> TRUE]
    BY <2>1 DEF Preloaded
  <2>3. b = [elems |-> b.elems, kth |-> b.kth, cached |-> b.cached] /\ b.cached = TRUE
    BY <1>2 DEF Buffers, IsFull
  <2> QED
    BY <2>2, <2>3
<1>6. WaitInv(u)
  <2>1. status[TreeAt(i - 1)] # "merged" /\ i \in ((i - 1) + 1)..Last
    BY <1>1
  <2>2. status[u] = "waiting"
    BY <1>3a, <1>4, <2>1 DEF IInv, SerialInv
  <2> QED
    BY <1>4, <2>2 DEF IInv, TreeInv
<1>7. \A v \in 1..Last :
        /\ status'[v] = IF v = u THEN "searching" ELSE IF v = t THEN "merged" ELSE status[v]
        /\ bufs'[v] = IF v \in {t, u} THEN b ELSE bufs[v]
  BY <1>1, <1>3a, <1>4, <1>5
<1>8. StateInv' /\ BuffersInv'
  <2>1. /\ status' \in [1..Last -> {"waiting", "searching", "done", "merged", "thrown"}]
        /\ bufs' \in [1..Last -> Buffers(Points)]
    BY <1>1, <1>2, <1>3a, <1>4, <1>5
  <2>2. \A v \in 1..Last : BufferInv(query, bufs'[v]) /\ bufs'[v].elems \cap adding[v] = {}
    BY <1>1, <1>2, <1>6, <1>7 DEF IInv, BuffersInv, WaitInv
  <2> QED
    BY <1>1, <2>1, <2>2, StateStep
<1>9. \A v : Merged(v)' = {} /\ Merged(v) = {}
  BY <1>3 DEF Merged
<1>10. ASSUME NEW v \in 1..Last  PROVE TreeInv(v)'
  <2>1. CASE v \notin {t, u}
    <3>1. TreeInv(v)
      BY DEF IInv
    <3> QED
      BY <1>1, <1>7, <1>9, <2>1, <3>1, TreeStands
  <2>2. CASE v = t
    BY <1>1, <1>4, <1>7, <2>2 DEF TreeInv
  <2>3. CASE v = u
    <3>0. PICK A, r : A = {} /\ r = Infinity
      OBVIOUS
    <3>1. /\ bufs'[u] = b /\ adding'[u] = {} /\ radius'[u] = Infinity
          /\ stack'[u] = <<Call("knnHelper", trees[u])>>
      BY <1>1, <1>4, <1>6, <1>7 DEF WaitInv
    <3> DEFINE s == <<Call("knnHelper", trees[u])>>
    <3>2. /\ Apart(s) /\ PointsOf(s) = trees[u].points
          /\ \A l \in 1..Len(s) : s[l].call # "knnPrune"
      <4> DEFINE c == Call("knnHelper", trees[u])
      <4>1. c \in KnnCalls /\ c.node = trees[u] /\ c.call = "knnHelper"
        BY <1>1, <1>4 DEF Call, KnnCalls, Basics
      <4> HIDE DEF c
      <4>2. /\ Apart(<<c>>) /\ PointsOf(<<c>>) = c.node.points
            /\ \A l \in 1..Len(<<c>>) : <<c>>[l] = c
        BY <4>1, OneCall
      <4>3. s = <<c>>
        BY DEF c
      <4> QED
        BY <4>1, <4>2, <4>3
    <3>3. Nearest(query, b.elems \cup {}, Scope(u) \ PointsOf(s))
      <4>1. b.elems \cup {} = b.elems /\ Scope(u) \ PointsOf(s) = Scope(t)
        BY <1>4, <3>2
      <4> QED
        BY <1>2, <4>1
    <3>4. SearchOf(u, b, {}, Infinity, s)
      BY <3>2, <3>3 DEF SearchOf
    <3>5. stack'[u] = s /\ Infinity' = Infinity
      BY <3>1 DEF Infinity
    <3> HIDE DEF s
    <3>6. SearchInv(u)'
      <4>1. PICK c : c = s
        OBVIOUS
      <4>2. /\ bufs'[u] = b /\ adding'[u] = A /\ radius'[u] = r /\ stack'[u] = c
            /\ SearchOf(u, b, A, r, c)
        BY <3>0, <3>1, <3>4, <3>5, <4>1
      <4> QED
        BY <1>1, <4>2, SearchSet
    <3>7. status'[u] = "searching"
      BY <1>4, <1>7
    <3> QED
      BY <2>3, <3>6, <3>7 DEF TreeInv
  <2> QED
    BY <2>1, <2>2, <2>3
<1>11. ParallelInv'
  BY <1>3 DEF ParallelInv
<1>12. SerialInv'
  <2>1. SerialInv /\ \A l \in 1..Last : TreeAt(l) \in 1..Last
    BY <1>1 DEF IInv, Basics
  <2>2. PICK os, ns : /\ os = [l \in 1..Last |-> status[TreeAt(l)]]
                      /\ ns = [l \in 1..Last |-> status'[TreeAt(l)]]
    OBVIOUS
  <2>3. \A l \in 1..Last : /\ \A j \in 1..(l - 1) : j \in 1..Last
                           /\ \A j \in (l + 1)..Last : j \in 1..Last
    BY <1>1 DEF Basics
  <2>4. /\ status[TreeAt(i - 1)] = "searching"
        /\ \A j \in 1..(i - 2) : status[TreeAt(j)] = "merged"
        /\ \A j \in i..Last : status[TreeAt(j)] = "waiting"
    <3>1. (i - 1) + 1 = i /\ (i - 1) - 1 = i - 2
      BY <1>4
    <3> QED
      BY <1>1, <1>4, <2>1, <3>1 DEF SerialInv
  <2>5. Last \in Nat /\ i \in 2..Last /\ \A l \in 1..Last : os[l] = status[TreeAt(l)]
        /\ ns[l] = status'[TreeAt(l)]
    BY <1>1, <2>2 DEF Basics
  <2>6. /\ \A j \in 1..(i - 2) : os[j] = "merged"
        /\ \A j \in i..Last : os[j] = "waiting"
    <3>1. /\ \A j \in 1..(i - 2) : j \in 1..Last
          /\ \A j \in i..Last : j \in 1..Last
      BY <2>5
    <3> QED
      BY <2>4, <2>5, <3>1
  <2>7. /\ ns[i] = "searching" /\ ns[i - 1] = "merged"
        /\ \A j \in 1..Last : j # i /\ j # i - 1 => ns[j] = os[j]
    <3>1. ns[i] = status'[u] /\ ns[i - 1] = status'[t]
      BY <1>3a, <1>4, <2>5
    <3>2. status'[u] = "searching" /\ status'[t] = "merged"
      BY <1>4, <1>7
    <3>3. ASSUME NEW j \in 1..Last, j # i, j # i - 1
          PROVE  ns[j] = os[j]
      <4>1. TreeAt(j) \in 1..Last /\ TreeAt(j) # u /\ TreeAt(j) # t
        BY <1>1, <1>3a, <1>4, <2>1, <3>3, PlacesAre
      <4>2. status'[TreeAt(j)] = status[TreeAt(j)]
        BY <1>7, <4>1
      <4> QED
        BY <2>5, <4>2
    <3> QED
      BY <3>1, <3>2, <3>3
  <2>8. \A l \in 1..Last :
          /\ ns[l] # "waiting" => \A j \in 1..(l - 1) : ns[j] = "merged"
          /\ ns[l] # "merged" => \A j \in (l + 1)..Last : ns[j] = "waiting"
          /\ ns[l] # "done" /\ (ns[l] = "searching" => l = i)
    BY <2>5, <2>6, <2>7, OrderStands
  <2>9. HasK(bufs'[TreeAt(i)])
    BY <1>2, <1>3a, <1>4, <1>7
  <2>10. ASSUME NEW l \in 1..Last
         PROVE  /\ status'[TreeAt(l)] # "waiting" =>
                     \A j \in 1..(l - 1) : status'[TreeAt(j)] = "merged"
                /\ status'[TreeAt(l)] # "merged" =>
                     \A j \in (l + 1)..Last : status'[TreeAt(j)] = "waiting"
                /\ status'[TreeAt(l)] = "done" => l = Last
                /\ status'[TreeAt(l)] = "searching" /\ l > 1 => HasK(bufs'[TreeAt(l)])
    <3>1. /\ ns[l] = status'[TreeAt(l)]
          /\ \A j \in 1..(l - 1) : ns[j] = status'[TreeAt(j)]
          /\ \A j \in (l + 1)..Last : ns[j] = status'[TreeAt(j)]
      BY <2>3, <2>5
    <3>2. /\ ns[l] # "waiting" => \A j \in 1..(l - 1) : ns[j] = "merged"
          /\ ns[l] # "merged" => \A j \in (l + 1)..Last : ns[j] = "waiting"
          /\ ns[l] # "done" /\ (ns[l] = "searching" => l = i)
      BY <2>8
    <3> QED
      BY <2>9, <3>1, <3>2, Zenon
  <2>11. Last' = Last /\ \A l \in 1..Last : TreeAt(l)' = TreeAt(l)
    BY <1>3
  <2>12. \A l \in 1..Last : HasK(bufs[TreeAt(l)])' <=> HasK(bufs'[TreeAt(l)])
    BY <2>11 DEF HasK, ptr
  <2>13. ASSUME NEW l \in 1..Last
         PROVE  /\ status'[TreeAt(l)'] # "waiting" =>
                     \A j \in 1..(l - 1) : status'[TreeAt(j)'] = "merged"
                /\ status'[TreeAt(l)'] # "merged" =>
                     \A j \in (l + 1)..Last : status'[TreeAt(j)'] = "waiting"
                /\ status'[TreeAt(l)'] = "done" => l = Last
                /\ status'[TreeAt(l)'] = "searching" /\ l > 1 => HasK(bufs[TreeAt(l)])'
    <3>1. /\ TreeAt(l)' = TreeAt(l)
          /\ \A j \in 1..(l - 1) : TreeAt(j)' = TreeAt(j)
          /\ \A j \in (l + 1)..Last : TreeAt(j)' = TreeAt(j)
      BY <2>3, <2>11
    <3>2. /\ status'[TreeAt(l)'] = status'[TreeAt(l)]
          /\ \A j \in 1..(l - 1) : status'[TreeAt(j)'] = status'[TreeAt(j)]
          /\ \A j \in (l + 1)..Last : status'[TreeAt(j)'] = status'[TreeAt(j)]
      BY <3>1
    <3>3. status'[TreeAt(l)] # "waiting" => \A j \in 1..(l - 1) : status'[TreeAt(j)] = "merged"
      BY <2>10
    <3>4. status'[TreeAt(l)] # "merged" =>
            \A j \in (l + 1)..Last : status'[TreeAt(j)] = "waiting"
      BY <2>10
    <3>5. /\ status'[TreeAt(l)] = "done" => l = Last
          /\ status'[TreeAt(l)] = "searching" /\ l > 1 => HasK(bufs[TreeAt(l)])'
      BY <2>10, <2>12
    <3> QED
      BY <3>2, <3>3, <3>4, <3>5
  <2> QED
    BY <2>11, <2>13 DEF SerialInv
<1> QED
  BY <1>3, <1>8, <1>10, <1>11, <1>12 DEF IInv

LEMMA FinishInv == ASSUME IInv, NEW t \in 1..Last, Finish(t)  PROVE IInv'
<1>1. CASE ~HasK(bufs[t]) /\ status' = [status EXCEPT ![t] = "thrown"] /\ UNCHANGED bufs
  BY <1>1, ThrowInv
<1>2. CASE HasK(bufs[t])
  <2>1. PICK b \in KeepK(query, bufs[t]) :
             \/ /\ variant = "parallel" \/ t = TreeAt(Last)
                /\ bufs' = [bufs EXCEPT ![t] = b]
                /\ status' = [status EXCEPT ![t] = "done"]
             \/ \E i \in 2..Last, preloaded \in Preloaded(b) :
                  /\ variant # "parallel" /\ t = TreeAt(i - 1)
                  /\ bufs' = [bufs EXCEPT ![t] = b, ![TreeAt(i)] = preloaded]
                  /\ status' = [status EXCEPT ![t] = "merged", ![TreeAt(i)] = "searching"]
    BY <1>2 DEF Finish
  <2>2. CASE /\ variant = "parallel" \/ t = TreeAt(Last)
             /\ bufs' = [bufs EXCEPT ![t] = b]
             /\ status' = [status EXCEPT ![t] = "done"]
    BY <1>2, <2>2, LastInv
  <2>3. ASSUME NEW i \in 2..Last, NEW preloaded \in Preloaded(b),
               variant # "parallel", t = TreeAt(i - 1),
               bufs' = [bufs EXCEPT ![t] = b, ![TreeAt(i)] = preloaded],
               status' = [status EXCEPT ![t] = "merged", ![TreeAt(i)] = "searching"]
        PROVE  IInv'
    BY <1>2, <2>3, NextTreeInv
  <2> QED
    BY <2>1, <2>2, <2>3
<1> QED
  BY <1>1, <1>2 DEF Finish

\* The results of tree j are put into the buffer of the first tree.
LEMMA CombineInv == ASSUME IInv, NEW j \in 2..Last, Combine(j)  PROVE IInv'
<1>1. /\ variant = "parallel" /\ adding[1] = {}
      /\ \A t \in 1..Last : status[t] = IF t \in 2..(j - 1) THEN "merged" ELSE "done"
      /\ UNCHANGED inputs /\ stack' = stack /\ radius' = radius
      /\ status' = [status EXCEPT ![j] = "merged"]
  BY DEF Combine
<1>2. PICK b \in IF j = 2 THEN Preloaded(bufs[1]) ELSE {bufs[1]}, N \in FirstK(bufs[j]) :
        bufs' = [bufs EXCEPT ![1] = b] /\ adding' = [adding EXCEPT ![1] = N]
  BY DEF Combine
<1>3. StateInv /\ Basics /\ BuffersInv /\ \A t \in 1..Last : TreeInv(t)
  BY BasicsAre DEF IInv
<1>4. /\ bufs \in [1..Last -> Buffers(Points)] /\ adding \in [1..Last -> SUBSET Points]
      /\ status \in [1..Last -> {"waiting", "searching", "done", "merged", "thrown"}]
  BY <1>3 DEF StateInv, TypeOK
<1>5. /\ Last \in Nat /\ 1 \in 1..Last /\ j \in 1..Last /\ j # 1
      /\ IsFiniteSet(Points) /\ \A i \in 2..Last : i \in 1..Last
  BY <1>3 DEF Basics
<1>6. status[1] = "done" /\ status[j] = "done"
  BY <1>1, <1>5
<1>7. /\ Last' = Last /\ query' = query /\ trees' = trees /\ variant' = variant
      /\ \A u : TreeAt(u)' = TreeAt(u) /\ Scope(u)' = Scope(u)
  BY <1>1, InputsStand
<1>8. \A u : u # 1 => Merged(u) = {}
  BY DEF Merged
<1>9. /\ IsFull(query, bufs[1]) /\ Nearest(query, bufs[1].elems, Combined(1))
  <2>1. DoneInv(1)
    BY <1>3, <1>5, <1>6 DEF TreeInv
  <2>2. bufs[1].elems \cup adding[1] = bufs[1].elems
    BY <1>1
  <2> QED
    BY <1>1, <2>1, <2>2 DEF DoneInv, DoneOf
<1>10. adding[j] = {} /\ IsFull(query, bufs[j]) /\ Nearest(query, bufs[j].elems, trees[j].points)
  <2>1. DoneInv(j)
    BY <1>3, <1>5, <1>6 DEF TreeInv
  <2>2. adding[j] = {}
    BY <1>5, <1>8, <2>1 DEF DoneInv, DoneOf
  <2>3. Combined(j) = trees[j].points
    <3>1. Combined(j) = Scope(j)
      BY <1>5, <1>8 DEF Combined
    <3>2. trees \in Seq(TreeNodes(Points))
      BY <1>3 DEF StateInv, TreesFrom
    <3> QED
      BY <1>1, <1>5, <3>1, <3>2, ScopeFirst
  <2>4. bufs[j].elems \cup adding[j] = bufs[j].elems
    BY <2>2
  <2> QED
    BY <2>1, <2>2, <2>3, <2>4 DEF DoneInv, DoneOf
<1>11. /\ bufs[1] \in Buffers(Points) /\ bufs[j] \in Buffers(Points)
       /\ bufs[1].elems \in SUBSET Points /\ bufs[j].elems \in SUBSET Points
  BY <1>4, <1>5 DEF Buffers
<1>12. b = bufs[1]
  <2>1. ASSUME b \in Preloaded(bufs[1])  PROVE b = bufs[1]
    <3>1. FirstK(bufs[1]) = {bufs[1].elems}
      BY <1>5, <1>9, <1>11, FirstKIs
    <3>2. b = [elems |-> bufs[1].elems, kth |-> bufs[1].kth, cached |-> TRUE]
      BY <2>1, <3>1 DEF Preloaded
    <3>3. /\ bufs[1] = [elems |-> bufs[1].elems, kth |-> bufs[1].kth, cached |-> bufs[1].cached]
          /\ bufs[1].cached = TRUE
      BY <1>9, <1>11 DEF Buffers, IsFull
    <3> QED
      BY <3>2, <3>3
  <2> QED
    BY <1>2, <2>1
<1>13. N = bufs[j].elems
  BY <1>2, <1>5, <1>10, <1>11, FirstKIs
<1>14. \A u \in 1..Last :
         /\ bufs'[u] = bufs[u] /\ adding'[u] = IF u = 1 THEN N ELSE adding[u]
         /\ status'[u] = IF u = j THEN "merged" ELSE status[u]
  BY <1>1, <1>2, <1>4, <1>5, <1>12
<1>15. Cardinality(N) = k /\ Cardinality(bufs[1].elems) = k /\ N # {}
  <2>1. Cardinality(N) = k /\ Cardinality(bufs[1].elems) = k
    BY <1>9, <1>10, <1>13 DEF IsFull, ptr
  <2> QED
    BY <2>1, FS_EmptySet, kAssumption
<1>16. bufs[1].elems \cap N = {}
  <2>1. Combined(1) \cap trees[j].points = {}
    <3>1. Scope(1) = trees[1].points
      BY <1>1, <1>3, <1>5, ScopeFirst DEF StateInv, TreesFrom
    <3>2. \A i \in Merged(1) : i \in 1..Last /\ i # j
      <4>1. status[j] # "merged"
        BY <1>6
      <4> QED
        BY <1>5, <4>1 DEF Merged
    <3>3. \A i \in 1..Last : i # j => trees[i].points \cap trees[j].points = {}
      BY <1>3, <1>5 DEF StateInv, TreesFrom, Last
    <3> QED
      BY <1>5, <3>1, <3>2, <3>3 DEF Combined
  <2> QED
    BY <1>9, <1>10, <1>13, <2>1 DEF Nearest
<1>17. StateInv' /\ BuffersInv'
  <2>1. N \in SUBSET Points
    BY <1>11, <1>13
  <2>2. /\ bufs' \in [1..Last -> Buffers(Points)] /\ adding' \in [1..Last -> SUBSET Points]
        /\ status' \in [1..Last -> {"waiting", "searching", "done", "merged", "thrown"}]
    BY <1>1, <1>2, <1>4, <1>11, <1>12, <2>1
  <2>3. \A u \in 1..Last : BufferInv(query, bufs'[u]) /\ bufs'[u].elems \cap adding'[u] = {}
    BY <1>3, <1>14, <1>16 DEF BuffersInv
  <2> QED
    BY <1>1, <2>2, <2>3, StateStep
<1>18. Merged(1)' = Merged(1) \cup {j}
  BY <1>1, <1>5, <1>7, <1>14 DEF Merged
<1>19. \A u : u # 1 => Merged(u)' = {}
  BY DEF Merged
<1>20. TreeInv(1)'
  <2>1. Combined(1)' = Combined(1) \cup trees[j].points
    BY <1>7, <1>18 DEF Combined
  <2>2. Nearest(query, bufs[1].elems \cup N, Combined(1) \cup trees[j].points)
    BY <1>9, <1>10, <1>13, NearestBoth
  <2>3. /\ bufs'[1] = bufs[1] /\ adding'[1] = N /\ status'[1] = "done"
    BY <1>5, <1>6, <1>14
  <2>4. HasK(bufs[1]) /\ ptr(bufs[1]) + Cardinality(N) = 2 * k
    BY <1>15, kAssumption DEF HasK, ptr
  <2>5. PICK S : S = Combined(1) \cup trees[j].points
    OBVIOUS
  <2>6. /\ Nearest(query, bufs'[1].elems \cup adding'[1], S) /\ Combined(1)' = S
        /\ HasK(bufs[1])' /\ ptr(bufs'[1]) + Cardinality(adding'[1]) = 2 * k
        /\ adding'[1] # {} /\ Merged(1)' # {}
    BY <1>15, <1>18, <2>1, <2>2, <2>3, <2>4, <2>5 DEF HasK, ptr
  <2>7. DoneInv(1)'
    BY <1>7, <2>6 DEF DoneInv, DoneOf, Nearest, Within, HasK, ptr
  <2> QED
    BY <2>3, <2>7 DEF TreeInv
<1>21. ASSUME NEW u \in 1..Last  PROVE TreeInv(u)'
  <2>1. CASE u = 1
    BY <1>20, <2>1
  <2>2. CASE u = j
    <3>1. status'[j] = "merged" /\ adding'[j] = {}
      BY <1>5, <1>10, <1>14
    <3>2. status'[u] = "merged" /\ adding'[u] = {}
      BY <2>2, <3>1
    <3> QED
      BY <3>2 DEF TreeInv
  <2>3. CASE u # 1 /\ u # j
    <3>1. TreeInv(u) /\ Merged(u)' = Merged(u)
      BY <1>3, <1>8, <1>19, <2>3
    <3> QED
      BY <1>1, <1>14, <2>3, <3>1, TreeStands
  <2> QED
    BY <2>1, <2>2, <2>3
<1>22. ParallelInv'
  <2>1. \A u \in 1..Last : status'[u] \in {"done", "merged"}
    BY <1>1, <1>14
  <2>2. status'[1] = "done"
    BY <1>5, <1>6, <1>14
  <2> QED
    BY <1>7, <2>1, <2>2 DEF ParallelInv
<1>23. SerialInv'
  BY <1>1, <1>7 DEF SerialInv
<1> QED
  BY <1>7, <1>17, <1>21, <1>22, <1>23 DEF IInv

LEMMA NextInv == ASSUME IInv, [Next]_vars  PROVE IInv'
<1>1. ASSUME NEW t \in 1..Last, Search(t)  PROVE IInv'
  BY <1>1, AddInv, KnnHelperInv, OtherChildInv, KnnPruneInv, FinishInv DEF Search
<1>2. ASSUME NEW j \in 2..Last, Combine(j)  PROVE IInv'
  BY <1>2, CombineInv
<1>3. CASE UNCHANGED vars
  <2>1. /\ UNCHANGED inputs /\ bufs' = bufs /\ stack' = stack /\ radius' = radius
        /\ adding' = adding /\ status' = status
    BY <1>3 DEF vars
  <2>2. /\ Last' = Last /\ query' = query /\ trees' = trees /\ variant' = variant
        /\ \A u : TreeAt(u)' = TreeAt(u)
    BY <2>1, InputsStand
  <2>3. StateInv' /\ BuffersInv'
    <3>1. /\ bufs \in [1..Last -> Buffers(Points)] /\ adding \in [1..Last -> SUBSET Points]
          /\ status \in [1..Last -> {"waiting", "searching", "done", "merged", "thrown"}]
          /\ \A u \in 1..Last : BufferInv(query, bufs[u]) /\ bufs[u].elems \cap adding[u] = {}
      BY DEF IInv, StateInv, TypeOK, BuffersInv
    <3> QED
      BY <2>1, <3>1, StateStep
  <2>4. ASSUME NEW u \in 1..Last  PROVE TreeInv(u)'
    <3>1. Merged(u)' = Merged(u)
      BY <2>1, <2>2 DEF Merged
    <3>2. TreeInv(u)
      BY DEF IInv
    <3> QED
      BY <2>1, <3>1, <3>2, TreeStands
  <2>5. ParallelInv' /\ SerialInv'
    BY <2>1, <2>2 DEF IInv, ParallelInv, SerialInv, HasK, ptr
  <2> QED
    BY <2>2, <2>3, <2>4, <2>5 DEF IInv
<1> QED
  BY <1>1, <1>2, <1>3 DEF Next, Ended

-----------------------------------------------------------------------------
(* The theorems *)

\* IInv holds of the searches, whatever they are made over and in any order.
THEOREM InvHolds == Spec => []IInv
<1>1. Init => IInv
  BY InitInv
<1>2. IInv /\ [Next]_vars => IInv'
  BY NextInv
<1> QED
  BY <1>1, <1>2, PTL DEF Spec

\* The state keeps its type, and a buffer has room for the next insert: the
\* entries of the next query point, right behind in the same array, are never
\* written (knnbuffer.h:51, kdtree.h:291).
THEOREM TypeCorrect == Spec => []TypeOK
<1>1. IInv => TypeOK
  BY DEF IInv, StateInv
<1> QED
  BY <1>1, InvHolds, PTL

LEMMA DoneIsExact ==
  ASSUME IInv, NEW t \in 1..Last, status[t] = "done", adding[t] = {}
  PROVE  /\ Answers(bufs[t].elems, Combined(t)) /\ FirstK(bufs[t]) = {bufs[t].elems}
<1>1. Basics /\ DoneInv(t)
  BY BasicsAre DEF IInv, TreeInv
<1>2. IsFull(query, bufs[t]) /\ Nearest(query, bufs[t].elems, Combined(t))
  <2>1. bufs[t].elems \cup adding[t] = bufs[t].elems
    OBVIOUS
  <2> QED
    BY <1>1, <2>1 DEF DoneInv, DoneOf
<1>3. Combined(t) \in SUBSET Points
  <2>1. \A j \in Merged(t) : trees[j].points \subseteq Points
    BY <1>1 DEF Basics, Merged
  <2> QED
    BY <1>1, <2>1 DEF Basics, Combined
<1>4. Cardinality(bufs[t].elems) = k /\ IsFiniteSet(Points) /\ bufs[t] \in Buffers(Points)
  BY <1>1, <1>2 DEF IsFull, ptr, Basics
<1>5. Answers(bufs[t].elems, Combined(t))
  BY <1>2, <1>3, <1>4, NearestAnswers
<1>6. FirstK(bufs[t]) = {bufs[t].elems}
  BY <1>2, <1>4, FirstKIs
<1> QED
  BY <1>5, <1>6

\* A search that is done has the k nearest points of what it has searched
\* (knnHelper and knnPrune, kdnode.h:314-437), whatever has been pruned on the way.
THEOREM SearchesAreExact == Spec => []SearchExact
<1>1. ASSUME IInv  PROVE SearchExact
  <2> SUFFICES ASSUME NEW t \in 1..Last, status[t] = "done",
                      ~(t = 1 /\ \E j \in 2..Last : status[j] = "merged")
               PROVE  Answers(bufs[t].elems, Scope(t))
    BY DEF SearchExact
  <2>1. Merged(t) = {}
    BY DEF Merged
  <2>2. Combined(t) = Scope(t)
    BY <2>1 DEF Combined
  <2>3. adding[t] = {}
    BY <1>1, <2>1 DEF IInv, TreeInv, DoneInv, DoneOf
  <2> QED
    BY <1>1, <2>2, <2>3, DoneIsExact
<1> QED
  BY <1>1, InvHolds, PTL

\* The points a query returns are the k nearest of all the trees' points: for the
\* trees searched in parallel and combined, for those searched one after the other
\* with a common buffer, and in either order of them (knn, knn2 and knn3,
\* logtree.h:788-985).
THEOREM KnnIsExact == Spec => []KnnExact
<1>1. ASSUME IInv  PROVE KnnExact
  <2> SUFFICES ASSUME Finished, NEW N \in FirstK(bufs[ResultTree])
               PROVE  Answers(N, AllPoints)
    BY DEF KnnExact
  <2>1. Basics
    BY <1>1, BasicsAre DEF IInv
  <2>2. ResultTree \in 1..Last
    BY <2>1 DEF ResultTree, Basics
  <2> DEFINE t == ResultTree
  <2>3. status[t] = "done" /\ adding[t] = {}
    BY <2>2 DEF Finished
  <2>4. Answers(N, Combined(t))
    <3> HIDE DEF t
    <3>1. t \in 1..Last /\ N \in FirstK(bufs[t])
      BY <2>2 DEF t
    <3> QED
      BY <1>1, <2>3, <3>1, DoneIsExact
  <2>5. Combined(t) = AllPoints
    <3>1. trees # <<>> /\ trees \in Seq(TreeNodes(Points))
      BY <1>1 DEF IInv, StateInv, TreesFrom
    <3>2. CASE variant = "parallel"
      <4>1. t = 1 /\ Scope(1) = trees[1].points
        BY <2>2, <3>1, <3>2, ScopeFirst DEF ResultTree
      <4>2. Merged(1) = 2..Last
        <5>1. \A j \in 2..Last : status[j] = "merged"
          BY <2>1, <4>1 DEF Finished, Basics
        <5> QED
          BY <3>2, <5>1 DEF Merged
      <4>3. \A j \in 1..Last : j = 1 \/ j \in 2..Last
        BY <2>1 DEF Basics
      <4>4. 1 \in 1..Last /\ \A j \in 2..Last : j \in 1..Last
        BY <2>1 DEF Basics
      <4> QED
        BY <4>1, <4>2, <4>3, <4>4 DEF Combined, AllPoints
    <3>3. CASE variant # "parallel"
      <4>1. t = TreeAt(Last)
        BY <3>3 DEF ResultTree
      <4>2. Combined(t) = Scope(t)
        BY <3>3 DEF Combined, Merged
      <4>3. TreeAt(TreeAt(Last)) = Last /\ Last \in Nat /\ Last >= 1
        BY <2>1 DEF Basics
      <4>4. Scope(t) = UNION {trees[TreeAt(i)].points : i \in 1..Last}
        <5>1. Scope(t) = UNION {trees[TreeAt(i)].points :
                                  i \in {j \in 1..Last : j = TreeAt(t)
                                          \/ (variant # "parallel" /\ j <= TreeAt(t))}}
          BY <2>2, <3>1, ScopeIs
        <5>2. {j \in 1..Last : j = TreeAt(t) \/ (variant # "parallel" /\ j <= TreeAt(t))}
                = 1..Last
          BY <3>3, <4>1, <4>3
        <5> HIDE DEF t
        <5> QED
          BY <5>1, <5>2
      <4>5. /\ \A i \in 1..Last : TreeAt(i) \in 1..Last /\ TreeAt(TreeAt(i)) = i
        BY <2>1 DEF Basics
      <4> HIDE DEF t
      <4>6. AllPoints \subseteq Scope(t)
        BY <4>4, <4>5 DEF AllPoints
      <4>7. Scope(t) \subseteq AllPoints
        BY <4>4, <4>5 DEF AllPoints
      <4> QED
        BY <4>2, <4>6, <4>7
    <3> QED
      BY <3>2, <3>3
  <2> QED
    BY <2>4, <2>5
<1> QED
  BY <1>1, InvHolds, PTL

\* keepK throws only where the first tree of a buffer has fewer than k points
\* (knnbuffer.h:41, kdtree.h:279).
THEOREM ThrowsAreRight == Spec => []ThrowsOnlyOnSmallTree
<1>1. IInv => ThrowsOnlyOnSmallTree
  BY DEF IInv, TreeInv, ThrownInv, ThrowsOnlyOnSmallTree
<1> QED
  BY <1>1, InvHolds, PTL

=============================================================================
