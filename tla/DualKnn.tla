------------------------------- MODULE DualKnn -------------------------------
(***************************************************************************)
(* The dual-tree k-nearest-neighbour query (dual.h, and dualKnnBase of     *)
(* KdTree and LogTree): a tree is built over the query points, and         *)
(* DualKnnHelper descends into it and a tree of points together.  A query  *)
(* node keeps dualKnnDist, no less than the k-th distance of any query     *)
(* below it, and a pair of nodes farther apart than that is pruned.        *)
(*                                                                         *)
(* A call works on a pair of nodes, named by their paths from the roots,   *)
(* and is made at most once for each tree of points.  It makes its own     *)
(* calls in phases: those of a phase run as parallel tasks, and the next   *)
(* phase begins when all have returned.  Where the code makes them one     *)
(* after the other (parallel = false, or few points below), it runs one of *)
(* these interleavings.  updateDualDist, which brings dualKnnDist up to    *)
(* date after the buffer tree has been searched, is another kind of call.  *)
(*                                                                         *)
(* A pair of leaves is relaxed for one query after the other; the buffers  *)
(* of the queries are written by nobody else then, and what is in them     *)
(* afterwards does not depend on the order of the points.                  *)
(***************************************************************************)
EXTENDS KnnBuffer, SequencesExt

CONSTANTS
  QuerySets,   \* the sets of query points
  KdTrees,     \* the trees asked on their own
  LogTrees     \* the LogTrees asked: their buffer tree, or <<>>, and their
               \* static trees

VARIABLES
  mode,         \* DUAL_KNN_MODE
  owner,        \* what is asked, a "KdTree" or a "LogTree"
  apart,        \* the trees are searched in parallel, with buffers of their own
  queryTree,    \* its nodes
  rtrees,       \* the nodes of the trees, as listed by gatherFullTrees
  has_buffer,   \* the first of them is the buffer tree
  bufs,         \* for each slice of buffers, the buffer of each query point
  dist,         \* dualKnnDist of the query nodes; with DKNN_ARRAY, for each tree
  status,       \* of the search of each tree
  calls,        \* of each tree's search: where its calls stand
  res           \* for each query point, the points returned

inputs == <<mode, owner, apart, queryTree, rtrees, has_buffer>>
vars == <<inputs, bufs, dist, status, calls, res>>

\* A tree is given by the points it was built over and those still present, and
\* whether its boxes are tight; erase<false> may have cut off half of its root.
TreeOf(t) == IF t.half THEN HalfTree(t.built, t.present)
             ELSE Tree(t.built, t.present, t.tight)

TreesOf(lt) == lt.buffer \o lt.static

AllTrees == KdTrees \cup UNION {Range(TreesOf(lt)) : lt \in LogTrees}

Points == UNION {t.built : t \in AllTrees}

ASSUME QueriesAssumption ==
  /\ IsFiniteSet(UNION QuerySets) /\ \A q \in UNION QuerySets, d \in Dims : q[d] \in Int
  /\ {} \notin QuerySets

\* A tree that is asked is not empty, and the half cut off was.
ASSUME TreesAssumption ==
  /\ IsFiniteSet(Points) /\ \A p \in Points, d \in Dims : p[d] \in Int
  /\ \A t \in AllTrees :
       /\ t.built \in SUBSET Points /\ t.present \in SUBSET t.built
       /\ t.tight \in BOOLEAN /\ t.half \in BOOLEAN
       /\ t.present # {}
       /\ t.half => /\ Cardinality(t.built) > LEAF_SIZE
                    /\ \/ LowerHalf(t.built, 1) \cap t.present = {}
                       \/ t.present \subseteq LowerHalf(t.built, 1)

\* A LogTree has trees, in each point once (EachPointOnce of LogTree), and k
\* points at least.
ASSUME LogTreesAssumption ==
  \A lt \in LogTrees :
    /\ lt.buffer \in Seq(AllTrees) /\ Len(lt.buffer) <= 1 /\ lt.static \in Seq(AllTrees)
    /\ TreesOf(lt) # <<>>
    /\ \A i, j \in DOMAIN TreesOf(lt) :
         i # j => TreesOf(lt)[i].present \cap TreesOf(lt)[j].present = {}
    /\ Cardinality(UNION {t.present : t \in Range(TreesOf(lt))}) >= k

\* numeric_limits<double>::max()
Infinity == 1 + Max({Cost(q, p) : q \in UNION QuerySets, p \in Points})

Modes == {"ATOMIC_LEAF", "NONATOMIC_LEAF", "ARRAY"}

Queries == queryTree[<<>>].points

Trees == 1..Len(rtrees)

\* The slice of buffers the search of tree t uses
Slot(t) == IF apart THEN t ELSE 1

Slots == {Slot(t) : t \in Trees}

\* The distances the search of tree t uses
DistSlot(t) == IF mode = "ARRAY" THEN t ELSE 1

\* Searches that run at the same time set the distances of the same nodes.
SharesDists == apart /\ mode = "ATOMIC_LEAF"

-----------------------------------------------------------------------------
(* nodes *)

NoNode == [children |-> <<>>]

\* The nodes of a tree, by their paths from the root, none of which is as long as
\* the number of points the tree was built over
NodesByPath(t) ==
  LET Paths == BoundedSeq(1..2, Cardinality(t.built))
      node[path \in Paths] ==
        IF path = <<>> THEN TreeOf(t)
        ELSE LET parent == node[Front(path)]
             IN  IF Last(path) \in DOMAIN parent.children
                   THEN parent.children[Last(path)] ELSE NoNode
      there == {path \in Paths :
                  path = <<>> \/ Last(path) \in DOMAIN node[Front(path)].children}
  IN  [path \in there |-> [points |-> node[path].points, box |-> node[path].box,
                           degree |-> Len(node[path].children)]]

QNodes == DOMAIN queryTree

\* One member of each f[x]
OneOfEach(f) ==
  {g \in [DOMAIN f -> UNION {f[x] : x \in DOMAIN f}] : \A x \in DOMAIN f : g[x] \in f[x]}

\* The distance of two boxes, KdNodeBoundingBoxDistance
BoxDistance(a, b) ==
  LET gap == [d \in Dims |-> Max({0, a.min[d] - b.max[d], b.min[d] - a.max[d]})]
  IN  Cost(gap, [d \in Dims |-> 0])

-----------------------------------------------------------------------------
(* calls *)

KnnCall(q, r) == [op |-> "DualKnnHelper", q |-> q, r |-> r]

UpdateCall(q) == [op |-> "updateDualDist", q |-> q, r |-> <<>>]

\* The state of a call: entered, in its n-th phase, about to set dualKnnDist to
\* n, or returned; and the children's distances it has seen
State(at, n) == [at |-> at, n |-> n, seen |-> <<>>]

QNode(c) == queryTree[c.q]

RNode(t, c) == rtrees[t][c.r]

IsLeafNode(node) == node.degree = 0

HasOnlyChild(node) == node.degree = 1

\* The calls of c on the children of its nodes, also when a call is forwarded
\* to an only child
Below(c, i) == KnnCall(Append(c.q, i), c.r)

RBelow(c, j) == KnnCall(c.q, Append(c.r, j))

BothBelow(c, i, j) == KnnCall(Append(c.q, i), Append(c.r, j))

\* The child of R that is closer to a query node
CloserChild(t, q, r) ==
  LET distance(j) == BoxDistance(queryTree[q].box, rtrees[t][Append(r, j)].box)
  IN  IF distance(1) < distance(2) THEN 1 ELSE 2

\* A call on a half root is forwarded to what is left of it.
ForwardPhases(c) == <<{RBelow(c, 1)}>>

LeafQPhases(t, c) ==
  LET closer == CloserChild(t, c.q, c.r)
  IN  <<{RBelow(c, closer)}, {RBelow(c, 3 - closer)}>>

LeafRPhases_OfR(c) == <<{RBelow(c, j) : j \in 1..2}>>

LeafRPhases(c) == <<{Below(c, i) : i \in 1..2}>>

\* All four recursive calls at once
InnerPhases_AllAtOnce(t, c) == <<{BothBelow(c, i, j) : i \in 1..2, j \in 1..2}>>

\* The farther children are never searched
InnerPhases_CloserOnly(t, c) ==
  <<{BothBelow(c, i, CloserChild(t, Append(c.q, i), c.r)) : i \in 1..2}>>

\* The children of two inner nodes are paired so that every query child meets
\* its closer child first, and no two tasks have the same query child.
InnerPhases(t, c) ==
  LET closer(i) == CloserChild(t, Append(c.q, i), c.r)
  IN  <<{BothBelow(c, i, closer(i)) : i \in 1..2},
        {BothBelow(c, i, 3 - closer(i)) : i \in 1..2}>>

\* The calls that a call on tree t makes, in phases
Phases(t, c) ==
  LET q == QNode(c)
      r == RNode(t, c)
  IN  CASE c.op = "updateDualDist" /\ IsLeafNode(q) -> <<>>
        [] c.op = "updateDualDist" /\ ~IsLeafNode(q) ->
             <<{UpdateCall(Append(c.q, i)) : i \in 1..2}>>
        [] c.op = "DualKnnHelper" ->
             IF HasOnlyChild(r) THEN ForwardPhases(c)
             ELSE IF IsLeafNode(q) /\ IsLeafNode(r) THEN <<>>
             ELSE IF IsLeafNode(q) THEN LeafQPhases(t, c)
             ELSE IF IsLeafNode(r) THEN LeafRPhases(c)
             ELSE InnerPhases(t, c)

\* The calls that set the distance of their query node from its children's
UpdatesInner(t, c) ==
  /\ ~IsLeafNode(QNode(c))
  /\ c.op = "DualKnnHelper" => ~HasOnlyChild(RNode(t, c))

-----------------------------------------------------------------------------

\* The trees asked: a KdTree, or a LogTree's, which starts with its buffer tree
\* unless that is empty
Init ==
  /\ mode \in Modes
  /\ \E S \in QuerySets :
       queryTree = NodesByPath([built |-> S, present |-> S, tight |-> TRUE, half |-> FALSE])
  /\ \/ /\ owner = "KdTree" /\ apart = FALSE /\ has_buffer = FALSE
        /\ \E t \in KdTrees : rtrees = <<NodesByPath(t)>>
     \/ /\ owner = "LogTree"
        /\ apart \in IF mode = "NONATOMIC_LEAF" THEN {FALSE} ELSE BOOLEAN
        /\ \E lt \in LogTrees :
             /\ rtrees = [t \in DOMAIN TreesOf(lt) |-> NodesByPath(TreesOf(lt)[t])]
             /\ has_buffer = (lt.buffer # <<>>)
  /\ bufs = [s \in Slots |-> [q \in Queries |-> NewBuffer]]
  /\ dist = [t \in {DistSlot(t) : t \in Trees} |-> [n \in QNodes |-> Infinity]]
  /\ status = [t \in Trees |-> IF apart \/ t = 1 THEN "called" ELSE "waiting"]
  /\ calls = [t \in Trees |-> <<>>]
  /\ res = <<>>

\* Between inserts the 2k entries of a buffer have room for one more.
TypeOK ==
  /\ mode \in Modes /\ owner \in {"KdTree", "LogTree"}
  /\ apart \in BOOLEAN /\ has_buffer \in BOOLEAN
  /\ bufs \in [Slots -> [Queries -> Buffers(Points)]]
  /\ \A s \in Slots, q \in Queries : ptr(bufs[s][q]) < 2 * k
  /\ \A t \in DOMAIN dist : dist[t] \in [QNodes -> 0..Infinity]
  /\ status \in [Trees -> {"waiting", "called", "running", "done", "thrown"}]
  /\ \A t \in Trees : \A c \in DOMAIN calls[t] :
       /\ c.op \in {"DualKnnHelper", "updateDualDist"}
       /\ c.q \in QNodes /\ c.r \in DOMAIN rtrees[t]
       /\ calls[t][c].at \in {"entered", "phase", "radius", "returned"}
       /\ calls[t][c].n \in Nat
       /\ calls[t][c].at = "radius" => calls[t][c].n <= Infinity
       /\ DOMAIN calls[t][c].seen \subseteq 1..2
       /\ \A i \in DOMAIN calls[t][c].seen : calls[t][c].seen[i] \in 0..Infinity
  /\ res # <<>> => res \in [Queries -> SUBSET Points]

Root(t) == IF has_buffer /\ t = 1 THEN UpdateCall(<<>>) ELSE KnnCall(<<>>, <<>>)

\* run_on_tree for a static tree, or dualKnnBase of a KdTree
StartTree(t) ==
  /\ status[t] = "called" /\ ~(has_buffer /\ t = 1)
  /\ status' = [status EXCEPT ![t] = "running"]
  /\ calls' = [calls EXCEPT ![t] = [c \in {Root(t)} |-> State("entered", 0)]]
  /\ UNCHANGED <<inputs, bufs, dist, res>>

\* knn of the buffer tree for all the queries, each of which ends with the k
\* nearest or throws (KnnSearch), and then updateDualDist
SearchBufferTree(t) ==
  /\ status[t] = "called" /\ has_buffer /\ t = 1
  /\ \/ /\ Cardinality(rtrees[t][<<>>].points) < k
        /\ status' = [status EXCEPT ![t] = "thrown"]
        /\ UNCHANGED <<bufs, calls>>
     \/ /\ Cardinality(rtrees[t][<<>>].points) >= k
        /\ LET all == [elems |-> rtrees[t][<<>>].points, kth |-> NoPoint, cached |-> FALSE] IN
           \E found \in OneOfEach([q \in Queries |-> KeepK(q, all)]) :
             bufs' = [bufs EXCEPT ![Slot(t)] = found]
        /\ status' = [status EXCEPT ![t] = "running"]
        /\ calls' = [calls EXCEPT ![t] = [c \in {Root(t)} |-> State("entered", 0)]]
  /\ UNCHANGED <<inputs, dist, res>>

IsAt(t, c, at) == status[t] = "running" /\ calls[t][c].at = at

\* Call c of tree t goes on to st
Goes(t, c, st) == calls' = [calls EXCEPT ![t][c] = st]

\* Definitely no updates here
Pruned(t, c) ==
  /\ c.op = "DualKnnHelper" /\ ~HasOnlyChild(RNode(t, c))
  /\ BoxDistance(QNode(c).box, RNode(t, c).box) > dist[DistSlot(t)][c.q]

Prune(t, c) ==
  /\ IsAt(t, c, "entered") /\ Pruned(t, c)
  /\ Goes(t, c, State("returned", 0))
  /\ UNCHANGED <<inputs, bufs, dist, status, res>>

\* The calls of a phase are made, entered at once.
Fork(t, c, n) ==
  calls' = [calls EXCEPT ![t] =
              [d \in DOMAIN @ \cup Phases(t, c)[n] |->
                 IF d = c THEN State("phase", n)
                 ELSE IF d \in Phases(t, c)[n] THEN State("entered", 0) ELSE @[d]]]

Recurse(t, c) ==
  /\ IsAt(t, c, "entered") /\ ~Pruned(t, c) /\ Phases(t, c) # <<>>
  /\ Fork(t, c, 1)
  /\ UNCHANGED <<inputs, bufs, dist, status, res>>

\* The distance of the farthest of the k nearest of a query
RadiusOf(q, b) == IF HasK(b) THEN Cost(q, b.kth) ELSE Infinity

\* What knnAddToBuffer may make of the buffer of query q
Relaxed(q, b, S) ==
  LET near == {p \in S : Cost(q, p) <= RadiusOf(q, b)}
      grown == [elems |-> b.elems \cup near, kth |-> b.kth, cached |-> FALSE]
  IN  IF near = {} THEN {b} ELSE IF HasK(grown) THEN KeepK(q, grown) ELSE {grown}

LeafRadius(c, slice) == Max({RadiusOf(q, slice[q]) : q \in QNode(c).points})

\* Two leaves: every query of Q is relaxed with the points of R
Relax(t, c) ==
  /\ IsAt(t, c, "entered") /\ ~Pruned(t, c) /\ Phases(t, c) = <<>>
  /\ c.op = "DualKnnHelper"
  /\ \E found \in OneOfEach([q \in QNode(c).points |->
                             Relaxed(q, bufs[Slot(t)][q], RNode(t, c).points)]) :
       /\ bufs' = [bufs EXCEPT ![Slot(t)] =
                     [q \in Queries |-> IF q \in QNode(c).points THEN found[q] ELSE @[q]]]
       /\ Goes(t, c, State("radius", LeafRadius(c, found)))
  /\ UNCHANGED <<inputs, dist, status, res>>

\* updateDualDist of a leaf.  It looks for k entries only in the first buffer,
\* and without them takes the leaf for an inner node without children.
UpdateLeaf(t, c) ==
  /\ IsAt(t, c, "entered") /\ Phases(t, c) = <<>> /\ c.op = "updateDualDist"
  /\ \E first \in QNode(c).points :
       Goes(t, c, State("radius", IF HasK(bufs[Slot(t)][first])
                                    THEN LeafRadius(c, bufs[Slot(t)]) ELSE 0))
  /\ UNCHANGED <<inputs, bufs, dist, status, res>>

\* dualKnnDist of the i-th child of the query node
ChildDist(t, c, i) == dist[DistSlot(t)][Append(c.q, i)]

\* The calls of the phase that c is in have returned.
PhaseEnds(t, c) ==
  \A d \in Phases(t, c)[calls[t][c].n] : calls[t][d].at = "returned"

\* updateDualDist of few points reads the left child's distance before it goes on
\* to the right child.
LeftIsUpdated(t, c) ==
  /\ c.op = "updateDualDist"
  /\ calls[t][UpdateCall(Append(c.q, 1))].at = "returned"
  /\ calls[t][UpdateCall(Append(c.q, 2))].at = "entered"

\* The distances of the children are loaded one by one.  It is a step of its own
\* only where another search may set them in the meantime (OneWriter).
Read(t, c, i) ==
  LET n == calls[t][c].n
      seen == calls[t][c].seen
  IN
  /\ SharesDists /\ IsAt(t, c, "phase")
  /\ UpdatesInner(t, c) /\ n = Len(Phases(t, c))
  /\ i \notin DOMAIN seen
  /\ PhaseEnds(t, c) \/ (i = 1 /\ LeftIsUpdated(t, c))
  /\ Goes(t, c, [at |-> "phase", n |-> n,
                 seen |-> [j \in DOMAIN seen \cup {i} |->
                             IF j = i THEN ChildDist(t, c, i) ELSE seen[j]]])
  /\ UNCHANGED <<inputs, bufs, dist, status, res>>

ChildrenDist_Closer(t, c) == Min({ChildDist(t, c, i) : i \in 1..2})

\* The larger of the children's distances.  updateDualDist compares what it has
\* read.  The std::max of DualKnnHelper returns a reference to the larger of two
\* atomics, which is then loaded again: its value may be another by now.
ChildrenDist(t, c) ==
  LET seen == calls[t][c].seen
      larger == IF seen[1] < seen[2] THEN 2 ELSE 1
  IN  IF ~SharesDists THEN Max({ChildDist(t, c, i) : i \in 1..2})
      ELSE IF c.op = "updateDualDist" THEN seen[larger]
      ELSE ChildDist(t, c, larger)

\* The next phase, or the end: the distance is set from the children's, if at all.
Join(t, c) ==
  /\ IsAt(t, c, "phase") /\ PhaseEnds(t, c)
  /\ \/ /\ calls[t][c].n < Len(Phases(t, c))
        /\ Fork(t, c, calls[t][c].n + 1)
     \/ /\ calls[t][c].n = Len(Phases(t, c)) /\ UpdatesInner(t, c)
        /\ SharesDists => DOMAIN calls[t][c].seen = 1..2
        /\ Goes(t, c, State("radius", ChildrenDist(t, c)))
     \/ /\ calls[t][c].n = Len(Phases(t, c)) /\ ~UpdatesInner(t, c)
        /\ Goes(t, c, State("returned", 0))
  /\ UNCHANGED <<inputs, bufs, dist, status, res>>

NewDist_Assigned(old, new) == new

\* update_dual_knn_dist: the other searches may have lowered it in the meantime
NewDist(old, new) == IF mode = "ATOMIC_LEAF" THEN Min({old, new}) ELSE new

SetDist(t, c) ==
  /\ IsAt(t, c, "radius")
  /\ dist' = [dist EXCEPT ![DistSlot(t)][c.q] = NewDist(@, calls[t][c].n)]
  /\ Goes(t, c, State("returned", 0))
  /\ UNCHANGED <<inputs, bufs, status, res>>

\* The search of a tree returns, and the next one is called.
EndTree(t) ==
  /\ status[t] = "running" /\ calls[t][Root(t)].at = "returned"
  /\ status' = [s \in Trees |-> IF s = t THEN "done"
                                ELSE IF ~apart /\ s = t + 1 THEN "called" ELSE status[s]]
  /\ calls' = [calls EXCEPT ![t] = <<>>]
  /\ UNCHANGED <<inputs, bufs, dist, res>>

FoundBy(q, s) ==
  IF HasK(bufs[s][q]) THEN FirstK(bufs[s][q]) ELSE {bufs[s][q].elems}

\* Entries never filled cost the most, and name no point.
NearestFound(q, S) == IF Cardinality(S) < k THEN {S} ELSE KNearest(q, S)

\* What may be returned for q.  Slices apart are combined: the first k entries
\* of each are inserted into the first.
Answer(q) ==
  IF ~apart THEN FoundBy(q, 1)
  ELSE UNION {NearestFound(q, UNION {f[s] : s \in Slots}) :
              f \in OneOfEach([s \in Slots |-> FoundBy(q, s)])}

\* keepK throws where fewer than k entries are left.  A LogTree reads the buffers
\* as they are, or calls it after inserts that leave k at least.
Return ==
  /\ \A t \in Trees : status[t] = "done"
  /\ res = <<>>
  /\ \/ /\ owner = "KdTree" /\ \E q \in Queries : ~HasK(bufs[1][q])
        /\ status' = [status EXCEPT ![1] = "thrown"] /\ UNCHANGED res
     \/ /\ ~(owner = "KdTree" /\ \E q \in Queries : ~HasK(bufs[1][q]))
        /\ res' \in OneOfEach([q \in Queries |-> Answer(q)])
        /\ UNCHANGED status
  /\ UNCHANGED <<inputs, bufs, dist, calls>>

\* The query has returned or thrown.  Anywhere else a state without a step is a
\* deadlock, of phases that wait for each other, and TLC looks for one.
Ended ==
  /\ res # <<>> \/ \E t \in Trees : status[t] = "thrown"
  /\ UNCHANGED vars

Step(t, c) ==
  \/ Prune(t, c) \/ Recurse(t, c) \/ Relax(t, c) \/ UpdateLeaf(t, c)
  \/ \E i \in 1..2 : Read(t, c, i)
  \/ Join(t, c) \/ SetDist(t, c)

Next ==
  \/ \E t \in Trees :
       \/ StartTree(t) \/ SearchBufferTree(t) \/ EndTree(t)
       \/ \E c \in DOMAIN calls[t] : Step(t, c)
  \/ Return
  \/ Ended

Spec == Init /\ [][Next]_vars

-----------------------------------------------------------------------------

AllPoints == UNION {rtrees[t][<<>>].points : t \in Trees}

(***************************************************************************)
(* Every query point gets its k nearest points of all the trees, as the    *)
(* tests compare the answers with those of bruteforceKnn.                  *)
(***************************************************************************)
QueriesFindNearest ==
  res # <<>> => \A q \in Queries : res[q] \in KNearest(q, AllPoints)

(***************************************************************************)
(* They do unless searches share the distances: no pair of nodes is pruned *)
(* by a distance of the wrong node, tree or moment, and the slices, of     *)
(* which some may never have had k points, combine.  Where ATOMIC_LEAF     *)
(* searches the trees in parallel they need not (the run dual_atomic).     *)
(***************************************************************************)
DualKnnExact == ~SharesDists => QueriesFindNearest

\* The candidates that stand behind the distances of slot t
Candidates(t, q) ==
  IF mode = "ARRAY" THEN bufs[Slot(t)][q].elems
  ELSE UNION {bufs[s][q].elems : s \in Slots}

(***************************************************************************)
(* A pair of nodes may be pruned at any moment, by any task: at all times  *)
(* every query below a node has k candidates within the node's             *)
(* dualKnnDist, wherever they have been found.  Of searches that share the *)
(* distances this is so at the leaves only.                                *)
(***************************************************************************)
DistIsBound ==
  \A t \in DOMAIN dist : \A n \in QNodes :
    /\ dist[t][n] < Infinity
    /\ IsLeafNode(queryTree[n]) \/ ~SharesDists
    => \A q \in queryTree[n].points :
         Cardinality({p \in Candidates(t, q) : Cost(q, p) <= dist[t][n]}) >= k

\* A call that may write to its query node now, or to the buffers below it
Writes(t, c) == calls[t][c].at \in {"entered", "radius"}

(***************************************************************************)
(* The buffers and, unless they are atomic, the distances are written      *)
(* without synchronisation: no two tasks of a tree's search ever work on   *)
(* the same query node, or on one below the other's, and only searches     *)
(* that have everything of their own run at the same time.                 *)
(***************************************************************************)
OneWriter ==
  /\ \A t \in Trees : \A c, d \in DOMAIN calls[t] :
       Writes(t, c) /\ Writes(t, d) /\ c # d =>
         ~IsPrefix(c.q, d.q)
  /\ \A t, u \in Trees : status[t] = "running" /\ status[u] = "running" /\ t # u =>
       Slot(t) # Slot(u) /\ (mode = "NONATOMIC_LEAF" => DistSlot(t) # DistSlot(u))

(***************************************************************************)
(* A distance never rises again, also when the searches of several trees   *)
(* set it from what they saw a while ago.                                  *)
(***************************************************************************)
DistNeverRises ==
  [][\A t \in DOMAIN dist : \A n \in QNodes : dist'[t][n] <= dist[t][n]]_vars

=============================================================================
