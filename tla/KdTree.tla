-------------------------------- MODULE KdTree --------------------------------
(***************************************************************************)
(* One kd-tree (shared/kdtree.h, shared/kdnode.h), with the nodes of the   *)
(* binary-heap layout (binary-heap-layout/bhlkdtree.h), split at the       *)
(* object median or at the spatial one: how it is built, how points are    *)
(* erased from it in bulk, by forked tasks, or one by one, and what its    *)
(* queries find afterwards.                                                *)
(*                                                                         *)
(* A static tree of a LogTree is built over more than half of its          *)
(* capacity, erased from, and emptied by its LogTree as soon as it is at   *)
(* most half full.  The buffer tree of a LogTree is erased from in the     *)
(* same way and never emptied for it; it is rebuilt by the next insert.  A *)
(* tree on its own is inserted into, rebuilt by bulk_erase, and            *)
(* restructured by erase.                                                  *)
(*                                                                         *)
(* items and present are indexed from 0 as in the code; a leaf's items     *)
(* have a fixed order, which nothing looks at.  bulk_erase_helper makes    *)
(* the calls of bulk_erase_helper_parallel in a fixed order, and is one of *)
(* its interleavings.                                                      *)
(***************************************************************************)
EXTENDS Integers, FiniteSets, FiniteSetsExt

CONSTANTS
  DIM,
  BUILD_BASE_CASE,  \* from this many items on, the median is found by sorting
  LOG2_SIZE,        \* of the largest tree
  Pow2,             \* Pow2[i] is 1 << i
  Kinds             \* the trees to look at: a function to records
    \* use: "static", "buffer" or "alone"
    \* log2size
    \* median: PARTITION_TYPE, "object" or "spatial"
    \* leaf_size: CLUSTER_SIZE if the tree coarsens, or 1
    \* points: tuples of DIM coordinates, even to make medians exact
    \* inserts, erases: the sets of points of a caller

Dims == 1..DIM

ASSUME DimAssumption == DIM \in Nat \ {0}

ASSUME Pow2Assumption ==
  /\ LOG2_SIZE \in Nat
  /\ Pow2 \in [0..LOG2_SIZE -> Nat \ {0}]
  /\ Pow2[0] = 1
  /\ \A i \in 0..(LOG2_SIZE - 1) : Pow2[i + 1] = 2 * Pow2[i]

ASSUME KindsAssumption ==
  \A x \in DOMAIN Kinds :
    /\ Kinds[x].use \in {"static", "buffer", "alone"}
    /\ Kinds[x].log2size \in 0..LOG2_SIZE
    /\ Kinds[x].median \in {"object", "spatial"}
    /\ Kinds[x].leaf_size \in Nat \ {0}
    /\ IsFiniteSet(Kinds[x].points)
    /\ \A p \in Kinds[x].points :
         p \in [Dims -> Int] /\ \A d \in Dims : p[d] % 2 = 0
    /\ \A S \in Kinds[x].inserts \cup Kinds[x].erases : S \subseteq Kinds[x].points

VARIABLES
  kind,       \* of the tree, one of DOMAIN Kinds
  items, present, cur_size, build_size,
  left, right, num_points, split_dimension, split_value,
  slice,      \* subtree_items of the nodes, as positions [first, end) of items
  box,        \* pMin and pMax of the nodes
  pc,         \* "idle" between the operations of the caller
  call,       \* where bulk_erase_helper_parallel(n) stands
  to_erase,   \* its points, and at the end of an erase by points those left
  ret, num_removed,
  held        \* the points the caller has put into the tree and not erased

nodeVars == <<left, right, num_points, split_dimension, split_value, slice, box>>
splitVars == <<split_dimension, split_value, slice>>
callVars == <<call, to_erase, ret, num_removed>>
vars == <<kind, items, present, cur_size, build_size, nodeVars, pc, callVars, held>>

NULL == -1

use == Kinds[kind].use

max_size == Pow2[Kinds[kind].log2size]

leaf_size == Kinds[kind].leaf_size

median == Kinds[kind].median

Points == Kinds[kind].points

\* The tree belongs to a LogTree, whose erases leave the root as it is.
LOG_TREE == use # "alone"

\* Of the largest tree, in all of them
NodeIds == 0..(2 * Pow2[LOG2_SIZE] - 2)

Positions == 0..(Pow2[LOG2_SIZE] - 1)

\* subtree_items of a node, by position
Slice(n) == slice[n].first..(slice[n].end - 1)

IsLeaf(n) == left[n] = NULL /\ right[n] = NULL

PresentIn(n) == {x \in Slice(n) : present[x]}

PresentPoints == {items[x] : x \in {y \in 0..(build_size - 1) : present[y]}}

\* No node has been placed here.
NoNode ==
  [left |-> NULL, right |-> NULL, num_points |-> -1,
   split_dimension |-> -1, split_value |-> 0, slice |-> [first |-> 0, end |-> 0],
   box |-> [min |-> [d \in Dims |-> 0], max |-> [d \in Dims |-> 0]]]

BoxOf(S) == [min |-> [d \in Dims |-> Min({p[d] : p \in S})],
             max |-> [d \in Dims |-> Max({p[d] : p \in S})]]

\* The corners of the boxes a and b
Corners(a, b) == {a.min, a.max, b.min, b.max}

-----------------------------------------------------------------------------
(* build *)

\* What may be left of the split, by one dimension.  Both object medians put the
\* smaller half there, and points that are equal may go either way.  The spatial
\* median splits in the middle of the extent: a debug build asserts that this
\* leaves points on both sides, and nothing is built where it does not.
LeftParts(S, d) ==
  LET lowest == Min({p[d] : p \in S})
      highest == Max({p[d] : p \in S})
  IN  IF median = "spatial"
        THEN {{p \in S : 2 * p[d] < lowest + highest}} \ {{}}
        ELSE {L \in kSubset(Cardinality(S) \div 2, S) :
                \A p \in L, q \in S \ L : p[d] <= q[d]}

\* The spatial median and the parallel object median lie between points, the
\* serial one is the first point on the right.
SplitValue(L, R, d) ==
  LET OfLeft == {p[d] : p \in L}
      OfRight == {p[d] : p \in R}
  IN  IF median = "spatial"
        THEN (Min(OfLeft) + Max(OfRight)) \div 2
      ELSE IF Cardinality(L) + Cardinality(R) < BUILD_BASE_CASE
        THEN Min(OfRight) ELSE (Max(OfLeft) + Min(OfRight)) \div 2

\* Where a call of buildKdtRecursive puts what it builds: the node, the position
\* of its first item, and the dimension it is split in
Places == [n : Nat, first : Nat, d : Dims]

NextDim(d) == (d % DIM) + 1

\* A heap for the object median, an array in preorder for the spatial one, in
\* which the left subtree is given all the nodes that it may need
LeftPlace(at, L) ==
  [n |-> IF median = "spatial" THEN at.n + 1 ELSE 2 * at.n + 1,
   first |-> at.first, d |-> NextDim(at.d)]

RightPlace(at, L) ==
  [n |-> IF median = "spatial" THEN at.n + 2 * Cardinality(L) ELSE 2 * at.n + 2,
   first |-> at.first + Cardinality(L), d |-> NextDim(at.d)]

SliceOf(S, at) == [first |-> at.first, end |-> at.first + Cardinality(S)]

LeafNode(S, at) ==
  [left |-> NULL, right |-> NULL, num_points |-> Cardinality(S),
   split_dimension |-> -1, split_value |-> 0, slice |-> SliceOf(S, at), box |-> BoxOf(S)]

InnerNode(S, L, at) ==
  [left |-> LeftPlace(at, L).n, right |-> RightPlace(at, L).n, num_points |-> -1,
   split_dimension |-> at.d, split_value |-> SplitValue(L, S \ L, at.d),
   slice |-> SliceOf(S, at), box |-> BoxOf(S)]

\* Two parts of an array, and what is under the node n
Joined(f, g) ==
  [x \in DOMAIN f \cup DOMAIN g |-> IF x \in DOMAIN f THEN f[x] ELSE g[x]]

BuiltLeaf(S, at) ==
  [items |-> CHOOSE order \in Bijection(at.first..(at.first + Cardinality(S) - 1), S) : TRUE,
   nodes |-> [n \in {at.n} |-> LeafNode(S, at)]]

BuiltInner(S, L, at, l, r) ==
  [items |-> Joined(l.items, r.items),
   nodes |-> Joined([n \in {at.n} |-> InnerNode(S, L, at)], Joined(l.nodes, r.nodes))]

BuiltInners(S, L, at, lefts, rights) ==
  {BuiltInner(S, L, at, l, r) : l \in lefts, r \in rights}

\* What buildKdtRecursive may make of S, of what it makes (built) of its parts:
\* the order of the items, and the nodes
BuildKdtRecursive(built, S, at) ==
  IF Cardinality(S) <= leaf_size
    THEN {BuiltLeaf(S, at)}
    ELSE UNION {BuiltInners(S, L, at, built[L][LeftPlace(at, L)],
                            built[S \ L][RightPlace(at, L)]) : L \in LeftParts(S, at.d)}

Builds(set) ==
  LET built[S \in SUBSET set] ==
        [at \in Places |-> BuildKdtRecursive(built, S, at)]
  IN  built[set][[n |-> 0, first |-> 0, d |-> 1]]

\* build_no_bloom, with the recursion that makes the nodes.  It leaves present
\* as it is.
Build(S) ==
  LET n == Cardinality(S) IN
  /\ cur_size' = n /\ build_size' = n
  /\ \E b \in Builds(S) :
       LET Node(i) == IF i \in DOMAIN b.nodes THEN b.nodes[i] ELSE NoNode IN
       /\ items' = [x \in Positions |-> IF x < n THEN b.items[x] ELSE <<>>]
       /\ left' = [i \in NodeIds |-> Node(i).left]
       /\ right' = [i \in NodeIds |-> Node(i).right]
       /\ num_points' = [i \in NodeIds |-> Node(i).num_points]
       /\ split_dimension' = [i \in NodeIds |-> Node(i).split_dimension]
       /\ split_value' = [i \in NodeIds |-> Node(i).split_value]
       /\ slice' = [i \in NodeIds |-> Node(i).slice]
       /\ box' = [i \in NodeIds |-> Node(i).box]

AllPresent == [x \in Positions |-> TRUE]

\* clear; the nodes and items stay as they are, and are never looked at again.
Clear ==
  /\ cur_size' = 0 /\ build_size' = 0
  /\ present' = AllPresent
  /\ UNCHANGED <<items, nodeVars>>

-----------------------------------------------------------------------------

NoCall ==
  /\ call = [n \in NodeIds |-> "none"]
  /\ to_erase = [n \in NodeIds |-> {}]
  /\ ret = [n \in NodeIds |-> NULL]
  /\ num_removed = [n \in NodeIds |-> 0]

Init ==
  /\ kind \in DOMAIN Kinds
  /\ items = [x \in Positions |-> <<>>] /\ present = AllPresent
  /\ cur_size = 0 /\ build_size = 0
  /\ left = [n \in NodeIds |-> NoNode.left] /\ right = [n \in NodeIds |-> NoNode.right]
  /\ num_points = [n \in NodeIds |-> NoNode.num_points]
  /\ split_dimension = [n \in NodeIds |-> NoNode.split_dimension]
  /\ split_value = [n \in NodeIds |-> NoNode.split_value]
  /\ slice = [n \in NodeIds |-> NoNode.slice]
  /\ box = [n \in NodeIds |-> NoNode.box]
  /\ pc = "idle" /\ NoCall /\ held = {}

TypeOK ==
  /\ kind \in DOMAIN Kinds
  /\ items \in [Positions -> Points \cup {<<>>}]
  /\ present \in [Positions -> BOOLEAN]
  /\ cur_size \in 0..max_size /\ build_size \in 0..max_size
  /\ left \in [NodeIds -> NodeIds \cup {NULL}]
  /\ right \in [NodeIds -> NodeIds \cup {NULL}]
  /\ num_points \in [NodeIds -> -1..max_size]
  /\ split_dimension \in [NodeIds -> Dims \cup {-1}]
  /\ split_value \in [NodeIds -> Int]
  /\ slice \in [NodeIds -> [first : 0..max_size, end : 0..max_size]]
  /\ box \in [NodeIds -> [min : [Dims -> Int], max : [Dims -> Int]]]
  /\ pc \in {"idle", "bulk", "each", "erased", "crashed"}
  /\ call \in [NodeIds -> {"none", "called", "forked", "returned"}]
  /\ to_erase \in [NodeIds -> SUBSET Points]
  /\ ret \in [NodeIds -> NodeIds \cup {NULL}]
  /\ num_removed \in [NodeIds -> 0..max_size]
  /\ held \in SUBSET Points

GoesLeft_OrEqual(n, p) == p[split_dimension[n]] <= split_value[n]

GoesLeft(n, p) == p[split_dimension[n]] < split_value[n]

\* The child find and contains go to for p
Towards(n, p) == IF GoesLeft(n, p) THEN left[n] ELSE right[n]

Walks == [node : NodeIds \cup {NULL}, parent : NodeIds \cup {NULL},
          gparent : NodeIds \cup {NULL}]

\* find's walk for p: the node it ends at, with its parent and grandparent.  It
\* ends at NULL where it would follow a null pointer.
Walk(p) ==
  LET walk[w \in Walks] ==
        IF w.node = NULL \/ IsLeaf(w.node)
          THEN w
          ELSE walk[[node |-> Towards(w.node, p), parent |-> w.node, gparent |-> w.parent]]
  IN  walk[[node |-> 0, parent |-> NULL, gparent |-> NULL]]

\* The root has lost one child to erase<false>.
RootIsHalf == cur_size > 0 /\ (left[0] = NULL) # (right[0] = NULL)

\* What the caller may build on.  Past the two states that erase<false> may
\* leave, the one in which queries follow null pointers and the one in which
\* the points of the next insert stay hidden, it is followed no further.
CallerGoesOn ==
  /\ pc = "idle"
  /\ ~RootIsHalf
  /\ ~(cur_size = 0 /\ build_size > 0)

-----------------------------------------------------------------------------
(* insert, and the build of an empty tree *)

Insert(S) ==
  /\ CallerGoesOn
  /\ S # {} /\ S \cap held = {}
  /\ use = "static" => cur_size = 0 /\ Cardinality(S) > max_size \div 2
  /\ Cardinality(S) <= max_size - cur_size  \* else a debug build throws
  /\ held' = held \cup S
  /\ \/ /\ cur_size = 0
        /\ Build(S) /\ UNCHANGED present
     \/ /\ cur_size # 0
        /\ Build(PresentPoints \cup S) /\ present' = AllPresent
  /\ UNCHANGED <<pc, callVars>>

\* moveElementsTo, called by the insert of a LogTree
MoveOut ==
  /\ LOG_TREE /\ CallerGoesOn /\ cur_size > 0
  /\ Clear
  /\ held' = {}
  /\ UNCHANGED <<pc, callVars>>

-----------------------------------------------------------------------------
(* bulk_erase *)

BulkErase(S) ==
  /\ CallerGoesOn /\ cur_size > 0
  /\ pc' = "bulk"
  /\ held' = held \ S
  /\ call' = [call EXCEPT ![0] = "called"]
  /\ to_erase' = [to_erase EXCEPT ![0] = S]
  /\ UNCHANGED <<items, present, cur_size, build_size, nodeVars, ret, num_removed>>

\* The points are partitioned and the two halves forked.
Fork(n) ==
  /\ call[n] = "called" /\ ~IsLeaf(n)
  /\ LET lower == {p \in to_erase[n] : GoesLeft(n, p)}
     IN  to_erase' = [to_erase EXCEPT ![n] = {},
                                      ![left[n]] = lower,
                                      ![right[n]] = to_erase[n] \ lower]
  /\ call' = [call EXCEPT ![n] = "forked", ![left[n]] = "called",
                          ![right[n]] = "called"]
  /\ UNCHANGED <<items, present, cur_size, build_size, nodeVars, pc, ret,
                 num_removed, held>>

\* recomputeBoundingBoxLeaf
LeafBox(n, flags) == BoxOf({items[x] : x \in {y \in Slice(n) : flags[y]}})

EraseLeaf(n) ==
  LET removed == {x \in PresentIn(n) : items[x] \in to_erase[n]}
      flags == [x \in Positions |-> present[x] /\ x \notin removed]
      left_over == num_points[n] - Cardinality(removed)
  IN
  /\ call[n] = "called" /\ IsLeaf(n)
  /\ present' = flags
  /\ num_points' = [num_points EXCEPT ![n] = left_over]
  /\ box' = IF left_over # 0 /\ removed # {}
              THEN [box EXCEPT ![n] = LeafBox(n, flags)] ELSE box
  /\ ret' = [ret EXCEPT ![n] = IF left_over = 0 THEN NULL ELSE n]
  /\ num_removed' = [num_removed EXCEPT ![n] = Cardinality(removed)]
  /\ call' = [call EXCEPT ![n] = "returned"]
  /\ to_erase' = [to_erase EXCEPT ![n] = {}]
  /\ UNCHANGED <<items, cur_size, build_size, left, right, splitVars, pc, held>>

RecomputedBox_LeftOnly(n, l, r) == IF l # NULL THEN box[l] ELSE box[n]

\* recomputeBoundingBox of a node with the children l and r
RecomputedBox(n, l, r) ==
  IF l # NULL /\ r # NULL THEN BoxOf(Corners(box[l], box[r]))
  ELSE IF l # NULL THEN box[l]
  ELSE IF r # NULL THEN box[r]
  ELSE box[n]

Survivor_Swapped(l, r) == IF l = NULL THEN l ELSE r

\* What is left of a node that has lost at least one child
Survivor(l, r) == IF l = NULL THEN r ELSE l

\* Both halves have returned.  A node that loses a child is replaced by what
\* the other child has returned; the root has nobody to replace it.
Join(n) ==
  LET new_left == ret[left[n]]
      new_right == ret[right[n]]
  IN
  /\ call[n] = "forked"
  /\ call[left[n]] = "returned" /\ call[right[n]] = "returned"
  /\ \/ /\ new_left # NULL /\ new_right # NULL
        /\ left' = [left EXCEPT ![n] = new_left]
        /\ right' = [right EXCEPT ![n] = new_right]
        /\ box' = [box EXCEPT ![n] = RecomputedBox(n, new_left, new_right)]
        /\ ret' = [ret EXCEPT ![left[n]] = NULL, ![right[n]] = NULL, ![n] = n]
     \/ /\ new_left = NULL \/ new_right = NULL
        /\ ret' = [ret EXCEPT ![left[n]] = NULL, ![right[n]] = NULL,
                              ![n] = Survivor(new_left, new_right)]
        /\ UNCHANGED <<left, right, box>>
  /\ num_removed' =
       [num_removed EXCEPT ![left[n]] = 0, ![right[n]] = 0,
                           ![n] = num_removed[left[n]] + num_removed[right[n]]]
  /\ call' = [call EXCEPT ![left[n]] = "none", ![right[n]] = "none",
                          ![n] = "returned"]
  /\ UNCHANGED <<items, present, cur_size, build_size, num_points, splitVars,
                 pc, to_erase, held>>

EndBulk_Swapped ==
  /\ call[0] = "returned"
  /\ pc' = "erased"
  /\ cur_size' = num_removed[0] - cur_size
  /\ call' = [call EXCEPT ![0] = "none"]
  /\ ret' = [ret EXCEPT ![0] = NULL]
  /\ num_removed' = [num_removed EXCEPT ![0] = 0]
  /\ UNCHANGED <<items, present, build_size, nodeVars, to_erase, held>>

EndBulk ==
  /\ call[0] = "returned"
  /\ pc' = "erased"
  /\ cur_size' = cur_size - num_removed[0]
  /\ call' = [call EXCEPT ![0] = "none"]
  /\ ret' = [ret EXCEPT ![0] = NULL]
  /\ num_removed' = [num_removed EXCEPT ![0] = 0]
  /\ UNCHANGED <<items, present, build_size, nodeVars, to_erase, held>>

IsDepleted_Below == cur_size < max_size \div 2

IsDepleted == cur_size <= max_size \div 2

\* A LogTree empties a depleted static tree (logtree.h:466); bulk_erase<true>
\* moves the points out of a tree on its own and builds it again.
AfterErase ==
  /\ pc = "erased" /\ pc' = "idle"
  /\ \/ /\ use = "static" /\ IsDepleted
        /\ Clear /\ held' = {}
     \/ /\ LOG_TREE /\ ~(use = "static" /\ IsDepleted)
        /\ UNCHANGED <<items, present, cur_size, build_size, nodeVars, held>>
     \/ /\ ~LOG_TREE /\ cur_size = 0
        /\ Clear /\ UNCHANGED held
     \/ /\ ~LOG_TREE /\ cur_size # 0
        /\ Build(PresentPoints) /\ present' = AllPresent /\ UNCHANGED held
  /\ UNCHANGED callVars

-----------------------------------------------------------------------------
(* erase, point by point *)

EraseEach(S) ==
  /\ CallerGoesOn /\ cur_size > 0
  /\ pc' = "each"
  /\ held' = held \ S
  /\ to_erase' = [to_erase EXCEPT ![0] = S]
  /\ UNCHANGED <<items, present, cur_size, build_size, nodeVars, call, ret, num_removed>>

Sibling_Swapped(parent, node) ==
  IF left[parent] = node THEN left[parent] ELSE right[parent]

Sibling(parent, node) ==
  IF left[parent] = node THEN right[parent] ELSE left[parent]

\* The leaf is emptied, and stays where it is
RemoveLeaf_StaysLinked(found) == UNCHANGED <<left, right, box>>

\* A leaf that has lost its last point takes its parent with it: its sibling
\* moves up.  Below the root only a tree on its own is changed.
RemoveLeaf(found) ==
  LET node == found.node
      parent == found.parent
      gparent == found.gparent
      Relink(n, from, to) ==
        LET l == IF left[n] = from THEN to ELSE left[n]
            r == IF left[n] = from THEN right[n] ELSE to
        IN  /\ left' = [left EXCEPT ![n] = l]
            /\ right' = [right EXCEPT ![n] = r]
            /\ box' = [box EXCEPT ![n] = RecomputedBox(n, l, r)]
  IN
  \/ gparent # NULL /\ Relink(gparent, parent, Sibling(parent, node))
  \/ gparent = NULL /\ ~LOG_TREE /\ Relink(parent, node, NULL)
  \/ gparent = NULL /\ LOG_TREE /\ UNCHANGED <<left, right, box>>

\* find follows a null pointer, or RemoveLeaf would, at a root that is a leaf.
Crashes(p) ==
  LET found == Walk(p)
  IN  \/ found.node = NULL
      \/ /\ found.parent = NULL /\ ~LOG_TREE
         /\ {items[x] : x \in PresentIn(found.node)} = {p}

PointsAfter_NotAdvanced(p) == to_erase[0]

\* The points the loop over erase(p) has still to erase
PointsAfter(p) == to_erase[0] \ {p}

\* erase(p): nothing, when find does not find p
EraseOne(p) ==
  LET found == Walk(p)
      removed == {x \in PresentIn(found.node) : items[x] = p}
      flags == [x \in Positions |-> present[x] /\ x \notin removed]
      left_over == num_points[found.node] - 1
  IN
  /\ pc = "each" /\ p \in to_erase[0] /\ ~(cur_size > 0 /\ Crashes(p))
  /\ to_erase' = [to_erase EXCEPT ![0] = PointsAfter(p)]
  /\ \/ /\ cur_size = 0 \/ removed = {}
        /\ UNCHANGED <<present, cur_size, nodeVars>>
     \/ /\ cur_size > 0 /\ removed # {}
        /\ present' = flags
        /\ cur_size' = cur_size - 1
        /\ num_points' = [num_points EXCEPT ![found.node] = left_over]
        /\ \/ left_over = 0 /\ RemoveLeaf(found)
           \/ /\ left_over # 0
              /\ box' = [box EXCEPT ![found.node] = LeafBox(found.node, flags)]
              /\ UNCHANGED <<left, right>>
        /\ UNCHANGED splitVars
  /\ UNCHANGED <<items, build_size, pc, call, ret, num_removed, held>>

Crash ==
  /\ pc = "each" /\ cur_size > 0 /\ \E p \in to_erase[0] : Crashes(p)
  /\ pc' = "crashed"
  /\ UNCHANGED <<items, present, cur_size, build_size, nodeVars, callVars, held>>

EndEach ==
  /\ pc = "each" /\ to_erase[0] = {}
  /\ pc' = IF LOG_TREE THEN "erased" ELSE "idle"
  /\ UNCHANGED <<items, present, cur_size, build_size, nodeVars, callVars, held>>

-----------------------------------------------------------------------------

RunBulk == \E n \in NodeIds : Fork(n) \/ EraseLeaf(n) \/ Join(n)

RunEach == (\E p \in Points : EraseOne(p)) \/ Crash \/ EndEach

Step == (RunBulk \/ EndBulk \/ RunEach \/ AfterErase) /\ UNCHANGED kind

Caller ==
  \/ \E S \in Kinds[kind].inserts : Insert(S)
  \/ MoveOut
  \/ \E S \in Kinds[kind].erases : BulkErase(S)
  \/ \E S \in Kinds[kind].erases : EraseEach(S)

Next == (Caller /\ UNCHANGED kind) \/ Step

\* An operation runs on: the work-stealing scheduler runs every forked task.
Spec == Init /\ [][Next]_vars /\ WF_vars(Step)

-----------------------------------------------------------------------------
(* queries *)

Contains(p) ==
  cur_size > 0 /\ \E x \in PresentIn(Walk(p).node) : items[x] = p

\* boxCompare(qMin, qMax, pMin, pMax)
Excludes(q, b) == \E d \in Dims : q.max[d] < b.min[d] \/ q.min[d] > b.max[d]

Includes(q, b) == \A d \in Dims : q.min[d] <= b.min[d] /\ b.max[d] <= q.max[d]

InBox(q, p) == \A d \in Dims : q.min[d] <= p[d] /\ p[d] <= q.max[d]

\* orthogonalQuery, which does look whether a child is there
RangeQuery(q) ==
  LET query[n \in NodeIds \cup {NULL}] ==
        IF n = NULL \/ Excludes(q, box[n]) THEN {}
        ELSE IF Includes(q, box[n]) THEN {items[x] : x \in PresentIn(n)}
        ELSE IF IsLeaf(n)
          THEN {p \in {items[x] : x \in PresentIn(n)} : InBox(q, p)}
        ELSE query[left[n]] \cup query[right[n]]
  IN  IF cur_size = 0 THEN {} ELSE query[0]

\* The leaves that can be reached from n
LeavesBelow(n) ==
  LET leaves[i \in NodeIds \cup {NULL}] ==
        IF i = NULL THEN {}
        ELSE IF IsLeaf(i) THEN {i}
        ELSE leaves[left[i]] \cup leaves[right[i]]
  IN  leaves[n]

RootHasBothSides ==
  IsLeaf(0) \/ (PresentIn(left[0]) # {} /\ PresentIn(right[0]) # {})

\* The tree as it is between operations, for the queries
Quiet == pc = "idle" /\ cur_size > 0

(***************************************************************************)
(* Between operations the tree holds what the caller has put into it and   *)
(* not erased, and size() is the number of it: whatever the interleaving,  *)
(* the tasks of a bulk_erase find every point, and count it once.          *)
(***************************************************************************)
HoldsExactly ==
  pc = "idle" => PresentPoints = held /\ cur_size = Cardinality(held)

(***************************************************************************)
(* contains walks down by the split values of the build, through a tree    *)
(* whose nodes have been cut out since: it finds a point iff it is held.   *)
(***************************************************************************)
ContainsExact ==
  Quiet /\ ~RootIsHalf => \A p \in Points : Contains(p) <=> p \in held

(***************************************************************************)
(* A range query returns the points held that lie in its box: no bounding  *)
(* box has become too small, and the items of a node taken as a whole are  *)
(* those that are still present.  The boxes asked for are spanned by the   *)
(* points.                                                                 *)
(***************************************************************************)
RangeQueryExact ==
  Quiet =>
    \A a, b \in Points :
      LET q == BoxOf({a, b}) IN RangeQuery(q) = {p \in held : InBox(q, p)}

(***************************************************************************)
(* Between operations the leaves that can be reached hold every present    *)
(* point, their counts are right and their boxes tight: what knn and       *)
(* countPoints rely on.  One is empty only while the root of a LogTree's   *)
(* tree keeps a side that has been erased.                                 *)
(***************************************************************************)
LeavesExact ==
  Quiet =>
    /\ UNION {PresentIn(n) : n \in LeavesBelow(0)} = PresentIn(0)
    /\ \A n \in LeavesBelow(0) :
         /\ num_points[n] = Cardinality(PresentIn(n))
         /\ IF num_points[n] > 0 THEN box[n] = LeafBox(n, present)
                                 ELSE LOG_TREE /\ ~RootHasBothSides

(***************************************************************************)
(* What a call of bulk_erase_helper returns for a node stands for all that *)
(* is left of it: NULL if nothing is, and else a node from which every     *)
(* present point of the node can be reached.                               *)
(***************************************************************************)
ReturnedHoldsTheRest ==
  \A n \in NodeIds :
    call[n] = "returned" =>
      IF ret[n] = NULL
        THEN PresentIn(n) = {}
        ELSE UNION {PresentIn(i) : i \in LeavesBelow(ret[n])} = PresentIn(n)

(***************************************************************************)
(* A static tree whose root has lost a side has been emptied: erase does   *)
(* not update the root then, and what is left of the tree moves on.  Only  *)
(* the object median warrants that.                                        *)
(***************************************************************************)
RootKeepsBothSides ==
  Quiet /\ use = "static" /\ median = "object" => RootHasBothSides

(***************************************************************************)
(* An erase that is called returns, unless it follows a null pointer that  *)
(* erase<false> has left.                                                  *)
(***************************************************************************)
EraseEnds == pc # "idle" ~> pc \in {"idle", "crashed"}

(***************************************************************************)
(* The tests call contains on a tree on its own after erase<false> has     *)
(* removed points from it (Shared2DTest.h:54-67): no node has one child    *)
(* only, where contains and find may follow a null pointer.                *)
(***************************************************************************)
ContainsFollowsNoNull == pc = "idle" => ~RootIsHalf

=============================================================================
