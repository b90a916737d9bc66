# TLA+ models of the batch-dynamic kd-tree

The repository implements a *batch-dynamic* kd-tree: a logarithmic structure
(`LogTree`) made of one small dynamic tree and a sequence of static kd-trees of
doubling capacity, and the static and dynamic trees it is built from.
Operations take batches of points. The caller runs one operation at a time;
inside an operation the work is forked with ParlayLib and joined before the
operation returns.

This directory holds TLA+ modules for the parts listed below, TLC
configurations that check them on small instances, and TLAPS proofs of what
holds for every instance. `PROJECT.json` lists the runs, the mutations of the
model that show what each property can see, the source lines each definition
models, the hazards and the findings.

Paths below are under `src/include/kdtree/`.

## Inventory

| Component | Source | State | Operations | Modelled by |
|---|---|---|---|---|
| Insert planner | `log-tree/logtree.h:146-238` | the locals of `insert`: masks, indices, moves | the two nested loops that simulate an insertion on sizes | `InsertPlan`, proved |
| LogTree updates | `log-tree/logtree.h:146-497, 1164-1170` | `tree_mask`, `buffer_tree`, `static_trees` | `insert`, `erase`, `bulk_erase`, `size` | `LogTree`, proved |
| LogTree queries | `log-tree/logtree.h:715-1158` | none of their own | `contains`, `orthogonalQuery`, `gatherFullTrees`; `knn`, `knn2`, `knn3`; `dualKnnBase` | `LogTree`, `KnnSearch`, `DualKnn`, proved |
| KdTree | `shared/kdtree.h`, `shared/kdnode.h` | nodes, `items`, `present`, `cur_size`, `build_size` | `erase`, `bulk_erase`, `contains`, `find`, `moveElementsTo`, `clear`, range query | `KdTree`, proved; its knn in `KnnSearch` and `DualKnn` |
| Binary-heap tree | `binary-heap-layout/` | the same | `build`, `insert`, `bulk_erase` | `KdTree`, `FilteredTree`, proved |
| Cache-oblivious tree | `cache-oblivious/` | the same, laid out otherwise; two global tables | `build`, `insert`, `bulk_erase` | `COLayout`, `FilteredTree` |
| Partitioning | `shared/utils.h` | none | medians, partitions | by what they guarantee, in `KdTree` |
| Bloom filter | `shared/bloom.h` | cells | `build`, `insert`, `clear`, `filter` | `FilteredTree`, proved |
| knn buffer and search | `shared/knnbuffer.h`, `shared/kdnode.h:314-437` | candidate array | `insert`, `keepK`, `knnHelper`, `knnPrune` | `KnnBuffer`, `KnnSearch`, proved |
| Dual-tree knn | `shared/dual.h`, `shared/kdnode.h:91-167` | `dualKnnDist` of the query nodes | `DualKnnHelper`, `updateDualDist` | `DualKnn`, proved |
| Boxes | `shared/box.h` | none | `boxCompare`, `itemInBox`, distances of boxes | in `KdTree`, `KnnSearch`, `DualKnn` |
| LogTreeBuffer | `log-tree/buffer.h` | array and flags | an alternative buffer tree | not: no program can select it |
| Macros, benchmarks, executables, vendored code | `shared/macro.h`, `src/benchmark`, `src/executable`, `src/utils/external` | none | | not: no state of their own, or drivers |

How they interact: `LogTree::insert` calls `moveElementsTo` and `build` of the
static trees and `insert` of the buffer tree, from parallel tasks;
`LogTree::erase` calls `bulk_erase` of every tree in parallel, empties the
trees that are at most half full, and calls `insert` with what was in them.
knn and the dual-tree query ask the buffer and the trees that `tree_mask` names;
`contains` and `orthogonalQuery` ask all trees. A static tree is a cache-oblivious
tree, or a binary-heap tree if the build selects the spatial median; the buffer
is a binary-heap tree. Where a build has bloom filters, every tree has one,
filled by a task that runs beside the one that builds the tree.

What is hard here: the parallel tasks of `insert` are kept apart only by what
the sequential planner has computed, and those of a cache-oblivious build by
tables and offsets computed beforehand; a tree may be half empty while the
planner counts it as full; `erase` takes points out of trees before it knows that
they fit back in; sizes read before a fork are used inside it; kd-tree nodes are
cut out in parallel while the root is left alone; a tree that was emptied and one
that was never built look alike; knn prunes by radii and boxes that were right
some time ago, and the dual-tree query by distances that other tasks set, and may
lower between a comparison and the use of what it chose; a filter may be cleared after points have been set in it. Nothing persists and
nothing is retried: there are no crashes, timeouts or messages to model.

What makes each component correct:

- planner: its asserts hold; a move is made exactly for the trees whose bit
  changes; the slices of the moves and the remainder partition the batch; what
  is left fits into the buffer tree; it throws exactly when the trees are full.
- LogTree: it implements a set of points, whatever the interleaving; the mask
  says which trees hold points, and those are more than half full; a tree is
  empty when it is built into; the reinsertion of `erase` never throws; all
  queries see the same points, each once.
- KdTree: after any erases it holds and finds the points put in and not erased;
  a node returned by a parallel erase stands for all that is left below it.
- cache-oblivious build: tasks write apart, and the tree is that of the medians
  in the layout a serial build makes.
- bloom filter: between operations it knows every point of its tree.
- knn: the answer is the k nearest points, or `keepK` throws because a tree is
  too small; the buffers never overflow.
- dual-tree knn: the same answer; `dualKnnDist` is a bound at every moment, never
  rises, and no two tasks of a search write the same query node.

## Modules

`InsertPlan` is the loop of `insert` that works on sizes only, one action per
branch of the nested loops: `Start` (the overflow computation and the masks),
`KeepTree`, `OpenMove` (a tree becomes full: a move starts), `PassTree` and
`GatherTree` (inner loop), `CloseMove`, `Finish`. Its variables are the locals
of the code. `Pow2` is a constant function with the defining property of powers
of two.

`PointSet` is the abstract specification: a set of points, and an insert that
has been called and may still take effect or throw.

`LogTree` composes the planner, INSTANCEd on the variables of `LogTree`, with
the execution of the plan and with `erase`. A static tree is the set of the
points present in it. An insert goes `InsertBegin`, the steps of the planner,
`BeginRebuild` (or `InsertThrows`), then in any order `FillBuffer`
(`fill_buff_f`) and, for each move, `StartMove`, `GatherPart` once per part and
`BuildTree` (`rebuild_static_f`), then `EndRebuild`. An erase goes
`EraseBegin`, `EraseFromTree` once per full tree in any order, `EndPhase1`,
`ScanTree` for each tree, `EmptyTree` for each depleted one in any order, and
`Reinsert`, which starts the planner again. `Contains`, `OrthogonalQuery`, `Size`
and `FullTrees` are the queries, as functions of the state. `ImplementsPointSet`
says that this implements `PointSet` under the mapping `contents <- Contents`,
`pending <- Pending`.

`KdTree` is one kd-tree with its nodes, as the binary-heap layout builds it.
`Build` makes the nodes, in any of the ways the medians allow: for the object
median as a heap, for the spatial one in preorder with a gap below each left
child. A bulk erase is a tree of calls: `Fork(n)` partitions the points at an
inner node and forks both halves, `EraseLeaf(n)` is `bulk_erase_leaf`, `Join(n)`
relinks what both halves return; `EndBulk` is the subtraction at the end, and
`AfterErase` what the owner does next: a LogTree empties a depleted static tree,
a tree on its own is built again. `use` tells static trees, buffer trees and trees
on their own apart. `EraseOne(p)` is `erase(p)`, with `RemoveLeaf`. `Contains`
and `RangeQuery` are functions of the state.

`COLayout` is how a cache-oblivious tree gets its nodes into the van Emde Boas
layout. A call of `buildKdtTop` or `buildKdtBottom` is a record of its arguments.
A parallel call goes `BuildTop` (the upper levels), `ForkSubtrees`, in parallel
the calls of the subtrees at precomputed offsets, `JoinSubtrees`; a serial call,
below a base case, is one step, `Place`, which puts each subtree where the last
one ended. `split_points` and `child_indices` are the global tables.

`FilteredTree` is a tree beside a bloom filter, for the four owners that keep
one: both trees with `ALL_USE_BLOOM`, and a LogTree's static and buffer trees with
`LOGTREE_USE_BLOOM`. An operation is a task of the tree (`MoveToGather`,
`Cleared`, `Build`) and one of the filter (`FillFilter`, `Set`, `EndFilter`), which
overlap as in the code; `Clear` and `Set` go cell by cell. It implements
`PointSet` too.

`KnnBuffer` is the candidate buffer, as operators: `Put`, `Insert`, `KeepK`.
`nth_element` leaves a choice among equally far points, so `KeepK` is a set of
buffers. `QueryTrees` has the kd-trees that a query may meet, after any legal
erase, as records. `KnnSearch` is a query for one point: each tree's search keeps
the calls still to be made on a stack (`KnnHelper`, `OtherChild`, `KnnPrune`), and
`Add` inserts the points of a `knnAddToBuffer` one by one. `Finish` is the last
`keepK`, and in the serial variants the preloaded call on the next tree;
`Combine` merges the trees of a parallel knn. The template parameters `update`
and `recurse_sibling` and the variant are chosen at the start.

`DualKnn` is the dual-tree query in the three values of `DUAL_KNN_MODE`, on a
LogTree or on one tree. A call is on a pair of nodes, and it makes its own calls
in phases: those of a phase are parallel tasks (`Recurse`, `Join`). `Prune`
compares with `dualKnnDist`, `Relax` is a pair of leaves, and `SetDist`, a step
of its own, stores a distance computed before. With `ATOMIC_LEAF`, trees that are
searched in parallel set the distances of the same nodes (`SharesDists`). There the
distances of the two children are loaded by two steps, `Read`, and `ChildrenDist`
compares what was read: `updateDualDist` takes the larger of the two values, while
the `std::max` of `DualKnnHelper` returns a reference to the larger atomic, which is
loaded once more in the step `Join`. Everywhere else nobody may set them in the
meantime (`OneWriter`), and the loads are part of `Join`. `SearchBufferTree` and the calls of
`updateDualDist` bring the distances up to date after the buffer tree has been
searched in the ordinary way; `Return` combines the trees.

The modules `MC...` give the constants of the runs. The modules `..._proofs` hold
the proofs: `InsertPlan_proofs` and, on top of it, `LogTree_proofs`; `KdTree_proofs`;
`FilteredTree_proofs`; `KnnBuffer_proofs` and, on top of it, `KnnSearch_proofs` and
`DualKnn_proofs`; and `Counting_proofs`, what they share: induction, sums over
finite sets, sizes of disjoint unions.

## Runs

| Run | Instance | Shows |
|---|---|---|
| `plan` | 4 trees, buffer of 4, every mask, buffer size and batch size 0..72 | the properties of the planner (46,454 states) |
| `logtree` | 3 trees, buffer of 2, 14 points; batches are runs between cuts | `LogTree` implements `PointSet` under every interleaving, with several moves at once and moves of several parts; mask, sizes and queries agree; the reinsertion never throws; operations end (223,694 states) |
| `buffer_hidden` | 1 tree, 3 points | violation: points inserted into an emptied buffer tree are not found |
| `kdtree` | static trees of capacity 8, built over 5 to 7 points, with leaves of 2 and of 1, one split at the spatial median; a buffer tree and trees on their own of capacity 4 over 5 points, under any inserts; erases of up to 2 points and of all | erases lose nothing, queries are exact, every call returns what stands for the rest, static trees keep both sides of the root, erases end (207,844 states) |
| `kdtree_null_child` | a tree on its own | violation: `erase<false>` leaves a null child that `contains` follows |
| `kdtree_ties` | 4 points, two with an equal coordinate | violation: a point built into the tree is not found |
| `knn` | k = 2; a buffer tree of 2 and trees of 2 and 4 points, or one tree of 8, with every legal erase, in all modes | knn, knn2 and knn3 are exact, or throw on a small tree; nothing nearer is pruned (306,176 states) |
| `dual` | k = 2, 3 query points; three LogTrees and two single trees, in the three modes | answers and bounds, unless searches share the distances, and writers in all modes, under every interleaving of the tasks (79,052 states) |
| `dual_atomic` | k = 1, 2 query points, three static trees, in parallel with `ATOMIC_LEAF` | violation: a query point does not get its nearest point |
| `layout` | trees of 2 to 20, 33 and 38 items, and of 4 to 26 with leaves of 3, serial and by tasks | tasks are apart; the tree is that of the medians; the layout is that of a serial build (12,674 states) |
| `filter` | 3 points, 2 arrays of 2 cells that they share; all owners but `BHL` | no filter forgets a point of its tree (2,391 states) |
| `filter_bhl` | the same, a binary-heap tree with `ALL_USE_BLOOM` | violation: after an insert, a bulk erase may miss points |

Why the bounds are enough. The planner's branches depend on two bits of each mask
and on the slack; four trees have every combination of neighbouring bits, a move
over several trees, and more than one move. Three static trees are the least for
two moves side by side and for a move that gathers two static trees. The batches
of the run `logtree`, inserted and erased in any sequence, are runs between cuts
that were chosen so that the sizes cross the thresholds: a batch goes into the
buffer alone, spills over it, fills one tree or several; erases leave a tree more
than half full, just at half, and empty; an insert may not fit at all. A kd-tree
of six points has three levels of inner nodes when leaves hold one point: a node
cut out has a parent and a grandparent that is not the root. Batches of up to two
points, repeated, reach every set of points erased; the batch of all points is
added. The points of the spatial tree have one far from the others, so that the
root can lose a side while the tree is more than half full. For knn, k = 2 lets a
buffer of 2k fill and be cut down more than once. Three query points make a query
tree of a leaf and an inner node below the root, the least in which tasks of both
kinds of pairs meet. `dual_atomic` needs three trees: one that brings the left
query its first candidate, one that lowers the right child's distance in the
moment between comparison and load, and one that is pruned. A layout of 33 or 38
items has parts within parts, built by tasks; with the base cases of 4 and 6,
smaller ones are built by tasks above and serially below. In the filter, points
share cells in one array and not in the other. In all of these, the points of a tree
share no coordinate unless the run says so: `kdtree_ties` shows what happens otherwise. In
`knn` several points are equally far from a query point.

Fairness. In `LogTree` and `KdTree` an operation that was called goes on,
`WF(Step)`, because ParlayLib's work-stealing scheduler runs every forked task and
the tasks do not wait for each other but at joins; the caller may stop calling.
`OperationsEnd` and `EraseEnds` need no more than that, and the first includes
that the planning loop ends. The other modules assume none: the two
queries, the layout and the filter are checked for deadlock instead, which is how
a task that is waited for in vain would show.

Deadlock is checked in `knn`, `dual` and `layout`, where a step `Ended` or
`Finished` marks the states in which the call has returned, and in `filter` and
`buffer_hidden`, where the caller can always go on. It is off where the model
stops by design: after the one insertion of `InsertPlan`, when a caller of
`LogTree` has nothing left to insert or is followed no further, and when a tree
on its own has followed a null pointer.

## Proofs

`InsertPlan_proofs` proves, for every number of trees, buffer size, mask,
buffer content and batch: `TypeCorrect`, `AssertsNeverFail`,
`MovesFollowMasks`, `SlicesAreDisjoint`, `RemainderAlwaysFits`,
`ThrowsExactlyWhenFull` and `MovesFillTheirTrees`. The assumptions are `NumTreesAssumption`,
`BufferSizeAssumption` and `Pow2Assumption` (the recurrence of powers of two),
and that batch sizes are natural numbers; TLC evaluates them in the run `plan`.

None of the properties is inductive. `IInv` adds what the loop maintains:

- `SumInv`: when the loop looks at tree i, `full_buffers` is what the low i+1
  bits of the new mask have over those of the old one (`Gain`), plus, if the
  new mask has bits past the last tree, a slack of at least 2^(i+1). This is
  why the asserts hold, and it needs the arithmetic of low bits (`LowBits`),
  which is derived from division by powers of two.
- `PointsInv` and `SlicesInv`: `cur_points_end` is what the finished moves have
  taken from the end of the batch, and each move's slice starts where the next
  one's ends; that is why slices never overlap.
- `TreesInv` and `GatherInv`: every tree already passed appears in the moves
  exactly as its two bits say, and the trees gathered for the open move are
  those since it was opened.
- `PcInv` and `TypeOK` tie the program counter to the values of the locals.

`NextIInv` has one lemma per action.

`LogTree_proofs` proves, for every number of trees, buffer size, finite set of
points and set of batches, and every interleaving: `LogTreeRefines` (LogTree
implements `PointSet`), `TypeCorrect`, `EraseIsSafe`, `BufferNeverOverfull` and
`SlotsAlwaysRight`. The assumptions are those of the planner and
`PointsAssumption`. The planner's invariant is used, not proved again: `PP` is
`InsertPlan_proofs` instantiated on the variables of `LogTree`, and `PlanGoesOn`
carries it through a plan. `LInv` adds:

- `MaskInv`: a tree whose bit is clear is empty, outside of a rebuild or the end
  of an erase; no bit lies past the last tree.
- `PlanInv`: while an erase plans its reinsertion, the points to reinsert are at
  most what the cleared bits leave room for (`RoomIsEnough`); this is why that
  insert never throws.
- `RebuildInv`, with `TasksInv` and `EmptyInv`: which part of which move is where;
  a tree built by a move is empty until then, and one gathered by a move is not
  touched by another, because the moves follow the masks.
- `EraseInv` and `SlotsInv`: the same for the trees that an erase empties, and
  the room reserved for each.

Under `BatchesAssumption` as well (a batch has no point twice) it proves what the
planner's arithmetic is for:

- `EveryPointOnce`: no point is in two of the places where the code holds points
  in the middle of a rebuild: trees, gathered arrays, parts on their way, the
  slices of the batch not gathered yet. The invariant `PlacesInv` adds that the
  batch has no point of the trees. Each step takes what it moves out of one place
  and puts it into another (`MovedOnce`, `HeldShrinks`).
- `SizesMatchMask`: a tree whose bit is set is more than half full and not
  overfull, a tree whose bit is clear is empty. By `EveryPointOnce` the size of a
  gathered array is the sum of those of its parts. `MovesFillTrees` says that the
  nominal sizes of the parts of a move add up to that of its new tree, and
  `SizesInv` keeps for every move in progress that what it has gathered
  `CountsFor` what its parts had nominally: more than half of that, and not more.
- `BuildsAreRight`: `build` is called on an empty tree, with points that fit and
  are more than half of it.
- `QueriesAgree`: `contains` and `orthogonalQuery`, which ask all trees, and knn,
  which asks those of the mask, see the same points.

Induction. The library's theorem takes an operator as a parameter, which no prover
here can instantiate. `Counting_proofs` states induction for sets, of naturals
(`NatSetInduction`) and of the subsets of a finite set (`SubsetInduction`), from the
well-foundedness of `<`. To show what a recursive function computes, the proofs
first show that some function satisfies its equation on every domain, by such an
induction, and then that CHOOSE picks one; this is done for `Cost`, `Nodes`,
`StaticTrees`, the sums of `Functions`, and in `KdTree` for `Builds`, `Walk`,
`LeavesBelow` and `RangeQuery`.

`KdTree_proofs` proves, for every dimension, size of leaves, finite set of kinds of
trees (static, buffer or on its own; any capacity that is a power of two), points
and batches, for both medians, whatever each median leaves open, and every
interleaving of the calls of a bulk erase: `InvHolds`, `TypesAreKept` (`TypeOK`),
`HeldExactly` (`HoldsExactly`), `ContainsIsExact`, `RangeQueryIsExact`,
`LeavesAreExact`, `ReturnedStands` (`ReturnedHoldsTheRest`) and `RootKept`
(`RootKeepsBothSides`). The assumptions are `DimAssumption`, `Pow2Assumption` and
`KindsAssumption`, which TLC evaluates in the run `kdtree`; each theorem has the
hypothesis `NoTies` besides: no two points that a tree splits at the object median
may hold share a coordinate. It is needed, as `kdtree_ties` shows, and the trees of
the run `kdtree` meet it. The invariant `Inv` has these parts:

- `TreeInv`: what stays true of a tree that has been built while nodes are cut out
  of it. A child's slice of the items is a proper part of its parent's, left of the
  slice of the other child, and its points are on its side of the split
  (`LinksInv`). A present point of a node is in its box and in the slice of one of
  its children (`CoverInv`): this is what no `Join` or `RemoveLeaf` may lose, since
  they hang grandchildren in place of children. Only the root may have one child
  (`HalfInv`). Leaves share no item (`LeavesApart`), and count their present points
  and have their box (`LeafInv`). A slice never changes after the build, so
  "below" is inclusion of slices (`Inside`) and no proof follows pointers.
- `CountInv`: `cur_size` is the number of present items and of those that returned
  calls have still to subtract. `HeldInv`: a present point is held, or a call that
  has not begun has it among those to erase.
- `CallsInv`: of two calls of a bulk erase, one works on what the other has forked
  (`Over`), or their slices share nothing (`Apart`). So an erase of a leaf changes
  nothing that another call has returned.
- `RetInv`: what a call has returned stands for its node (`StandsFor`): it is null
  if no point is left, and otherwise a node inside with all the points that are,
  and the nodes reached from it all have points and are reached in one way only
  (`FullTree`). `Join` builds the tree of a node from those of its two sides.
  `FullInv` says this of the root between operations, with the exception for a
  LogTree's tree that has lost a side.

That builds meet `TreeInv` is an induction over the sizes of the slices for the two
layouts of the nodes (`Builds`), and that the queries are exact is one over the
slices below a node. `RootKept` needs that a static tree is more than half full
when an erase has ended (`IsDepleted`) and that no side of its root has more than
half the capacity (`SidesInv`). TLC checked the parts of `Inv` on the instance of
the run `kdtree`.

`FilteredTree_proofs` proves, for every hash, size of the filter, set of points
and set of batches, and for every owner but `BHL`: `FilterRefines` (the tree with
its filter implements `PointSet`), `FilterKnowsTree` and `TypeCorrect`. The
assumptions are `ArraysAssumption`, `HashAssumption` and `BatchesAssumption`. The
inductive invariant says that a clear never runs beside an insert or another clear
(`ClearsApart`), so that the cells that will be set when the filter's task has
ended cover all the points in the tree and on their way into it (`FilterCovers`).
It is just this that `BHL_KdTree` breaks.

`KnnSearch_proofs` proves, for every dimension, size of leaves, k, finite set of
query points and set of LogTrees, for knn, knn2 and knn3, serial and parallel,
and for every order of the tasks: `InvHolds`, `TypeCorrect` (the buffers never
overflow), `SearchesAreExact` (`SearchExact`), `KnnIsExact` (`KnnExact`) and
`ThrowsAreRight` (`ThrowsOnlyOnSmallTree`). The assumptions are `DimAssumption`,
`LeafSizeAssumption`, `kAssumption`, `QueriesAssumption` (finitely many query
points, with integer coordinates) and `LogTreesAssumption`: finitely many points
with integer coordinates, of which no two trees of a LogTree share one. That is
what `EveryPointOnce` proves of a LogTree. The argument:

- A point that was seen and not kept has k kept points as near (`Nearest`). This
  stays true when more points are seen, and when `keepK` drops the farthest
  (`KeepKCuts`), so it suffices to keep it step by step.
- The calls still to be made hold the points not seen yet, and no point is below
  two of them (`Apart`), so that no point is inserted twice.
- When a search has a radius, k kept points are within it. The box of a node holds
  its points (`NodesAreSound`), so what a prune leaves out is farther than the
  radius (`ExcludesFar`), and has k kept points as near too.
- The trees are searched one after the other or side by side. `SerialInv` and
  `ParallelInv` say which buffers have been combined, and that the preloaded
  buffer of a serial search is `Nearest` for all the trees searched before it.

Lemmas about a buffer (`InsertIs`, `KeepKIs`, `FirstKIs`) and about the trees
(`NodesHold`, `HalvesAreSmaller`) are in `KnnBuffer_proofs`. The theorems cover
points with equal coordinates, of which any may have been built to the left.

`DualKnn_proofs` proves, for every dimension, size of leaves, k, set of query sets
and of trees, in the three values of `DUAL_KNN_MODE` and for every order of the
tasks: `InvHolds`, `TypeCorrect`, `WritesAreApart` (`OneWriter`), `DistsAreBounds`
(`DistIsBound`), `DistsNeverRise` (`DistNeverRises`) and `AnswersAreExact`
(`DualKnnExact`). Answers are exact unless searches share the distances
(`SharesDists`), where finding 5 shows that they need not be; there only the
distances of the leaves are bounds. The other theorems hold without that condition. The assumptions are those on the dimension, the leaves and k, and
`QueriesAssumption`, `TreesAssumption` and `LogTreesAssumption`: finitely many
points with integer coordinates; query sets and trees are not empty, a half cut off
a root was; a LogTree holds at least k points. Of the nodes only their `Shape`
is used, which `NodesByPathIs` shows of the nodes of any tree: a node has the points
of its children, and they are in its box. `IInv` is not about the order of
steps anywhere; its parts are:

- `CallsInv`: of two calls of a tree that have not returned, one waits for a call
  that the other is, or is below, or neither of their query nodes is below the other
  (`NoneCross`). A call that goes on waits for nobody, so whatever is
  at or above its query node waits for it (`OthersOfIdle`). That is `OneWriter`, and
  it also says that when the root returns all calls have (`RootLast`).
- `DistInv` and `RadiusInv`: k candidates of each query below a node are within its
  distance, and within the one a call is about to set (at a leaf only, where the
  searches share distances). Candidates are only dropped
  for nearer ones (`Grows`), so this stays true however old the value is.
  `DistNeverRises` needs more where it is not set with a minimum: a distance is
  never below the radii or the children's distances it is made of (`NotBelow`), and
  nobody else sets it between the read and the write (`OtherRadius`). With
  `ATOMIC_LEAF` neither need be so. Where no searches share the distances a `Join`
  takes the larger of the children's as they are, so that the bound of an inner node
  follows from theirs.
- `CoverInv`: a point is a candidate of a query, or k candidates are as near
  (`Settled`), or a call is yet to look at the two or to make a call for them
  (`Pending`). A prune settles what it leaves out, by `DistInv` and because boxes
  are no farther than their points (`BoxesAreNearer`). `Settled` asks for nothing
  where searches share the distances.
- `BuffersInv` and `OrderInv`: a buffer with k candidates has just k and knows its
  farthest; trees that share buffers are searched in order; those of the buffer tree
  are filled before `updateDualDist` looks at them.

Only model-checked: everything about `COLayout`, whose sizes run to three levels of
parts within parts. (A proof of `CallsApart` would need that `split_points` gives
the extra items of a remainder to just as many subtrees, so that the buckets add up
to the call's items, and a bound on the nodes of a serial call; `BuildsMedianTree`,
what both tables compute. None of it has been tried.) Also that the tasks of a
dual-tree query never wait for each other, which is the deadlock check of `dual`; and
all liveness, `OperationsEnd` and `EraseEnds` (TLAPS has no fairness or ENABLED).

## Findings

Each is a run that expects a violation.

1. `buffer_hidden`: `LogTree::erase` can erase the last point of the buffer tree
   without clearing it; the next insert takes it for a fresh tree, builds it
   with `present` entries still FALSE, and those points count in `size()` but
   no query finds them (`bhlkdtree.h:215`).
2. `kdtree_null_child`: `erase<false>` may leave the root with a null child that
   `contains` and `find` follow (`kdtree.h:504`). In a LogTree the root is
   left alone, and this does not happen.
3. `kdtree_ties`: points equal to a split value may be built left of it, while
   every search goes right (`kdtree.h:198`).
4. `filter_bhl`: with `ALL_USE_BLOOM`, `BHL_KdTree::insert` sets the new points in
   the filter while the rebuild clears it, and does not build it again over the
   old ones; a later `bulk_erase` filters points out that are in the tree
   (`bhlkdtree.h:236`).
5. `dual_atomic`: with `ATOMIC_LEAF`, a LogTree that searches its trees in parallel
   sets the distance of a query node with `std::max` of two atomics, which are loaded
   to compare them; the larger is loaded again. Another search may have lowered
   it by then, and the node's distance falls below what the other child's queries have
   found: trees with nearer points are pruned (`dual.h:177` and `207`). In the run
   left has 17 and right 40 when they are compared, right has 1 when it is loaded,
   the root gets 1, and the left query's nearest point is not looked at.

After 1 and 2 the models follow the caller no further (`CallerGoesOn`); what
they check holds up to there.

Met on the way, and not findings, because nothing that the repository promises
fails in a release build:

- A buffer tree over one point, and a `bulk_erase<true>` of all the points of a
  tree, fail asserts of a debug build (`bhlkdtree.h:123` and `135`).
- erase leaves the root alone when one side of it has been erased, because the
  rest "will definitely be moved" (`kdtree.h:497-499`). That is so for static
  trees at the object median (`RootKeepsBothSides`); a buffer tree, or a static
  tree split at the spatial median, may keep the empty side. The run `kdtree`
  shows that erases and queries are right all the same.
- With the spatial median, points that agree in the split dimension all go to one
  side; a debug build fails an assert (`bhlkdtree.h:67`), a release build makes a
  leaf over nothing.
- A buffer tree with fewer than k points makes a knn throw, except `knn3`, which
  searches it last, even if the LogTree holds enough points; a TODO at
  `kdtree.h:279` half expects it. `ThrowsOnlyOnSmallTree` says that this is the
  only way.

## Abstractions

- Sizes are unbounded integers. The code uses `int` and `size_t`; no
  configuration of the tests or benchmarks gets near 2^31.
- In `LogTree` and `FilteredTree` points have no coordinates, and those of a batch
  are distinct and new. Duplicates are not modelled.
- The tasks of a parallel tree are modelled; with `parallel` false, or below
  the serial base cases, the code runs them in one of the orders the models have.
- The order of points in a leaf is fixed, and bulk erase partitions sets.
  Medians are modelled by what `nth_element`, sorting and partitioning guarantee.
  Coordinates are even integers, which makes the middle between two exact.
- Costs in the knn modules are squared distances, which keeps them integers and
  the comparisons with boxes exact. Their trees are those `KdTree` leaves
  (`LeavesExact`, `RootKeepsBothSides`) with the object median; of points with the
  coordinate of the median, any may be on the left.
- In `KnnSearch` and `DualKnn` the boxes of a tree, also of a buffer tree, may be
  tight or those of the build: an erase leaves some as they were.
- Atomics are sequentially consistent: the stores of `update_dual_knn_dist` are
  relaxed, but each is to one distance, which only falls.
- In `DualKnn` a pair of leaves is relaxed in one step, and so is the ordinary
  search of the buffer tree that comes first, whose answer `KnnSearch` checks.
  No task but the one at work touches these buffers (`OneWriter`).
- In `COLayout` items are positions; a serial build is one step.
- The cells of a filter are atomic, as `bloom.h` selects.

## Not modelled

- `LogTreeBuffer`: `macro.h:37` sets `LOGTREE_BUFFER` to `BHL_BUFFER`, and with
  the other value `LogTree` does not compile (it passes two arguments to a
  constructor of one, `logtree.h:97`).
- The filling of the layout tables: the constructor of the first cache-oblivious
  tree does it, before any build, and `COLayout` has them as constants.
- `verify`, the statistics, the debug checks and printing, and the timers.
- The benchmarks and executables, which call one operation at a time; `ParlayLib`
  and the vendored utilities, of which the models use that a fork is joined and
  that packing, sorting and selecting do what they say.

## Plan

Done: the modules above, in the order planner, LogTree, KdTree, knn, and
then the dual-tree query, the layout and the filter; the proofs of the planner,
of LogTree, of the kd-tree, of the filter and of the three kinds of searches. What
is left is a proof about `COLayout`.
