------------------------------- MODULE COLayout -------------------------------
(***************************************************************************)
(* How CO_KdTree builds its nodes (cache-oblivious/cokdtree.h), into an    *)
(* array in the van Emde Boas layout: the upper levels of a tree first,    *)
(* and after them, one by one, the subtrees below, each laid out in the    *)
(* same way.  The shapes of the parts are known before they are built: the *)
(* tables of cache-oblivious/utils.h tell how many items end up below each *)
(* leaf of the upper part, and which nodes of it take the subtrees for     *)
(* children.                                                               *)
(*                                                                         *)
(* A large part is built by parallel tasks, its subtrees at offsets        *)
(* computed beforehand; below a base case a task builds serially, each     *)
(* subtree where the last one ended, in one step here.  The items are      *)
(* those of the medians' positions; their values are KdTree's business.    *)
(***************************************************************************)
EXTENDS Integers, Sequences, FiniteSets

LOCAL INSTANCE FiniteSetsExt
LOCAL INSTANCE Functions
LOCAL INSTANCE TLC

CONSTANTS
  DIM,
  Trees,                     \* [n, leaf_size]: the items built over, and
                             \* CLUSTER_SIZE if the tree coarsens, or 1
  CO_TOP_BUILD_BASE_CASE,
  CO_BOTTOM_BUILD_BASE_CASE

ASSUME BaseCaseAboveLeaves ==
  \A tree \in Trees : /\ tree.leaf_size < tree.n
                      /\ tree.leaf_size < CO_BOTTOM_BUILD_BASE_CASE

VARIABLES
  tree,      \* what is built
  parallel,  \* whether by tasks
  nodes,     \* the nodes placed, by index
  child,     \* child[x, side]: the index of a child of node x
  calls      \* of the build functions: where they stand

vars == <<tree, parallel, nodes, child, calls>>

NULL == -1

MaxSize == Max({t.n : t \in Trees})

-----------------------------------------------------------------------------
(* shapes *)

CeilLog2(n) == CHOOSE e \in 0..n : n <= 2^e /\ (e > 0 => 2^(e - 1) < n)

HyperCeiling(n) == 2^CeilLog2(n)

BottomNumLevels(num_levels) == HyperCeiling((num_levels + 1) \div 2)

TopNumLevels(num_levels) == num_levels - BottomNumLevels(num_levels)

NumLevels(n) == 1 + CeilLog2((n + tree.leaf_size - 1) \div tree.leaf_size)

NumNodesTop(num_levels) == 2^num_levels - 1

NumNodesBottom_OneMore(n) == 2 * n

NumNodesBottom(n) == 2 * n - 1

Levels == 0..(1 + CeilLog2(MaxSize))

Leaves == 0..(2^Max(Levels) - 1)

\* The lower leaf of two gets its extra item first
split_points_LeftFirst ==
  LET points[level \in Levels, leaf \in Leaves] ==
        IF level = 0 THEN 1
        ELSE points[level - 1, leaf \div 2] + IF leaf % 2 = 1 THEN 2^(level - 1) ELSE 0
  IN  points

\* split_points[level, leaf]: a leaf has an extra item from this remainder on
split_points ==
  LET points[level \in Levels, leaf \in Leaves] ==
        IF level = 0 THEN 1
        ELSE points[level - 1, leaf \div 2] + IF leaf % 2 = 0 THEN 2^(level - 1) ELSE 0
  IN  points

\* child_indices[level, p]: the lowest nodes of a full tree, from left to right
child_indices ==
  LET indices[level \in Levels \ {0}, p \in Leaves] ==
        LET bottom == BottomNumLevels(level)
            lowest == 2^(bottom - 1)
        IN  IF level = 1 THEN 0
            ELSE NumNodesTop(TopNumLevels(level))
                   + (p \div lowest) * NumNodesTop(bottom) + indices[bottom, p % lowest]
  IN  indices

-----------------------------------------------------------------------------
(* calls of the build functions *)

\* buildKdtTop or buildKdtBottom over the items [first, end), with the node
\* array at at; parent is the node its caller hangs its root below, on a side
Calls == [top : BOOLEAN, first : 0..MaxSize, end : 0..MaxSize,
          at : 0..(2 * MaxSize), dim : 0..(DIM - 1), levels : Levels,
          parent : NULL..(2 * MaxSize), side : 1..2]

Root == [top |-> FALSE, first |-> 0, end |-> tree.n, at |-> 0, dim |-> 0,
         levels |-> NumLevels(tree.n), parent |-> NULL, side |-> 1]

Size(c) == c.end - c.first

\* A split in the upper part, or a leaf
IsBase(c) == c.levels = 1

NumSubtrees(levels) == 2^TopNumLevels(levels)

Subtrees(c) == 0..(NumSubtrees(c.levels) - 1)

\* Of size items under so many levels, those in subtree i
NumInBucket(size, levels, i) ==
  size \div NumSubtrees(levels)
    + IF split_points[TopNumLevels(levels), i] <= size % NumSubtrees(levels) THEN 1 ELSE 0

LeftEndpoint(c, i) ==
  c.first + SumFunction([j \in 0..(i - 1) |-> NumInBucket(Size(c), c.levels, j)])

\* The levels of a subtree of a call with so many levels
SubLevels(top, size, levels) == IF top THEN BottomNumLevels(levels) ELSE NumLevels(size)

\* The call for the upper levels of c
TopCall(c) ==
  [c EXCEPT !.top = TRUE, !.levels = TopNumLevels(c.levels), !.parent = NULL, !.side = 1]

\* The call for subtree i of c, its nodes offset from those of c.  The pointer
\* to its root is set before it is made.
SubCall(c, i, offset) ==
  LET size == NumInBucket(Size(c), c.levels, i)
      first == LeftEndpoint(c, i)
  IN  [top |-> c.top, first |-> first, end |-> first + size, at |-> c.at + offset,
       dim |-> (c.dim + TopNumLevels(c.levels)) % DIM,
       levels |-> SubLevels(c.top, size, c.levels),
       parent |-> c.at + child_indices[TopNumLevels(c.levels), i \div 2],
       side |-> (i % 2) + 1]

SubtreeOffset_TopSized(c, i) ==
  NumNodesTop(TopNumLevels(c.levels)) +
  IF c.top THEN i * NumNodesTop(TopNumLevels(c.levels))
  ELSE SumFunction([j \in 0..(i - 1) |-> NumNodesBottom(NumInBucket(Size(c), c.levels, j))])

\* Every subtree at the bottom gets the room of the first
SubtreeOffset_EquallySized(c, i) ==
  NumNodesTop(TopNumLevels(c.levels)) +
  i * IF c.top THEN NumNodesTop(BottomNumLevels(c.levels))
      ELSE NumNodesBottom(NumInBucket(Size(c), c.levels, 0))

\* Where the tasks of c put subtree i, behind the upper levels
SubtreeOffset(c, i) ==
  NumNodesTop(TopNumLevels(c.levels)) +
  IF c.top THEN i * NumNodesTop(BottomNumLevels(c.levels))
  ELSE SumFunction([j \in 0..(i - 1) |-> NumNodesBottom(NumInBucket(Size(c), c.levels, j))])

SubCalls(c) == {SubCall(c, i, SubtreeOffset(c, i)) : i \in Subtrees(c)}

\* How many nodes buildKdtRecursive places, which it returns
NumPlaced ==
  LET placed[top \in BOOLEAN, size \in 0..MaxSize, levels \in Levels] ==
        LET below(i) == NumInBucket(size, levels, i)
        IN  IF levels = 1 THEN 1
            ELSE placed[TRUE, size, TopNumLevels(levels)] +
                 SumFunction([i \in 0..(NumSubtrees(levels) - 1) |->
                                placed[top, below(i), SubLevels(top, below(i), levels)]])
  IN  placed

\* Where a serial call puts subtree i, behind what it has placed already
SerialOffset(c, i) ==
  NumPlaced[TRUE, Size(c), TopNumLevels(c.levels)] +
  SumFunction([j \in 0..(i - 1) |->
                 LET size == NumInBucket(Size(c), c.levels, j)
                 IN  NumPlaced[c.top, size, SubLevels(c.top, size, c.levels)]])

\* buildKdtRecursive: the calls it makes, with those they make in turn
SerialCalls ==
  LET made[c \in Calls] ==
        {c} \cup IF IsBase(c) THEN {}
                 ELSE made[TopCall(c)] \cup
                      UNION {made[SubCall(c, i, SerialOffset(c, i))] : i \in Subtrees(c)}
  IN  made

\* The nodes these calls place: a split of the items at their median, or a leaf
NodesOf(made) ==
  LET at(x) == CHOOSE c \in made : IsBase(c) /\ c.at = x
  IN  [x \in {c.at : c \in {d \in made : IsBase(d)}} |->
         [first |-> at(x).first, end |-> at(x).end,
          dim |-> IF at(x).top THEN at(x).dim ELSE NULL]]

\* The pointers that are set for these calls
LinksOf(made) ==
  LET linked == {c \in made : c.parent # NULL}
      to(x) == CHOOSE c \in linked : <<c.parent, c.side>> = x
  IN  [x \in {<<c.parent, c.side>> : c \in linked} |-> to(x).at]

IsParallel(c) ==
  parallel /\ Size(c) >= IF c.top THEN CO_TOP_BUILD_BASE_CASE ELSE CO_BOTTOM_BUILD_BASE_CASE

-----------------------------------------------------------------------------

Init ==
  /\ tree \in Trees /\ parallel \in BOOLEAN
  /\ nodes = <<>> /\ child = <<>>
  /\ calls = (Root :> "called")

TypeOK ==
  /\ tree \in Trees /\ parallel \in BOOLEAN
  /\ \A x \in DOMAIN nodes :
       /\ x \in 0..(2 * tree.n - 2)
       /\ nodes[x] \in [first : 0..MaxSize, end : 0..MaxSize, dim : NULL..(DIM - 1)]
  /\ \A x \in DOMAIN child : x[1] \in DOMAIN nodes /\ child[x] \in 0..(2 * tree.n - 2)
  /\ \A c \in DOMAIN calls :
       c \in Calls /\ calls[c] \in {"called", "top", "below", "returned"}

\* A serial call, or a parallel one of a single split
Place(c) ==
  LET made == IF IsParallel(c) THEN {c} ELSE SerialCalls[c] IN
  /\ calls[c] = "called" /\ (~IsParallel(c) \/ (c.top /\ IsBase(c)))
  /\ nodes' = NodesOf(made) @@ nodes
  /\ child' = LinksOf(made) @@ child
  /\ calls' = [calls EXCEPT ![c] = "returned"]
  /\ UNCHANGED <<tree, parallel>>

\* buildKdtRecursiveParallel builds the upper levels.
BuildTop(c) ==
  /\ calls[c] = "called" /\ IsParallel(c) /\ ~(c.top /\ IsBase(c))
  /\ child' = LinksOf({c}) @@ child
  /\ calls' = TopCall(c) :> "called" @@ [calls EXCEPT ![c] = "top"]
  /\ UNCHANGED <<tree, parallel, nodes>>

\* They have been built: the tasks of the parallel loop are forked.
ForkSubtrees(c) ==
  /\ calls[c] = "top" /\ calls[TopCall(c)] = "returned"
  /\ calls' = [sub \in SubCalls(c) |-> "called"] @@ [calls EXCEPT ![c] = "below"]
  /\ UNCHANGED <<tree, parallel, nodes, child>>

JoinSubtrees(c) ==
  /\ calls[c] = "below" /\ \A sub \in SubCalls(c) : calls[sub] = "returned"
  /\ calls' = [calls EXCEPT ![c] = "returned"]
  /\ UNCHANGED <<tree, parallel, nodes, child>>

Built == calls[Root] = "returned"

\* A build that stops anywhere else is deadlocked.
Finished == Built /\ UNCHANGED vars

Next ==
  \/ \E c \in DOMAIN calls :
       Place(c) \/ BuildTop(c) \/ ForkSubtrees(c) \/ JoinSubtrees(c)
  \/ Finished

Spec == Init /\ [][Next]_vars

-----------------------------------------------------------------------------

\* The nodes a call may place
Extent(c) ==
  c.at..(c.at + (IF c.top THEN NumNodesTop(c.levels) ELSE NumNodesBottom(Size(c))) - 1)

(***************************************************************************)
(* The tasks of a build write without synchronisation.  Calls that may run *)
(* at the same time have items and nodes of their own, within the array,   *)
(* and where no node is placed yet: what the asserts on isEmpty look for,  *)
(* which a race could pass.                                                *)
(***************************************************************************)
CallsApart ==
  LET running == {c \in DOMAIN calls : calls[c] = "called"} IN
  \A c \in running :
    /\ Extent(c) \subseteq 0..(2 * tree.n - 2)
    /\ Extent(c) \cap DOMAIN nodes = {}
    /\ \A d \in running \ {c} : /\ Extent(c) \cap Extent(d) = {}
                                /\ c.end <= d.first \/ d.end <= c.first

\* The nodes below node x, as records that hold their children
TreeAt ==
  LET at[x \in DOMAIN nodes] ==
        [first |-> nodes[x].first, end |-> nodes[x].end, dim |-> nodes[x].dim,
         children |-> IF nodes[x].dim = NULL THEN <<>>
                      ELSE <<at[child[x, 1]], at[child[x, 2]]>>]
  IN  at

\* The tree of the medians: the smaller half left, the dimensions in turn
MedianTree ==
  LET median[first \in 0..MaxSize, end \in 0..MaxSize, dim \in 0..(DIM - 1)] ==
        LET mid == first + (end - first) \div 2
            next == (dim + 1) % DIM
        IN  IF end - first <= tree.leaf_size
              THEN [first |-> first, end |-> end, dim |-> NULL, children |-> <<>>]
              ELSE [first |-> first, end |-> end, dim |-> dim,
                    children |-> <<median[first, mid, next], median[mid, end, next]>>]
  IN  median[0, tree.n, 0]

(***************************************************************************)
(* The tree that has been built is the one the medians split the items     *)
(* into: the buckets of the tables are the halves the top part has really  *)
(* made, every subtree hangs below the node that splits its items off, and *)
(* it splits by the dimension that follows.  The debug checks at the end   *)
(* of a build compare the counts of left and right only.                   *)
(***************************************************************************)
BuildsMedianTree == Built => TreeAt[0] = MedianTree

(***************************************************************************)
(* Without coarsening, the layout does not depend on how it was built: the *)
(* offsets that tasks compute beforehand are those at which a serial build *)
(* arrives, and leave no gap in the array.                                 *)
(***************************************************************************)
LayoutIsSerial ==
  Built /\ tree.leaf_size = 1 =>
    /\ nodes = NodesOf(SerialCalls[Root]) /\ child = LinksOf(SerialCalls[Root])
    /\ DOMAIN nodes = 0..(2 * tree.n - 2)

=============================================================================
