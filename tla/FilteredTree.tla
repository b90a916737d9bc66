----------------------------- MODULE FilteredTree -----------------------------
(***************************************************************************)
(* A tree with a bloom filter beside it (shared/bloom.h), which bulk_erase *)
(* asks which of its points the tree may hold.  With ALL_USE_BLOOM every   *)
(* KdTree owns a filter: clear clears it, and a build fills it, in         *)
(* parallel with the making of the nodes.  With LOGTREE_USE_BLOOM it is    *)
(* LogTree that keeps filters, of its buffer tree and of its static trees. *)
(*                                                                         *)
(* The tree is the set of the points in it.  An operation is run by a      *)
(* task for the tree and one for the filter, which may overlap.  Cells are *)
(* atomic; clear and insert go through them in parallel.  set looks at a   *)
(* cell before it stores, which changes nothing: a cell it finds set may   *)
(* as well be set by it.                                                   *)
(***************************************************************************)
EXTENDS Integers, Sequences

LOCAL INSTANCE Functions

CONSTANTS
  NUM_ARRAYS, num_buckets,
  XXH64(_, _),     \* XXH64(p, j), the hash of point p for array j
  Owners,          \* "BHL" and "CO": trees of these layouts with ALL_USE_BLOOM;
                   \* "static" and "buffer": trees of a LogTree with its filters
  Points,
  InsertBatches, EraseBatches  \* as in PointSet

ASSUME ArraysAssumption == NUM_ARRAYS \in Nat /\ num_buckets \in Nat \ {0}

ASSUME HashAssumption == \A p \in Points, j \in 1..NUM_ARRAYS : XXH64(p, j) \in Nat

ASSUME BatchesAssumption ==
  /\ \A new \in InsertBatches : Range(new) \subseteq Points
  /\ EraseBatches \subseteq SUBSET Points /\ Points \in EraseBatches

VARIABLES
  owner,
  op,           \* the operation running, "none", "insert" or "erase"
  present,      \* the points in the tree
  gathered,     \* points that have been moved out to build the tree again
  batch,        \* new points to be built into the tree
  tree_at,      \* where the task of the tree stands
  filter_at,    \* where the task of the filter stands
  to_clear,     \* to_clear[task]: the cells a clear has still to reach
  points_copy,  \* what the filter is built over
  to_set,       \* the cells an insert has still to set
  buckets       \* the cells that are set

treeVars == <<present, gathered, batch>>
filterVars == <<points_copy, to_set>>
vars == <<owner, op, treeVars, tree_at, filter_at, to_clear, filterVars, buckets>>

Cells == (1..NUM_ARRAYS) \X (0..(num_buckets - 1))

hash_Raw(p, j) == XXH64(p, j)

hash(p, j) == XXH64(p, j) % num_buckets

CellsOf(S) == {<<j, hash(p, j)>> : p \in S, j \in 1..NUM_ARRAYS}

might_contain(p) == \A j \in 1..NUM_ARRAYS : <<j, hash(p, j)>> \in buckets

filter_Negated(S) == {p \in S : ~might_contain(p)}

filter(S) == {p \in S : might_contain(p)}

\* KdTree owns the filter.
OwnsFilter == owner \in {"BHL", "CO"}

-----------------------------------------------------------------------------

\* The cells of a LogTree's filters are not initialised.
Init ==
  /\ owner \in Owners
  /\ op = "none"
  /\ present = {} /\ gathered = {} /\ batch = {}
  /\ tree_at = "none" /\ filter_at = "none"
  /\ to_clear = [task \in {"tree", "filter"} |-> {}]
  /\ points_copy = {} /\ to_set = {}
  /\ buckets \in IF OwnsFilter THEN {{}} ELSE SUBSET Cells

TypeOK ==
  /\ owner \in Owners /\ op \in {"none", "insert", "erase"}
  /\ present \in SUBSET Points /\ gathered \in SUBSET Points /\ batch \in SUBSET Points
  /\ tree_at \in {"none", "move", "clear", "build"}
  /\ filter_at \in {"none", "waiting", "clear", "insert"}
  /\ to_clear \in [{"tree", "filter"} -> SUBSET Cells]
  /\ points_copy \in SUBSET Points /\ to_set \in SUBSET Cells
  /\ buckets \in SUBSET Cells

-----------------------------------------------------------------------------
(* the calls *)

BuildFilter(S) ==
  /\ filter_at' = "clear" /\ points_copy' = S
  /\ to_clear' = [to_clear EXCEPT !["filter"] = Cells]
  /\ UNCHANGED to_set

InsertIntoFilter(S) ==
  /\ filter_at' = "insert" /\ to_set' = CellsOf(S)
  /\ UNCHANGED <<to_clear, points_copy>>

\* The filter is built when the tree has been moved out and cleared.
BuildFilterLater ==
  /\ filter_at' = "waiting"
  /\ UNCHANGED <<to_clear, points_copy, to_set>>

FilterOfInsert_AtOnce(new) ==
  \/ owner \in {"BHL", "CO", "buffer"} /\ InsertIntoFilter(new)
  \/ owner = "static" /\ BuildFilter(new)

\* What becomes of the filter on an insert.  BHL_KdTree sets the new points
\* while the tree may still be moved out and cleared.
FilterOfInsert(new) ==
  \/ owner \in {"BHL", "buffer"} /\ InsertIntoFilter(new)
  \/ owner = "CO" /\ present # {} /\ BuildFilterLater
  \/ (owner = "static" \/ (owner = "CO" /\ present = {})) /\ BuildFilter(new)

\* insert, or build for a static tree of a LogTree
Insert(new) ==
  /\ op = "none" /\ op' = "insert"
  /\ new # {} /\ new \cap present = {}
  /\ owner = "static" => present = {}
  /\ batch' = new
  /\ tree_at' = IF present = {} THEN "build" ELSE "move"
  /\ FilterOfInsert(new)
  /\ UNCHANGED <<owner, present, gathered, buckets>>

\* bulk_erase.  A tree on its own is rebuilt afterwards.
BulkErase(points) ==
  /\ op = "none" /\ op' = "erase"
  /\ present # {}
  /\ present' = present \ filter(points)
  /\ \/ OwnsFilter /\ tree_at' = "move" /\ BuildFilterLater
     \/ UNCHANGED <<tree_at, filter_at, to_clear, filterVars>>
  /\ UNCHANGED <<owner, gathered, batch, buckets>>

\* moveElementsTo, called by a LogTree for all the points
MoveOut ==
  /\ op = "none" /\ op' = "erase"
  /\ present # {}
  /\ present' = {}
  /\ \/ /\ OwnsFilter /\ tree_at' = "clear"
        /\ to_clear' = [to_clear EXCEPT !["tree"] = Cells]
        /\ UNCHANGED <<filter_at, filterVars>>
     \/ owner = "buffer" /\ BuildFilter({}) /\ UNCHANGED tree_at
     \/ owner = "static" /\ UNCHANGED <<tree_at, filter_at, to_clear, filterVars>>
  /\ UNCHANGED <<owner, gathered, batch, buckets>>

\* The tasks have joined.
Return ==
  /\ op # "none" /\ op' = "none"
  /\ tree_at = "none" /\ filter_at = "none"
  /\ UNCHANGED <<owner, treeVars, tree_at, filter_at, to_clear, filterVars, buckets>>

-----------------------------------------------------------------------------
(* the task of the tree *)

MoveToGather ==
  /\ tree_at = "move"
  /\ gathered' = present /\ present' = {}
  /\ \/ /\ OwnsFilter /\ tree_at' = "clear"
        /\ to_clear' = [to_clear EXCEPT !["tree"] = Cells]
     \/ ~OwnsFilter /\ tree_at' = "build" /\ UNCHANGED to_clear
  /\ UNCHANGED <<owner, op, batch, filter_at, filterVars, buckets>>

\* The tree has been cleared, and its filter with it; the build forks.
Cleared ==
  /\ tree_at = "clear" /\ to_clear["tree"] = {}
  /\ tree_at' = "build"
  /\ \/ filter_at = "waiting" /\ BuildFilter(gathered \cup batch)
     \/ filter_at # "waiting" /\ UNCHANGED <<filter_at, to_clear, filterVars>>
  /\ UNCHANGED <<owner, op, treeVars, buckets>>

Build ==
  /\ tree_at = "build" /\ tree_at' = "none"
  /\ present' = present \cup gathered \cup batch
  /\ gathered' = {} /\ batch' = {}
  /\ UNCHANGED <<owner, op, filter_at, to_clear, filterVars, buckets>>

-----------------------------------------------------------------------------
(* the task of the filter, and clear in either task *)

Clear(task, cell) ==
  /\ cell \in to_clear[task]
  /\ to_clear' = [to_clear EXCEPT ![task] = @ \ {cell}]
  /\ buckets' = buckets \ {cell}
  /\ UNCHANGED <<owner, op, treeVars, tree_at, filter_at, filterVars>>

\* build goes on to insert.
FillFilter ==
  /\ filter_at = "clear" /\ to_clear["filter"] = {}
  /\ filter_at' = "insert" /\ to_set' = CellsOf(points_copy)
  /\ UNCHANGED <<owner, op, treeVars, tree_at, to_clear, points_copy, buckets>>

Set(cell) ==
  /\ filter_at = "insert" /\ cell \in to_set
  /\ to_set' = to_set \ {cell}
  /\ buckets' = buckets \cup {cell}
  /\ UNCHANGED <<owner, op, treeVars, tree_at, filter_at, to_clear, points_copy>>

EndFilter ==
  /\ filter_at = "insert" /\ to_set = {}
  /\ filter_at' = "none"
  /\ UNCHANGED <<owner, op, treeVars, tree_at, to_clear, filterVars, buckets>>

-----------------------------------------------------------------------------

Next ==
  \/ \E new \in InsertBatches : Insert(Range(new))
  \/ \E points \in EraseBatches : BulkErase(points)
  \/ MoveOut \/ Return
  \/ MoveToGather \/ Cleared \/ Build
  \/ \E task \in {"tree", "filter"}, cell \in Cells : Clear(task, cell)
  \/ FillFilter \/ EndFilter
  \/ \E cell \in Cells : Set(cell)

Spec == Init /\ [][Next]_vars

-----------------------------------------------------------------------------

(***************************************************************************)
(* Between operations the filter knows all the points in the tree: no      *)
(* clear comes after the insert that sets a cell, and no points are left   *)
(* out of a rebuild.  (Points it knows but are gone do no harm.)           *)
(***************************************************************************)
NoFalseNegatives == op = "none" => \A p \in present : might_contain(p)

Plain == INSTANCE PointSet WITH contents <- present \cup gathered, pending <- batch

(***************************************************************************)
(* With its filter the tree is still the set of points that a tree without *)
(* one would be (LogTree's moving all of its points out counts as an erase *)
(* of all): bulk_erase erases every point of its batch that is there.      *)
(***************************************************************************)
ImplementsPointSet == Plain!Spec

=============================================================================
