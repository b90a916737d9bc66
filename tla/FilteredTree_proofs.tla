------------------------- MODULE FilteredTree_proofs -------------------------
(***************************************************************************)
(* The filter of every owner but BHL_KdTree knows all the points of its    *)
(* tree between operations, for every hash, every size of the filter and   *)
(* all points; so the tree with a filter is the set of points that it      *)
(* would be without one.                                                   *)
(*                                                                         *)
(* The argument: a clear never runs beside an insert or another clear      *)
(* (ClearsApart), so that what the filter will know when its task has      *)
(* ended covers the points of the tree and those on their way into it      *)
(* (FilterCovers).                                                         *)
(***************************************************************************)
EXTENDS FilteredTree, TLAPS

LOCAL INSTANCE Functions

\* The points that will be in the tree when its task has ended.
All == present \cup gathered \cup batch

FilterCovers ==
  /\ filter_at = "none" => CellsOf(All) \subseteq buckets
  /\ filter_at = "insert" => CellsOf(All) \subseteq buckets \cup to_set
  /\ filter_at = "clear" => All \subseteq points_copy

ClearsApart ==
  /\ filter_at = "waiting" => OwnsFilter /\ tree_at \in {"move", "clear"}
  /\ tree_at = "move" => (OwnsFilter => filter_at = "waiting")
  /\ tree_at = "clear" =>
       /\ OwnsFilter /\ present = {}
       /\ filter_at = "waiting" \/ (filter_at = "none" /\ All = {})
  /\ to_clear["tree"] # {} => tree_at = "clear"
  /\ to_clear["filter"] # {} => filter_at = "clear"

TasksDone ==
  /\ op = "none" => tree_at = "none" /\ filter_at = "none"
  /\ tree_at = "none" => gathered = {} /\ batch = {}
  /\ tree_at = "move" => gathered = {}
  /\ op = "erase" => batch = {}

IInv == TypeOK /\ FilterCovers /\ ClearsApart /\ TasksDone

-----------------------------------------------------------------------------
(* Cells *)

LEMMA HashInRange ==
  ASSUME NEW p \in Points, NEW j \in 1..NUM_ARRAYS
  PROVE  hash(p, j) \in 0..(num_buckets - 1)
BY ArraysAssumption, HashAssumption DEF hash

LEMMA CellsOfType ==
  ASSUME NEW S \in SUBSET Points
  PROVE  CellsOf(S) \in SUBSET Cells
BY HashInRange DEF CellsOf, Cells

LEMMA CellsOfMonotone ==
  ASSUME NEW S, NEW T, S \subseteq T
  PROVE  CellsOf(S) \subseteq CellsOf(T)
BY DEF CellsOf

LEMMA CellsOfUnion ==
  ASSUME NEW S, NEW T
  PROVE  CellsOf(S \cup T) = CellsOf(S) \cup CellsOf(T)
BY DEF CellsOf

LEMMA CellsOfEmpty == CellsOf({}) = {}
BY DEF CellsOf

LEMMA Known ==
  ASSUME NEW S, CellsOf(S) \subseteq buckets, NEW p \in S
  PROVE  might_contain(p)
BY DEF CellsOf, might_contain

-----------------------------------------------------------------------------
(* The invariant *)

LEMMA InitInv == ("BHL" \notin Owners /\ Init) => IInv
<1> SUFFICES ASSUME "BHL" \notin Owners, Init  PROVE IInv
  OBVIOUS
<1>1. TypeOK
  BY DEF Init, TypeOK
<1>2. FilterCovers
  BY CellsOfEmpty DEF Init, FilterCovers, All
<1>3. ClearsApart /\ TasksDone
  BY DEF Init, ClearsApart, TasksDone
<1> QED
  BY <1>1, <1>2, <1>3 DEF IInv

USE DEF treeVars, filterVars

LEMMA InsertInv ==
  ASSUME IInv, owner # "BHL", NEW new \in SUBSET Points, Insert(new)
  PROVE  IInv'
<1>1. /\ tree_at = "none" /\ filter_at = "none" /\ gathered = {} /\ batch = {}
      /\ to_clear["tree"] = {} /\ to_clear["filter"] = {}
      /\ CellsOf(present) \subseteq buckets
  BY DEF IInv, Insert, TasksDone, ClearsApart, FilterCovers, All
<1>2. /\ owner' = owner /\ present' = present /\ gathered' = {} /\ batch' = new
      /\ op' = "insert" /\ buckets' = buckets
      /\ tree_at' = IF present = {} THEN "build" ELSE "move"
  BY <1>1 DEF Insert
<1>3. to_clear \in [{"tree", "filter"} -> SUBSET Cells] /\ CellsOf(new) \in SUBSET Cells
  BY CellsOfType DEF IInv, TypeOK
<1>4. CASE owner = "buffer" /\ InsertIntoFilter(new)
  <2>1. TypeOK'
    BY <1>2, <1>3, <1>4 DEF IInv, TypeOK, InsertIntoFilter
  <2>2. FilterCovers'
    BY <1>1, <1>2, <1>4, CellsOfUnion DEF FilterCovers, All, InsertIntoFilter
  <2>3. ClearsApart' /\ TasksDone'
    BY <1>1, <1>2, <1>4 DEF ClearsApart, TasksDone, InsertIntoFilter, OwnsFilter
  <2> QED
    BY <2>1, <2>2, <2>3 DEF IInv
<1>5. CASE owner = "CO" /\ present # {} /\ BuildFilterLater
  <2>1. TypeOK'
    BY <1>2, <1>3, <1>5 DEF IInv, TypeOK, BuildFilterLater
  <2>2. FilterCovers'
    BY <1>5 DEF FilterCovers, BuildFilterLater
  <2>3. ClearsApart' /\ TasksDone'
    BY <1>1, <1>2, <1>5 DEF ClearsApart, TasksDone, BuildFilterLater, OwnsFilter
  <2> QED
    BY <2>1, <2>2, <2>3 DEF IInv
<1>6. CASE owner \in {"static", "CO"} /\ present = {} /\ BuildFilter(new)
  <2>1. TypeOK'
    BY <1>2, <1>3, <1>6 DEF IInv, TypeOK, BuildFilter
  <2>2. FilterCovers'
    BY <1>2, <1>6 DEF FilterCovers, All, BuildFilter
  <2>3. ClearsApart' /\ TasksDone'
    BY <1>1, <1>2, <1>3, <1>6 DEF ClearsApart, TasksDone, BuildFilter, OwnsFilter
  <2> QED
    BY <2>1, <2>2, <2>3 DEF IInv
<1> QED
  BY <1>4, <1>5, <1>6 DEF Insert, FilterOfInsert

LEMMA BulkEraseInv ==
  ASSUME IInv, NEW points \in SUBSET Points, BulkErase(points)
  PROVE  IInv'
<1>1. /\ tree_at = "none" /\ filter_at = "none" /\ gathered = {} /\ batch = {}
      /\ to_clear["tree"] = {} /\ to_clear["filter"] = {}
      /\ CellsOf(present) \subseteq buckets
  BY DEF IInv, BulkErase, TasksDone, ClearsApart, FilterCovers, All
<1>2. /\ present' \subseteq present /\ gathered' = {} /\ batch' = {}
      /\ op' = "erase" /\ buckets' = buckets /\ owner' = owner
  BY <1>1 DEF BulkErase
<1>3. CellsOf(All') \subseteq buckets
  <2>1. All' \subseteq present
    BY <1>2 DEF All
  <2> QED
    BY <1>1, <2>1, CellsOfMonotone
<1>4. CASE OwnsFilter /\ tree_at' = "move" /\ BuildFilterLater
  <2>1. TypeOK'
    BY <1>2, <1>4 DEF IInv, TypeOK, BuildFilterLater
  <2>2. FilterCovers'
    BY <1>4 DEF FilterCovers, BuildFilterLater
  <2>3. ClearsApart' /\ TasksDone'
    BY <1>1, <1>2, <1>4 DEF ClearsApart, TasksDone, BuildFilterLater, OwnsFilter
  <2> QED
    BY <2>1, <2>2, <2>3 DEF IInv
<1>5. CASE UNCHANGED <<tree_at, filter_at, to_clear, filterVars>>
  <2>1. TypeOK'
    BY <1>2, <1>5 DEF IInv, TypeOK
  <2>2. FilterCovers'
    BY <1>1, <1>2, <1>3, <1>5 DEF FilterCovers, CellsOf
  <2>3. ClearsApart' /\ TasksDone'
    BY <1>1, <1>2, <1>5 DEF ClearsApart, TasksDone, OwnsFilter
  <2> QED
    BY <2>1, <2>2, <2>3 DEF IInv
<1> QED
  BY <1>4, <1>5 DEF BulkErase

LEMMA MoveOutInv == ASSUME IInv, MoveOut  PROVE IInv'
<1>1. /\ tree_at = "none" /\ filter_at = "none" /\ gathered = {} /\ batch = {}
      /\ to_clear["tree"] = {} /\ to_clear["filter"] = {}
  BY DEF IInv, MoveOut, TasksDone, ClearsApart
<1>2. /\ present' = {} /\ gathered' = {} /\ batch' = {} /\ op' = "erase"
      /\ buckets' = buckets /\ owner' = owner /\ All' = {}
  BY <1>1 DEF MoveOut, All
<1>3. to_clear \in [{"tree", "filter"} -> SUBSET Cells]
  BY DEF IInv, TypeOK
<1>4. TypeOK'
  BY <1>2, <1>3 DEF IInv, TypeOK, MoveOut, BuildFilter
<1>5. FilterCovers'
  BY <1>2, CellsOfEmpty DEF FilterCovers, CellsOf
<1>6. ClearsApart'
  BY <1>1, <1>2, <1>3 DEF ClearsApart, MoveOut, BuildFilter, OwnsFilter
<1>7. TasksDone'
  BY <1>2 DEF TasksDone, MoveOut
<1> QED
  BY <1>4, <1>5, <1>6, <1>7 DEF IInv

LEMMA ReturnInv == ASSUME IInv, Return  PROVE IInv'
BY DEF IInv, Return, TypeOK, FilterCovers, CellsOf, All, ClearsApart, OwnsFilter, TasksDone

LEMMA MoveToGatherInv == ASSUME IInv, MoveToGather  PROVE IInv'
<1>1. /\ gathered = {} /\ OwnsFilter => filter_at = "waiting"
      /\ to_clear["tree"] = {}
      /\ All' = All
      /\ to_clear \in [{"tree", "filter"} -> SUBSET Cells]
  BY DEF IInv, MoveToGather, TasksDone, ClearsApart, All, TypeOK
<1>2. TypeOK'
  BY <1>1 DEF IInv, TypeOK, MoveToGather
<1>3. FilterCovers'
  BY <1>1 DEF IInv, FilterCovers, MoveToGather, CellsOf
<1>4. ClearsApart'
  BY <1>1 DEF IInv, TypeOK, ClearsApart, MoveToGather, OwnsFilter
<1>5. TasksDone'
  BY DEF IInv, TasksDone, MoveToGather
<1> QED
  BY <1>2, <1>3, <1>4, <1>5 DEF IInv

LEMMA ClearedInv == ASSUME IInv, Cleared  PROVE IInv'
<1>1. /\ present = {} /\ OwnsFilter /\ to_clear["tree"] = {}
      /\ filter_at = "waiting" \/ (filter_at = "none" /\ All = {})
      /\ to_clear \in [{"tree", "filter"} -> SUBSET Cells]
      /\ op # "none"
  BY DEF IInv, Cleared, ClearsApart, TypeOK, TasksDone
<1>2. All' = All /\ All = gathered \cup batch /\ CellsOf(All') = CellsOf(All)
  BY <1>1 DEF Cleared, All, CellsOf
<1>3. TypeOK'
  BY <1>1 DEF IInv, TypeOK, Cleared, BuildFilter
<1>4. FilterCovers'
  BY <1>1, <1>2 DEF IInv, FilterCovers, Cleared, BuildFilter
<1>5. ClearsApart'
  BY <1>1 DEF IInv, ClearsApart, Cleared, BuildFilter, OwnsFilter
<1>6. TasksDone'
  BY <1>1 DEF IInv, TasksDone, Cleared
<1> QED
  BY <1>3, <1>4, <1>5, <1>6 DEF IInv

LEMMA BuildInv == ASSUME IInv, Build  PROVE IInv'
<1>1. All' = All /\ CellsOf(All') = CellsOf(All)
  BY DEF Build, All, CellsOf
<1>2. TypeOK'
  BY DEF IInv, TypeOK, Build
<1>3. FilterCovers'
  BY <1>1 DEF IInv, FilterCovers, Build
<1>4. ClearsApart' /\ TasksDone'
  BY DEF IInv, ClearsApart, TasksDone, Build, OwnsFilter
<1> QED
  BY <1>2, <1>3, <1>4 DEF IInv

LEMMA ClearInv ==
  ASSUME IInv, NEW task \in {"tree", "filter"}, NEW cell \in Cells, Clear(task, cell)
  PROVE  IInv'
<1>1. /\ to_clear \in [{"tree", "filter"} -> SUBSET Cells] /\ to_clear[task] # {}
      /\ All' = All
  BY DEF IInv, TypeOK, Clear, All
<1>2. filter_at \in {"waiting", "clear"} \/ All = {}
  BY <1>1 DEF IInv, ClearsApart
<1>3. TypeOK'
  BY DEF IInv, TypeOK, Clear
<1>4. FilterCovers'
  <2>1. CASE filter_at \in {"waiting", "clear"}
    BY <1>1, <2>1 DEF IInv, FilterCovers, Clear
  <2>2. CASE All = {}
    BY <1>1, <2>2 DEF FilterCovers, CellsOf
  <2> QED
    BY <1>2, <2>1, <2>2
<1>5. ClearsApart'
  BY <1>1 DEF IInv, ClearsApart, Clear, OwnsFilter
<1>6. TasksDone'
  BY DEF IInv, TasksDone, Clear
<1> QED
  BY <1>3, <1>4, <1>5, <1>6 DEF IInv

LEMMA FillFilterInv == ASSUME IInv, FillFilter  PROVE IInv'
<1>1. All' = All /\ All \subseteq points_copy /\ CellsOf(points_copy) \in SUBSET Cells
  BY CellsOfType DEF IInv, FilterCovers, FillFilter, All, TypeOK
<1>2. TypeOK'
  BY <1>1 DEF IInv, TypeOK, FillFilter
<1>3. FilterCovers'
  BY <1>1, CellsOfMonotone DEF FilterCovers, FillFilter
<1>4. ClearsApart' /\ TasksDone'
  BY DEF IInv, ClearsApart, TasksDone, FillFilter, OwnsFilter
<1> QED
  BY <1>2, <1>3, <1>4 DEF IInv

LEMMA SetInv == ASSUME IInv, NEW cell \in Cells, Set(cell)  PROVE IInv'
<1>1. CellsOf(All') = CellsOf(All)
  BY DEF Set, All, CellsOf
<1>2. TypeOK'
  BY DEF IInv, TypeOK, Set
<1>3. FilterCovers'
  BY <1>1 DEF IInv, FilterCovers, Set
<1>4. ClearsApart' /\ TasksDone'
  BY DEF IInv, ClearsApart, TasksDone, Set, OwnsFilter
<1> QED
  BY <1>2, <1>3, <1>4 DEF IInv

LEMMA EndFilterInv == ASSUME IInv, EndFilter  PROVE IInv'
<1>1. CellsOf(All') = CellsOf(All)
  BY DEF EndFilter, All, CellsOf
<1>2. TypeOK'
  BY DEF IInv, TypeOK, EndFilter
<1>3. FilterCovers'
  BY <1>1 DEF IInv, FilterCovers, EndFilter
<1>4. ClearsApart' /\ TasksDone'
  BY DEF IInv, ClearsApart, TasksDone, EndFilter, OwnsFilter
<1> QED
  BY <1>2, <1>3, <1>4 DEF IInv

LEMMA StepInv == (owner # "BHL" /\ IInv /\ [Next]_vars) => (IInv /\ owner # "BHL")'
<1> SUFFICES ASSUME owner # "BHL", IInv, [Next]_vars  PROVE (IInv /\ owner # "BHL")'
  OBVIOUS
<1>0. owner' = owner
  BY DEF Next, vars, Insert, BulkErase, MoveOut, Return, MoveToGather, Cleared, Build,
         Clear, FillFilter, Set, EndFilter
<1> SUFFICES IInv'
  BY <1>0
<1>1. CASE \E new \in InsertBatches : Insert(Range(new))
  BY <1>1, InsertInv, BatchesAssumption
<1>2. CASE \E points \in EraseBatches : BulkErase(points)
  BY <1>2, BulkEraseInv, BatchesAssumption
<1>3. CASE MoveOut
  BY <1>3, MoveOutInv
<1>4. CASE Return
  BY <1>4, ReturnInv
<1>5. CASE MoveToGather
  BY <1>5, MoveToGatherInv
<1>6. CASE Cleared
  BY <1>6, ClearedInv
<1>7. CASE Build
  BY <1>7, BuildInv
<1>8. CASE \E task \in {"tree", "filter"}, cell \in Cells : Clear(task, cell)
  BY <1>8, ClearInv
<1>9. CASE FillFilter
  BY <1>9, FillFilterInv
<1>10. CASE EndFilter
  BY <1>10, EndFilterInv
<1>11. CASE \E cell \in Cells : Set(cell)
  BY <1>11, SetInv
<1>12. CASE UNCHANGED vars
  BY <1>12 DEF vars, IInv, TypeOK, FilterCovers, CellsOf, All, ClearsApart, OwnsFilter, TasksDone
<1> QED
  BY <1>1, <1>2, <1>3, <1>4, <1>5, <1>6, <1>7, <1>8, <1>9, <1>10, <1>11, <1>12 DEF Next

LEMMA Invariance ==
  ASSUME "BHL" \notin Owners
  PROVE  Spec => [](IInv /\ owner # "BHL")
<1>1. Init => IInv /\ owner # "BHL"
  BY InitInv DEF Init
<1> QED
  BY <1>1, StepInv, PTL DEF Spec

-----------------------------------------------------------------------------
(* The theorems *)

(***************************************************************************)
(* The variables keep their types: what hash returns is a cell.            *)
(***************************************************************************)
THEOREM TypeCorrect ==
  ASSUME "BHL" \notin Owners
  PROVE  Spec => []TypeOK
<1>1. IInv => TypeOK
  BY DEF IInv
<1> QED
  BY <1>1, Invariance, PTL

LEMMA KnownWhenIdle == IInv => NoFalseNegatives
BY Known DEF IInv, TasksDone, FilterCovers, All, NoFalseNegatives

(***************************************************************************)
(* Between operations might_contain is true of every point in the tree.    *)
(***************************************************************************)
THEOREM FilterKnowsTree ==
  ASSUME "BHL" \notin Owners
  PROVE  Spec => []NoFalseNegatives
BY KnownWhenIdle, Invariance, PTL

LEMMA InitRefines == Init => Plain!Init
BY DEF Init, Plain!Init

LEMMA StepRefines == (IInv /\ [Next]_vars) => [Plain!Next]_(Plain!vars)
<1> SUFFICES ASSUME IInv, [Next]_vars  PROVE [Plain!Next]_(Plain!vars)
  OBVIOUS
<1> DEFINE Stutter == UNCHANGED <<present \cup gathered, op, batch>>
<1>0. Stutter => [Plain!Next]_(Plain!vars)
  BY DEF Plain!vars
<1>1. ASSUME NEW new \in InsertBatches, Insert(Range(new))
      PROVE  Plain!CallInsert(new)
  BY <1>1 DEF IInv, TasksDone, Insert, Plain!CallInsert, Range, Plain!Range
<1>2. ASSUME NEW points \in EraseBatches, BulkErase(points)
      PROVE  Plain!Erase(points)
  <2>1. op = "none" /\ gathered = {} /\ gathered' = {} /\ op' = "erase" /\ batch' = batch
    BY <1>2 DEF IInv, TasksDone, BulkErase
  <2>2. \A p \in present : might_contain(p)
    BY <2>1, KnownWhenIdle DEF NoFalseNegatives
  <2>3. present \ filter(points) = present \ points
    BY <2>2 DEF filter
  <2> QED
    BY <1>2, <2>1, <2>3 DEF BulkErase, Plain!Erase
<1>3. ASSUME MoveOut
      PROVE  Plain!Erase(Points)
  BY <1>3 DEF IInv, TypeOK, TasksDone, MoveOut, Plain!Erase
<1>4. ASSUME Return
      PROVE  Plain!Return
  BY <1>4 DEF IInv, TasksDone, Return, Plain!Return
<1>5. ASSUME MoveToGather
      PROVE  Stutter
  BY <1>5 DEF IInv, TasksDone, MoveToGather
<1>6. ASSUME Build
      PROVE  Plain!Insert \/ Stutter
  <2>1. op = "insert" \/ batch = {}
    BY <1>6 DEF IInv, TypeOK, TasksDone, Build
  <2> QED
    BY <1>6, <2>1 DEF Build, Plain!Insert
<1>7. ASSUME Cleared \/ FillFilter \/ EndFilter
      PROVE  Stutter
  BY <1>7 DEF Cleared, FillFilter, EndFilter
<1>8. ASSUME NEW task, NEW cell, Clear(task, cell) \/ Set(cell)
      PROVE  Stutter
  BY <1>8 DEF Clear, Set
<1>9. UNCHANGED vars => Stutter
  BY DEF vars
<1>10. Points \in EraseBatches
  BY BatchesAssumption
<1> QED
  BY <1>0, <1>1, <1>2, <1>3, <1>4, <1>5, <1>6, <1>7, <1>8, <1>9, <1>10 DEF Next, Plain!Next

(***************************************************************************)
(* A tree with a filter implements the set of points: to ask the filter    *)
(* which points of a batch it may hold loses none of them.                 *)
(***************************************************************************)
THEOREM FilterRefines ==
  ASSUME "BHL" \notin Owners
  PROVE  Spec => ImplementsPointSet
BY InitRefines, StepRefines, Invariance, PTL DEF Spec, ImplementsPointSet, Plain!Spec

=============================================================================
