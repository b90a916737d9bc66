------------------------------- MODULE PointSet -------------------------------
(***************************************************************************)
(* What a batch-dynamic kd-tree promises to its caller, without any tree:  *)
(* a set of points.  The caller runs one operation at a time.  insert adds *)
(* its whole batch at once, or throws and adds none of it; bulk_erase      *)
(* takes its batch out, and whatever it then does to the trees is not      *)
(* seen.                                                                   *)
(***************************************************************************)
EXTENDS Integers, Sequences, Functions

CONSTANTS
  InsertBatches,  \* the sequences of points a caller inserts
  EraseBatches    \* the sets of points a caller erases

VARIABLES
  contents,  \* the points in the tree
  op,        \* the operation running: "none", "insert" or "erase"
  pending    \* the points an insert has been given and not added

vars == <<contents, op, pending>>

Init == contents = {} /\ op = "none" /\ pending = {}

\* The points inserted are new: two copies of a point are not told apart.
CallInsert(batch) ==
  /\ op = "none"
  /\ Range(batch) \cap contents = {}
  /\ op' = "insert" /\ pending' = Range(batch)
  /\ UNCHANGED contents

Insert ==
  /\ op = "insert"
  /\ contents' = contents \cup pending
  /\ pending' = {}
  /\ UNCHANGED op

\* Erasing a point that is not there is allowed, and does nothing to it.
Erase(batch) ==
  /\ op = "none"
  /\ op' = "erase"
  /\ contents' = contents \ batch
  /\ UNCHANGED pending

\* With points pending, insert has thrown.
Return ==
  /\ op # "none"
  /\ op' = "none" /\ pending' = {}
  /\ UNCHANGED contents

Next ==
  \/ \E batch \in InsertBatches : CallInsert(batch)
  \/ Insert
  \/ \E batch \in EraseBatches : Erase(batch)
  \/ Return

Spec == Init /\ [][Next]_vars

=============================================================================
