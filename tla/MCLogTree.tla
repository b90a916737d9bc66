------------------------------ MODULE MCLogTree ------------------------------
(***************************************************************************)
(* TLC instances of LogTree.  Points are numbers only so that batches can  *)
(* be enumerated; LogTree compares none.                                   *)
(***************************************************************************)
EXTENDS LogTree

CONSTANTS
  MaxInsert,   \* the largest batch inserted
  MaxErase,    \* the largest batch erased
  Cuts         \* where the runs of MCInsertRuns and Runs begin and end

MCPow2 == [n \in 0..NUM_TREES |-> 2^n]

\* The elements of S in increasing order.
Ascending(S) ==
  [x \in 1..Cardinality(S) |-> CHOOSE p \in S : Cardinality({q \in S : q <= p}) = x]

\* One order for each set of points: inserting them in another order is the
\* same but for the names of the points.
MCInsertBatches == {Ascending(S) : S \in {T \in SUBSET Points : Cardinality(T) <= MaxInsert}}

MCEraseBatches == {T \in SUBSET Points : T # {} /\ Cardinality(T) <= MaxErase}

\* With more trees there are too many batches to try them all: the runs of
\* consecutive points between two cuts.
Runs == {(a + 1)..b : a \in Cuts, b \in Cuts} \ {{}}

MCInsertRuns == {Ascending(S) : S \in Runs}

=============================================================================
