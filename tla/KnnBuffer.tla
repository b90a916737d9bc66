------------------------------ MODULE KnnBuffer ------------------------------
(***************************************************************************)
(* The candidate buffer of a k-nearest-neighbour query (knnbuffer.h): an   *)
(* array of 2k entries, filled up to ptr, of which keepK leaves the k      *)
(* nearest.                                                                *)
(*                                                                         *)
(* A buffer is [elems, kth, cached]: elems are the entries below ptr, which *)
(* are the candidates of different points, and kth is entry k - 1, the     *)
(* only one whose place is ever looked at.  Nobody reads an entry at ptr   *)
(* or above.                                                               *)
(***************************************************************************)
EXTENDS QueryTrees

CONSTANTS k

ASSUME kAssumption == k \in Nat \ {0}

NoPoint == <<>>

\* The buffers of candidates from points
Buffers(points) ==
  [elems : SUBSET points, kth : points \cup {NoPoint}, cached : BOOLEAN]

ptr(b) == Cardinality(b.elems)

NewBuffer == [elems |-> {}, kth |-> NoPoint, cached |-> TRUE]

HasK_More(b) == ptr(b) > k

HasK(b) == ptr(b) >= k

\* nth_element: any k of the least cost, with any of the greatest among them
\* as entry k - 1.
KNearest(q, S) ==
  {N \in kSubset(k, S) : \A p \in N, o \in S \ N : Cost(q, p) <= Cost(q, o)}

Farthest(q, N) == {p \in N : \A o \in N : Cost(q, o) <= Cost(q, p)}

\* What keepK may make of a buffer that has k
KeepK(q, b) ==
  IF b.cached THEN {b}
  ELSE UNION {{[elems |-> N, kth |-> x, cached |-> TRUE] : x \in Farthest(q, N)} :
              N \in KNearest(q, b.elems)}

Put_StaysCached(b, p) ==
  [b EXCEPT !.elems = @ \cup {p}, !.kth = IF ptr(b) = k - 1 THEN p ELSE @]

\* buf[ptr++] = p
Put(b, p) ==
  [elems |-> b.elems \cup {p},
   kth |-> IF ptr(b) = k - 1 THEN p ELSE b.kth,
   cached |-> FALSE]

\* What insert may make of a buffer
Insert(q, b, p) ==
  LET grown == Put(b, p)
  IN  IF ptr(grown) >= 2 * k THEN KeepK(q, grown) ELSE {grown}

\* What may be in the first k entries
FirstK(b) == {N \in kSubset(k, b.elems) : b.kth \in N}

=============================================================================
