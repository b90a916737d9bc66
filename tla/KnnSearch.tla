------------------------------ MODULE KnnSearch ------------------------------
(***************************************************************************)
(* One query point of a k-nearest-neighbour query on a LogTree             *)
(* (logtree.h:788-985): the searches of its trees (kdnode.h:314-437), each *)
(* with a buffer of its own or one after the other with the same, and what *)
(* is made of the buffers.  Query points share nothing.                    *)
(*                                                                         *)
(* A search calls itself on nodes; stack holds the calls still to be made. *)
(***************************************************************************)
EXTENDS KnnBuffer

CONSTANTS
  Queries,       \* the points asked about
  LogTrees       \* the LogTrees asked

VARIABLES
  query, update, recurse_sibling,
  variant,
  trees,      \* the roots, in the order of gatherFullTrees
  bufs,       \* the buffer of each tree
  stack, radius,
  adding,     \* the points knnAddToBuffer has still to insert
  status      \* of each tree's search; "merged" when the tree is combined

inputs == <<query, update, recurse_sibling, variant, trees>>
vars == <<inputs, bufs, stack, radius, adding, status>>

Points == UNION {lt.buffer : lt \in LogTrees} \cup
          UNION {UNION {lt.static[i] : i \in DOMAIN lt.static} : lt \in LogTrees}

ASSUME QueriesAssumption ==
  IsFiniteSet(Queries) /\ \A q \in Queries, d \in Dims : q[d] \in Int

\* A point is in one tree (EachPointOnce of LogTree).
ASSUME LogTreesAssumption ==
  /\ IsFiniteSet(Points) /\ \A p \in Points, d \in Dims : p[d] \in Int
  /\ \A lt \in LogTrees :
       /\ lt.static \in Seq(SUBSET Points)
       /\ \A i \in 1..Len(lt.static) : lt.static[i] \cap lt.buffer = {}
       /\ \A i, j \in 1..Len(lt.static) : i # j => lt.static[i] \cap lt.static[j] = {}

-----------------------------------------------------------------------------

GoesLeft(node) == query[node.split_dimension] < node.split_value

Near(node) == node.children[IF GoesLeft(node) THEN 1 ELSE 2]

Far(node) == node.children[IF GoesLeft(node) THEN 2 ELSE 1]

Excludes_ByMinOnly(r, box) ==
  \E d \in Dims :
    /\ query[d] < box.min[d] \/ query[d] > box.min[d]
    /\ (box.min[d] - query[d]) * (box.min[d] - query[d]) > r

\* boxCompare of the box with side twice the radius (r is its square)
Excludes(r, box) ==
  \E d \in Dims :
    \/ query[d] < box.min[d] /\ (box.min[d] - query[d]) * (box.min[d] - query[d]) > r
    \/ query[d] > box.max[d] /\ (query[d] - box.max[d]) * (query[d] - box.max[d]) > r

Includes(r, box) ==
  \A d \in Dims :
    /\ (box.min[d] - query[d]) * (box.min[d] - query[d]) <= r
    /\ (box.max[d] - query[d]) * (box.max[d] - query[d]) <= r

-----------------------------------------------------------------------------

\* knn in a parallel LogTree, knn in a serial one or knn2, and knn3
Variants == {"parallel", "serial", "knn3"}

Last == Len(trees)

\* The trees by the order in which they are searched
TreeAt(i) == IF variant = "knn3" THEN Last + 1 - i ELSE i

\* numeric_limits<double>::max()
Infinity == 1 + Max({Cost(q, p) : q \in Queries, p \in Points})

Call(f, node) == [call |-> f, node |-> node]

Searching(t) == status[t] = "searching"

\* knnSinglePoint on tree t; in parallel all are called at once
Init ==
  /\ query \in Queries
  /\ update \in BOOLEAN /\ recurse_sibling \in BOOLEAN
  /\ variant \in Variants
  /\ \E lt \in LogTrees : trees \in GatheredTrees(lt) \ {<<>>}
  /\ bufs = [t \in 1..Last |-> NewBuffer]
  /\ status = [t \in 1..Last |->
                IF variant = "parallel" \/ t = TreeAt(1) THEN "searching" ELSE "waiting"]
  /\ stack = [t \in 1..Last |-> <<Call("knnHelper", trees[t])>>]
  /\ radius = [t \in 1..Last |-> Infinity]
  /\ adding = [t \in 1..Last |-> {}]

\* Between inserts the 2k entries of a buffer have room for one more, so that
\* the entries of the next query point are not written.
TypeOK ==
  /\ query \in Queries /\ update \in BOOLEAN /\ recurse_sibling \in BOOLEAN
  /\ variant \in Variants
  /\ bufs \in [1..Last -> Buffers(Points)]
  /\ \A t \in 1..Last : ptr(bufs[t]) < 2 * k
  /\ status \in [1..Last -> {"waiting", "searching", "done", "merged", "thrown"}]
  /\ \A t \in 1..Last : \A i \in 1..Len(stack[t]) :
       stack[t][i].call \in {"knnHelper", "other_child", "knnPrune"}
  /\ radius \in [1..Last -> 0..Infinity]
  /\ adding \in [1..Last -> SUBSET Points]

Top(t) == Head(stack[t])

\* The next call of t's search is f
Calls(t, f) ==
  Searching(t) /\ adding[t] = {} /\ stack[t] # <<>> /\ Top(t).call = f

Replace(t, calls) == stack' = [stack EXCEPT ![t] = calls \o Tail(@)]

\* knnAddToBuffer of what is within r
AddToBuffer(t, node, r) ==
  adding' = [adding EXCEPT ![t] = {p \in node.points : Cost(query, p) <= r}]

Add(t) ==
  /\ \E p \in adding[t] :
       /\ \E b \in Insert(query, bufs[t], p) : bufs' = [bufs EXCEPT ![t] = b]
       /\ adding' = [adding EXCEPT ![t] = @ \ {p}]
  /\ UNCHANGED <<inputs, stack, radius, status>>

KnnHelper(t) ==
  LET node == Top(t).node IN
  /\ Calls(t, "knnHelper")
  /\ \/ /\ IsLeaf(node)
        /\ Replace(t, <<>>) /\ AddToBuffer(t, node, Infinity)
     \/ /\ ~IsLeaf(node)
        /\ Replace(t, <<Call("knnHelper", Near(node)), Call("other_child", Far(node))>>)
        /\ UNCHANGED adding
  /\ UNCHANGED <<inputs, bufs, radius, status>>

\* The rest of knnHelper, when the near child has been searched
OtherChild(t) ==
  LET other_child == Top(t).node IN
  /\ Calls(t, "other_child")
  /\ \/ /\ ~HasK(bufs[t]) /\ recurse_sibling
        /\ Replace(t, <<Call("knnHelper", other_child)>>)
        /\ UNCHANGED <<adding, bufs, radius>>
     \/ /\ ~HasK(bufs[t]) /\ ~recurse_sibling
        /\ Replace(t, <<>>) /\ AddToBuffer(t, other_child, Infinity)
        /\ UNCHANGED <<bufs, radius>>
     \/ /\ HasK(bufs[t])
        /\ \E b \in IF update THEN {bufs[t]} ELSE KeepK(query, bufs[t]) :
             /\ bufs' = [bufs EXCEPT ![t] = b]
             /\ radius' = [radius EXCEPT ![t] =
                             IF update THEN Infinity ELSE Cost(query, b.kth)]
        /\ Replace(t, <<Call("knnPrune", other_child)>>)
        /\ UNCHANGED adding
  /\ UNCHANGED <<inputs, status>>

Min2(a, b) == IF a < b THEN a ELSE b

KnnPrune(t) ==
  LET node == Top(t).node IN
  /\ Calls(t, "knnPrune")
  /\ \E b \in IF update THEN KeepK(query, bufs[t]) ELSE {bufs[t]} :
       LET r == IF update THEN Min2(radius[t], Cost(query, b.kth)) ELSE radius[t] IN
       /\ bufs' = [bufs EXCEPT ![t] = b]
       /\ radius' = [radius EXCEPT ![t] = r]
       /\ \/ /\ Excludes(r, node.box)
             /\ Replace(t, <<>>) /\ UNCHANGED adding
          \/ /\ ~Excludes(r, node.box) /\ (Includes(r, node.box) \/ IsLeaf(node))
             /\ Replace(t, <<>>) /\ AddToBuffer(t, node, r)
          \/ /\ ~Excludes(r, node.box) /\ ~Includes(r, node.box) /\ ~IsLeaf(node)
             /\ Replace(t, [i \in 1..2 |-> Call("knnPrune", node.children[i])])
             /\ UNCHANGED adding
  /\ UNCHANGED <<inputs, status>>

Preloaded_Empty(b) == {NewBuffer}

\* A buffer of k entries over what another has left, preload
Preloaded(b) == {[elems |-> N, kth |-> b.kth, cached |-> TRUE] : N \in FirstK(b)}

\* The last keepK of knnSinglePoint, and the call on the next tree.
Finish(t) ==
  /\ Searching(t) /\ stack[t] = <<>> /\ adding[t] = {}
  /\ \/ /\ ~HasK(bufs[t])
        /\ status' = [status EXCEPT ![t] = "thrown"] /\ UNCHANGED bufs
     \/ /\ HasK(bufs[t])
        /\ \E b \in KeepK(query, bufs[t]) :
             \/ /\ variant = "parallel" \/ t = TreeAt(Last)
                /\ bufs' = [bufs EXCEPT ![t] = b]
                /\ status' = [status EXCEPT ![t] = "done"]
             \/ \E i \in 2..Last, preloaded \in Preloaded(b) :
                  /\ variant # "parallel" /\ t = TreeAt(i - 1)
                  /\ bufs' = [bufs EXCEPT ![t] = b, ![TreeAt(i)] = preloaded]
                  /\ status' = [status EXCEPT ![t] = "merged", ![TreeAt(i)] = "searching"]
  /\ UNCHANGED <<inputs, stack, radius, adding>>

\* The loop that puts the results of tree j into the buffer of the first tree
Combine(j) ==
  /\ variant = "parallel"
  /\ \A t \in 1..Last : status[t] = IF t \in 2..(j - 1) THEN "merged" ELSE "done"
  /\ adding[1] = {}
  /\ \E b \in IF j = 2 THEN Preloaded(bufs[1]) ELSE {bufs[1]},
        N \in FirstK(bufs[j]) :
       /\ bufs' = [bufs EXCEPT ![1] = b]
       /\ adding' = [adding EXCEPT ![1] = N]
  /\ status' = [status EXCEPT ![j] = "merged"]
  /\ UNCHANGED <<inputs, stack, radius>>

Search(t) == Add(t) \/ KnnHelper(t) \/ OtherChild(t) \/ KnnPrune(t) \/ Finish(t)

\* The tree whose buffer the result is read from
ResultTree == IF variant = "parallel" THEN 1 ELSE TreeAt(Last)

Finished ==
  /\ \A t \in 1..Last : status[t] = IF t = ResultTree THEN "done" ELSE "merged"
  /\ adding[ResultTree] = {}

\* The query has returned or thrown.  Anywhere else a state without a step is a
\* deadlock, and TLC looks for one.
Ended == (Finished \/ \E t \in 1..Last : status[t] = "thrown") /\ UNCHANGED vars

Next ==
  \/ \E t \in 1..Last : Search(t)
  \/ \E j \in 2..Last : Combine(j)
  \/ Ended

Spec == Init /\ [][Next]_vars

-----------------------------------------------------------------------------

\* What the search of t has to have seen when it is done: its tree, and with a
\* common buffer the trees before it
Scope(t) ==
  UNION {trees[TreeAt(i)].points :
         i \in {j \in 1..Last : TreeAt(j) = t \/ (variant # "parallel"
                                   /\ \E l \in j..Last : TreeAt(l) = t)}}

AllPoints == UNION {trees[t].points : t \in 1..Last}

Answers(N, S) ==
  /\ N \subseteq S /\ Cardinality(N) = k
  /\ \A p \in N, o \in S \ N : Cost(query, p) <= Cost(query, o)

(***************************************************************************)
(* The search of a tree ends with the k nearest points of that tree, or of *)
(* it and the trees before it if they share the buffer: no subtree with a  *)
(* nearer point has been pruned by a radius or a box that was stale, and   *)
(* none dropped by keepK.                                                  *)
(***************************************************************************)
SearchExact ==
  \A t \in 1..Last :
    status[t] = "done" /\ ~(t = 1 /\ \E j \in 2..Last : status[j] = "merged")
      => Answers(bufs[t].elems, Scope(t))

(***************************************************************************)
(* The points returned are the k nearest of the LogTree, whichever way the *)
(* trees are combined; the array they are read from is not sorted, and     *)
(* nobody calls keepK before it is read.                                   *)
(***************************************************************************)
KnnExact ==
  Finished => \A N \in FirstK(bufs[ResultTree]) : Answers(N, AllPoints)

(***************************************************************************)
(* keepK throws only at the end of the search of a tree that starts with   *)
(* an empty buffer and holds fewer than k points.                          *)
(***************************************************************************)
ThrowsOnlyOnSmallTree ==
  \A t \in 1..Last :
    status[t] = "thrown" => /\ Cardinality(trees[t].points) < k
                            /\ variant = "parallel" \/ t = TreeAt(1)

=============================================================================
