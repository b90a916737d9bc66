------------------------------ MODULE QueryTrees ------------------------------
(***************************************************************************)
(* The kd-trees a query meets: what builds and erases leave, halves by the *)
(* object median, without the nodes that have nothing left, and with boxes *)
(* as tight as bulk_erase makes them, or, above the leaves, as wide as     *)
(* they were built (erase recomputes only some).  Of several points with   *)
(* the median's coordinate, any may be among those that go left.           *)
(*                                                                         *)
(* A tree is a record that holds its subtrees.  A LogTree is described by  *)
(* the points its buffer tree may hold, any part of them, and those static *)
(* trees 0, 1, ... were built over, as many as they have room for.         *)
(***************************************************************************)
EXTENDS Integers, Sequences, FiniteSets, FiniteSetsExt

CONSTANTS DIM, LEAF_SIZE

ASSUME DimAssumption == DIM \in Nat \ {0}

ASSUME LeafSizeAssumption == LEAF_SIZE \in Nat \ {0}

Dims == 1..DIM

\* Distances are squared, and order as distances do.
Cost(q, p) == LET square[d \in 0..DIM] ==
                    IF d = 0 THEN 0
                    ELSE square[d - 1] + (q[d] - p[d]) * (q[d] - p[d])
              IN  square[DIM]

BoxOf(S) == [min |-> [d \in Dims |-> Min({p[d] : p \in S})],
             max |-> [d \in Dims |-> Max({p[d] : p \in S})]]

LowerHalf(S, d) ==
  CHOOSE L \in kSubset(Cardinality(S) \div 2, S) : \A p \in L, q \in S \ L : p[d] <= q[d]

\* The nodes of the tree over built, by the points they were built over and the
\* dimension they are split in, after the points not in present have been erased.
\* The root stays, and so does a side of it that has lost all its points.
Nodes(built, present, tight) ==
  LET node[S \in SUBSET built] == [d \in Dims |->
        LET lower == LowerHalf(S, d)
            upper == S \ lower
            next == (d % DIM) + 1
            keepsBoth == lower \cap present # {} /\ upper \cap present # {}
        IN  IF Cardinality(S) <= LEAF_SIZE
              THEN [points |-> S \cap present,
                    box |-> BoxOf(IF S \cap present # {} THEN S \cap present ELSE S),
                    split_dimension |-> d, split_value |-> 0, children |-> <<>>]
            ELSE IF S # built /\ ~keepsBoth /\ upper \cap present # {}
              THEN node[upper][next]
            ELSE IF S # built /\ ~keepsBoth /\ lower \cap present # {}
              THEN node[lower][next]
            ELSE [points |-> S \cap present,
                  box |-> BoxOf(IF tight /\ keepsBoth THEN S \cap present ELSE S),
                  split_dimension |-> d,
                  split_value |-> Min({p[d] : p \in upper}),
                  children |-> <<node[lower][next], node[upper][next]>>]]
  IN  node

Tree(built, present, tight) == Nodes(built, present, tight)[built][1]

IsLeaf(node) == node.children = <<>>

\* What there may be in a static tree, which is emptied when at most half full;
\* its root then still has both sides (RootKeepsBothSides of KdTree).
MayRemain(built) ==
  {P \in SUBSET built : 2 * Cardinality(P) > Cardinality(built)
                        /\ LowerHalf(built, 1) \cap P # {}
                        /\ P \ LowerHalf(built, 1) # {}}

\* A tree on its own, of which erase<false> has cut off a side of the root that
\* had no points left
HalfTree(built, present) ==
  LET tree == Tree(built, present, TRUE)
      kept == CHOOSE child \in {tree.children[1], tree.children[2]} : child.points # {}
  IN  [tree EXCEPT !.box = kept.box, !.children = <<kept>>]

\* The buffer tree as gatherFullTrees lists it: not at all if it is empty
BufferTrees(lt) ==
  {<<>>} \cup {<<Tree(P[1], P[2], tight)>> :
                 P \in {P \in (SUBSET lt.buffer) \X (SUBSET lt.buffer) :
                          P[2] # {} /\ P[2] \subseteq P[1]},
                 tight \in BOOLEAN}

\* The static trees there are, in order
StaticTrees(lt) ==
  LET static[i \in 0..Len(lt.static)] ==
        IF i = 0 THEN {<<>>}
        ELSE static[i - 1] \cup
             {Append(s, Tree(lt.static[i], P, tight)) :
                s \in static[i - 1], P \in MayRemain(lt.static[i]), tight \in BOOLEAN}
  IN  static[Len(lt.static)]

\* The roots gatherFullTrees lists
GatheredTrees(lt) == {b \o s : b \in BufferTrees(lt), s \in StaticTrees(lt)}

=============================================================================
