------------------------------- MODULE MCKdTree -------------------------------
(***************************************************************************)
(* TLC instances of KdTree, in two dimensions.                             *)
(***************************************************************************)
EXTENDS KdTree

\* No two points share a coordinate, and the order by one coordinate is not
\* the order by the other.
MCPoints7 ==
  {<<0, 6>>, <<2, 12>>, <<4, 0>>, <<6, 8>>, <<8, 4>>, <<10, 2>>, <<12, 10>>}

MCPoints5 == {<<0, 6>>, <<2, 2>>, <<4, 8>>, <<6, 0>>, <<8, 4>>}

\* One point is far from the others, alone on its side of the middle.
MCPointsFar == {<<0, 6>>, <<2, 12>>, <<4, 0>>, <<6, 8>>, <<8, 4>>, <<40, 2>>}

\* Two of them share a coordinate.
MCPointsTied == {<<0, 6>>, <<2, 2>>, <<2, 8>>, <<6, 0>>}

\* The points with the smallest first coordinates, in each of these numbers
FirstBatches(points, sizes) ==
  {S \in SUBSET points :
     Cardinality(S) \in sizes /\ \A p \in S, q \in points \ S : p[1] < q[1]}

SizedBatches(points, sizes) == {S \in SUBSET points : Cardinality(S) \in sizes}

\* A few of the points, or all of them
EraseBatches(points, most) == SizedBatches(points, 1..most) \cup {points}

MCPow2 == [i \in 0..LOG2_SIZE |-> 2^i]

\* Trees of a LogTree, built once over a number of points, and erased from
Static(median_, leaf, points, sizes) ==
  [use |-> "static", log2size |-> 3, median |-> median_, leaf_size |-> leaf, points |-> points,
   inserts |-> FirstBatches(points, sizes), erases |-> EraseBatches(points, 2)]

\* Trees that any points are inserted into
Dynamic(use_, median_, points) ==
  [use |-> use_, log2size |-> 2, median |-> median_, leaf_size |-> 1, points |-> points,
   inserts |-> SizedBatches(points, 1..4), erases |-> EraseBatches(points, 2)]

MCKinds ==
  [coarse |-> Static("object", 2, MCPoints7, {5, 7}), fine |-> Static("object", 1, MCPoints7, {6}),
   spatial |-> Static("spatial", 1, MCPointsFar, {6}),
   buffer |-> Dynamic("buffer", "object", MCPoints5), alone |-> Dynamic("alone", "object", MCPoints5),
   spatial_alone |-> Dynamic("alone", "spatial", MCPoints5)]

MCAlone == [alone |-> Dynamic("alone", "object", MCPoints5)]

MCTied == [tied |-> Dynamic("alone", "object", MCPointsTied)]

=============================================================================
