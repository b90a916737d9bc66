---------------------------- MODULE MCFilteredTree ----------------------------
(***************************************************************************)
(* TLC instances of FilteredTree: points that share some cells, in two     *)
(* arrays of two.                                                          *)
(***************************************************************************)
EXTENDS FilteredTree

MCPoints == 1..3

MCXXH64(p, j) == IF j = 1 THEN p ELSE (p + 1) \div 2

MCInsertBatches == {<<1>>, <<2>>, <<2, 3>>}

\* Not closed under subsets: to miss a point of a batch is no other erase.
MCEraseBatches == {{1}, {2, 3}, MCPoints}

=============================================================================
