------------------------------ MODULE MCCOLayout ------------------------------
(***************************************************************************)
(* TLC instances of COLayout: the small sizes, and larger ones of which    *)
(* two or three levels of parts are built by tasks, with and without       *)
(* coarsening.                                                             *)
(***************************************************************************)
EXTENDS COLayout

MCTrees == [n : (2..20) \cup {33, 38}, leaf_size : {1}] \cup [n : 4..26, leaf_size : {3}]

=============================================================================
