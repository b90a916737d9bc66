------------------------------ MODULE MCDualKnn ------------------------------
(***************************************************************************)
(* TLC instances of DualKnn, in two dimensions.                            *)
(***************************************************************************)
EXTENDS DualKnn

\* A leaf and an inner node below the root
MCQuerySets == {{<<0, 2>>, <<5, 5>>, <<9, 1>>}}

Whole(built, present, tight) ==
  [built |-> built, present |-> present, tight |-> tight, half |-> FALSE]

MCStatic == Whole({<<1, 4>>, <<3, 8>>, <<6, 2>>, <<8, 7>>},
                  {<<1, 4>>, <<6, 2>>, <<8, 7>>}, FALSE)

MCBuffer == Whole({<<4, 6>>, <<7, 0>>}, {<<4, 6>>, <<7, 0>>}, TRUE)

MCLogTrees ==
  {[buffer |-> <<MCBuffer>>, static |-> <<MCStatic>>],
   [buffer |-> <<>>, static |-> <<MCBuffer, MCStatic>>],
   [buffer |-> <<Whole({<<4, 6>>}, {<<4, 6>>}, TRUE)>>, static |-> <<MCStatic>>]}

MCKdTrees ==
  {[built |-> {<<1, 4>>, <<3, 8>>, <<6, 2>>, <<8, 7>>}, present |-> {<<6, 2>>, <<8, 7>>},
    tight |-> TRUE, half |-> TRUE],
   Whole({<<4, 6>>}, {<<4, 6>>}, TRUE)}

-----------------------------------------------------------------------------
(* three static trees, of which the third matters to the left query only   *)

MCTwoQueries == {{<<4, 1>>, <<14, 2>>}}

MCThreeTrees ==
  {[buffer |-> <<>>,
    static |-> <<Whole({<<8, 0>>}, {<<8, 0>>}, TRUE),
                 Whole({<<13, 2>>, <<20, 5>>}, {<<13, 2>>, <<20, 5>>}, TRUE),
                 Whole({<<0, 1>>, <<1, 3>>, <<2, 0>>}, {<<0, 1>>, <<1, 3>>, <<2, 0>>}, TRUE)>>]}

=============================================================================
