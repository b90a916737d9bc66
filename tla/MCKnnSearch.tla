----------------------------- MODULE MCKnnSearch -----------------------------
EXTENDS KnnSearch

\* No two of the points share a coordinate.  Several are equally far from the
\* first query point.
MCQueries == {<<5, 5>>, <<0, 9>>}

\* A buffer of two points with trees 0 and 1, and one larger tree
MCLogTrees ==
  {[buffer |-> {<<4, 6>>, <<9, 1>>},
    static |-> << {<<2, 10>>, <<7, 3>>}, {<<1, 4>>, <<3, 8>>, <<6, 2>>, <<8, 7>>} >>],
   [buffer |-> {},
    static |-> << {<<0, 5>>, <<1, 4>>, <<2, 10>>, <<3, 8>>,
                   <<6, 2>>, <<7, 3>>, <<8, 7>>, <<10, 0>>} >>]}

=============================================================================
