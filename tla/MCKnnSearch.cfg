SPECIFICATION Spec
CONSTANTS
  DIM = 2
  LEAF_SIZE = 1
  k = 2
  Queries <- MCQueries
  LogTrees <- MCLogTrees
INVARIANTS
  TypeOK
  SearchExact
  KnnExact
  ThrowsOnlyOnSmallTree
