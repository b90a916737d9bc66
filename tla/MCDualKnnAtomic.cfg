SPECIFICATION Spec
CONSTANTS
  DIM = 2
  LEAF_SIZE = 1
  k = 1
  QuerySets <- MCTwoQueries
  LogTrees <- MCThreeTrees
  KdTrees = {}
INVARIANT
  QueriesFindNearest
