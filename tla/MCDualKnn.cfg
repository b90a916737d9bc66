SPECIFICATION Spec
CONSTANTS
  DIM = 2
  LEAF_SIZE = 1
  k = 2
  QuerySets <- MCQuerySets
  LogTrees <- MCLogTrees
  KdTrees <- MCKdTrees
INVARIANTS
  TypeOK
  DualKnnExact
  DistIsBound
  OneWriter
PROPERTIES
  DistNeverRises
