CONSTANTS
  NUM_TREES = 4
  BUFFER_SIZE = 4
  Pow2 <- MCPow2
  BatchSizes <- MCBatchSizes

SPECIFICATION Spec

INVARIANTS
  TypeOK
  AssertsHold
  MovesMatchMasks
  SlicesPartitionBatch
  MovesFillTrees
  ThrowsIffFull

\* insert ends.
CHECK_DEADLOCK FALSE
