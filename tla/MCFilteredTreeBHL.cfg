CONSTANTS
  NUM_ARRAYS = 2
  num_buckets = 2
  XXH64 <- MCXXH64
  Owners = {"BHL"}
  Points <- MCPoints
  InsertBatches <- MCInsertBatches
  EraseBatches <- MCEraseBatches

SPECIFICATION Spec

PROPERTY ImplementsPointSet
