CONSTANTS
  NUM_TREES = 1
  BUFFER_SIZE = 2
  Pow2 <- MCPow2
  Points = {1, 2, 3}
  InsertBatches <- MCInsertBatches
  EraseBatches <- MCEraseBatches
  MaxInsert = 3
  MaxErase = 1
  Cuts = {}

SPECIFICATION Spec

INVARIANTS
  InsertedPointsAreFound
