CONSTANTS
  NUM_TREES = 3
  BUFFER_SIZE = 2
  Pow2 <- MCPow2
  Points = {1, 2, 3, 4, 5, 6, 7, 8, 9, 10, 11, 12, 13, 14}
  InsertBatches <- MCInsertRuns
  EraseBatches <- Runs
  MaxInsert = 0
  MaxErase = 0
  Cuts = {0, 1, 2, 4, 10, 14}

SPECIFICATION Spec

\* The caller may have nothing left to insert, or stop at a hidden point.
CHECK_DEADLOCK FALSE

INVARIANTS
  TypeOK
  MaskTellsSizes
  MaskFindsAll
  EraseNeverThrows
  EachPointOnce
  BuildsIntoEmptyTree
  SlotsStayRight
  BufferHasRoom

PROPERTIES
  ImplementsPointSet
  OperationsEnd
