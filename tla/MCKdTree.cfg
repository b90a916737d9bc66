CONSTANTS
  DIM = 2
  BUILD_BASE_CASE = 4
  LOG2_SIZE = 3
  Pow2 <- MCPow2
  Kinds <- MCKinds

SPECIFICATION Spec

\* erase<false> may follow a null pointer.
CHECK_DEADLOCK FALSE

INVARIANTS
  TypeOK
  HoldsExactly
  ContainsExact
  RangeQueryExact
  LeavesExact
  ReturnedHoldsTheRest
  RootKeepsBothSides

PROPERTIES
  EraseEnds
