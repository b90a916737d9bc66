CONSTANTS
  DIM = 2
  BUILD_BASE_CASE = 3
  LOG2_SIZE = 2
  Pow2 <- MCPow2
  Kinds <- MCTied

SPECIFICATION Spec

\* erase<false> may follow a null pointer.
CHECK_DEADLOCK FALSE

INVARIANTS
  ContainsExact
