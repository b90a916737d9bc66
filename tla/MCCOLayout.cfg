CONSTANTS
  DIM = 2
  Trees <- MCTrees
  CO_TOP_BUILD_BASE_CASE = 4
  CO_BOTTOM_BUILD_BASE_CASE = 6

SPECIFICATION Spec

INVARIANTS
  TypeOK
  CallsApart
  BuildsMedianTree
  LayoutIsSerial
