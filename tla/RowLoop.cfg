SPECIFICATION Spec
CONSTANTS
  MaxRows = 7
  FirstFetch = 2
  NextFetch = 3
INVARIANTS
  NoPrefetchAcrossCommit
  TupleTablesAccounted
PROPERTIES
  RowsInOrder
  InterpretedLoopKeepsItsPlace
  FastPathSafe
  LoopEnds
