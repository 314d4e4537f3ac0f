SPECIFICATION Spec
CONSTANTS
  Label = {A}
  NoLabel = none
  FuncName = A
  MaxDepth = 3
INVARIANTS
  SubtransactionsMatchNesting
  CurErrorIsInnermostAndIntact
  StmtMcontextUnchangedAtBlockExit
PROPERTIES
  LeavingForSetsFound
  UnwindingEnds
  ImplementsSemantics
