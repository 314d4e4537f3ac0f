SPECIFICATION Spec
CONSTANTS
  Label = {A}
  NoLabel = none
  MaxDepth = 3
  MaxFrames = 3
  Features = {"declare_error", "foreach_escape"}
INVARIANTS
  ExceptionStackMatchesNesting
  SubtransactionsMatchNesting
  PortalsMatchNesting
  EcontextIsCurrent
  CurErrorIsInnermostAndIntact
  FramesOfRunningBlocksAreLive
  StatementContextBelowHandler
