SPECIFICATION Spec
CONSTANTS
  MaxDepth = 2
  MaxXact = 2
  MaxSub = 1
  MaxPlan = 3
  RecompileAtCall = FALSE
INVARIANTS
  RunningTreesAlive
  TreesNotReentered
  EcontextsInStep
  OneReferencePerTransaction
PROPERTY RunsCurrentPlan
CHECK_DEADLOCK FALSE
