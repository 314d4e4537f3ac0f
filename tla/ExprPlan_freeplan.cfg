SPECIFICATION Spec
CONSTANTS
  MaxDepth = 2
  MaxXact = 1
  MaxSub = 1
  MaxPlan = 3
  RecompileAtCall = TRUE
INVARIANT PlanHeldWhileExecuting
CHECK_DEADLOCK FALSE
