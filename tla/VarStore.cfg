SPECIFICATION Spec
CONSTANTS
  Vars = {1, 2}
  Type = {"text", "array", "record", "native", "promise", "argv"}
  atomic = FALSE
  MaxHeap = 6
CONSTRAINT Bound
VIEW View
INVARIANTS
  ValuesKept
  PointersOwned
  NothingLeaks
CHECK_DEADLOCK FALSE
