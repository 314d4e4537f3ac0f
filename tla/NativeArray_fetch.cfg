SPECIFICATION Spec
CONSTANTS
  Val = {1, 2}
  NULL = NULL
  Undef = Undef
  MaxArraySize = 2
  Subscript = {1, 2, 3}
  Source <- MCSource
  FillSize <- MCFillSize
  FillBound = {1, 2}
  MaxAlloc = 3
  StackMax = 1
  MinCap = 3
  Reader = {"call_exec", "return", "open_loop", "fmgr_arg", "condition", "case_when", "query_condition"}
  Writer = {"declare", "assign", "assign_fmgr", "select_into", "fetch"}
INVARIANT
  StoredValueIsLive
CHECK_DEADLOCK FALSE
