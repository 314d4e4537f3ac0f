SPECIFICATION Spec
CONSTANTS
  Fn = {f, e}
  EventTriggerFn = {e}
  Variant = {v1, v2}
  Struct = {s1, s2, s3}
  NoStruct = NoStruct
  NoKey = NoKey
  NoEntry = NoEntry
  MaxVersion = 2
  MaxCalls = 3
SYMMETRY StructSymmetry
INVARIANTS
  TypeOK
  BusyFunctionsKeepTheirTree
  UseCountsMatchCalls
  CurEstateIsInnermost
  RunsVisibleVersion
  CodeEmbedsLiveTree
