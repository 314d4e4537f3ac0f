SPECIFICATION Spec
CONSTANTS
  Label = {A}
  NoLabel = none
  MaxDepth = 2
  MaxFrames = 2
  Features = {"foreach_escape"}
PROPERTY
  ForeachReturnEndsFunction
