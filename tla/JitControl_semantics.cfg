SPECIFICATION Spec
CONSTANTS
  Label = {A}
  NoLabel = none
  MaxDepth = 3
  MaxFrames = 2
  Features = {}
PROPERTIES
  ImplementsSemantics
  UnwindingEnds
