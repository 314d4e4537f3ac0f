SPECIFICATION Spec
CONSTANTS
  Bits4 = 3
  Bits8 = 4
  FloatMax = 5
  MaxIter = 10
  Cases <- MCCases
INVARIANTS
  ValuesAgree
  ErrorsAreGenuine
  ErrorsAreKept
CHECK_DEADLOCK FALSE
