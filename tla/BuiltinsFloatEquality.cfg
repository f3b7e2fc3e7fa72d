SPECIFICATION Spec
CONSTANTS
  MaxInt = 7
  MaxCast = 1
  Operands <- SomeObjects
  MaxOperands = 2
INVARIANT FloatsCompared
CHECK_DEADLOCK FALSE
