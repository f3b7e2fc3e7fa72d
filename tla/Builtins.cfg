SPECIFICATION Spec
CONSTANTS
  MaxInt = 7
  MaxCast = 1
  Operands <- SomeObjects
  MaxOperands = 3
INVARIANTS
  TypeOK
  ArithmeticRight
  TruthRight
  FailuresExplained
CHECK_DEADLOCK FALSE
