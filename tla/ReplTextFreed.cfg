SPECIFICATION Spec
CONSTANTS
  Text = {t1, t2, t3}
  Var = {x, builtin}
  Builtins = {builtin}
  Null = Null
  Local = Local
  Static = Static
  MaxNesting = 3
  MaxPending = 2
  x = x
  builtin = builtin
SYMMETRY TextSymmetry
INVARIANTS
  BoundTextsKept
CHECK_DEADLOCK FALSE
