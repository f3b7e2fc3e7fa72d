SPECIFICATION Spec
CONSTANTS
  Addr = {a1, a2}
  Cell = {c1, c2}
  Var = {x, proc}
  Formal = x
  Null = Null
  Static = Static
  Global = Global
  MaxDepth = 1
  MaxTemps = 1
  MaxPairs = 0
  ClosuresInPairs = FALSE
  NullBindings = TRUE
  x = x
  proc = proc
PROPERTIES
  CollectionFinishes
CHECK_DEADLOCK FALSE
