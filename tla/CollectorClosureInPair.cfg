SPECIFICATION Spec
CONSTANTS
  Addr = {a1, a2, a3}
  Cell = {c1, c2}
  Var = {x, proc}
  Formal = x
  Null = Null
  Static = Static
  Global = Global
  MaxDepth = 1
  MaxTemps = 1
  MaxPairs = 1
  ClosuresInPairs = TRUE
  NullBindings = FALSE
  x = x
  proc = proc
SYMMETRY AddressSymmetry
INVARIANTS
  NoDangling
