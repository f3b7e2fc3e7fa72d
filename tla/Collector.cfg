SPECIFICATION Spec
CONSTANTS
  Addr = {a1, a2, a3}
  Cell = {c1, c2}
  Var = {x, proc}
  Formal = x
  Null = Null
  Static = Static
  Global = Global
  MaxDepth = 1
  MaxTemps = 2
  MaxPairs = 2
  ClosuresInPairs = FALSE
  NullBindings = FALSE
  x = x
  proc = proc
SYMMETRY AddressSymmetry
INVARIANTS
  TypeOK
  WorklistExact
  NoDangling
PROPERTIES
  GarbageFreed
  CollectionAdvances
