SPECIFICATION Spec
CONSTANTS
  FrameId = {g, f1, f2, f3}
  Global = g
  Cell = {c1, c2}
  Var = {x}
  Formals = {x}
  Null = Null
  SharedTests = FALSE
  MaxStack = 5
  MaxClosures = 1
  x = x
  y = y
SYMMETRY AddressSymmetry
INVARIANTS
  TypeOK
  EnvRestored
  LocalsIntact
  ChainMatchesCalls
  FramesOwned
  SetHitsVariable
PROPERTIES
  ErrorSticks
