SPECIFICATION Spec
CONSTANTS
  k1 = k1
  k2 = k2
  k3 = k3
  k4 = k4
  Keys = {k1, k2, k3, k4}
  Vals = {v1, v2}
  Hash <- MCHash
  Null = Null
  Tombstone = Tombstone
  InitialCapacity = 4
  MaxCapacity = 16
INVARIANTS
  TypeOK
  NullSlotLeft
  LoadInv
  KeysUnique
PROPERTIES
  ImplementsMap
  InsertTerminates
