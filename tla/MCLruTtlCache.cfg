SPECIFICATION Spec
CONSTANTS
  Keys = {k1, k2, k3}
  Values = {v1, v2}
  None = None
  MaxEntries = 2
  Ttl = 2
  MaxNow = 4
  MaxPuts = 6
SYMMETRY Symmetry
INVARIANTS
  TypeOK
  SameKeys
  Bounded
  OldestFirst
PROPERTIES
  ImplementsTtlStore
CHECK_DEADLOCK TRUE
