SPECIFICATION Spec
CONSTANTS
  None = None
  Capacity = 1
  MaxChanges = 2
  MaxLoads <- MCMaxLoads
  MaxFaults = 1
INVARIANTS
  TypeOK
  StaleForAReason
PROPERTY EventuallyFresh
