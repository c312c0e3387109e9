SPECIFICATION Spec
CONSTANTS
  None = None
  call = call
  Convs = {c1, c2}
  CallIds = {call}
  Backends = {b1, b2}
  Contents <- Written
  MaxEntries = 2
  Ttl = 1
  MaxReplies = 1
  MaxDeltas = 3
  MaxSignatures = 4
  MaxClears = 1
  MaxNow = 1
SYMMETRY Symmetry
CONSTRAINT Instances
INVARIANTS
  TypeOK
  OwnSignatureOrNone
  LostForAReason
  TextComesBack
CHECK_DEADLOCK FALSE
