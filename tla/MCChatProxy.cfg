SPECIFICATION Spec
CONSTANTS
  Requests = {r1, r2, r3}
  Texts = {t}
  Usages = {u1}
  NoUsage = NoUsage
  UpstreamStatuses = {429}
  MaxLen = 2
  MaxChunks = 2
SYMMETRY Symmetry
INVARIANTS
  TypeOK
  StoreIsWindow
  Inv
  RecordTellsOutcome
  DoneIsAnnounced
  AnswersAccountedFor
PROPERTIES
  SettledStays
  ImplementsCallLog
CHECK_DEADLOCK FALSE
