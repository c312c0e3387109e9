SPECIFICATION Spec
CONSTANTS
  NoBackend = NoBackend
  NoId = NoId
  NoModel = NoModel
  NoText = NoText
  m = m
  text = text
  Requests = {r1, r2}
  Asks <- MCAsks
  Consoles = {c1, c2}
  AtStart = 2
  Routings <- MCRoutings
  MaxEdits = 2
SYMMETRY Symmetry
INVARIANTS
  TypeOK
  StaleOnlyIfLate
  RoundRobinFair
  RefusedByDefaultOnly
  EditsMissOnlyAfterLoss
CHECK_DEADLOCK FALSE
