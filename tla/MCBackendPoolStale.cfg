SPECIFICATION Spec
CONSTANTS
  NoBackend = NoBackend
  NoId = NoId
  NoModel = NoModel
  NoText = NoText
  m = m
  text = text
  Requests = {r1, r2}
  Asks <- MCAsks
  Consoles = {c1}
  AtStart = 2
  Routings <- MCRoutings
  MaxEdits = 1
SYMMETRY Symmetry
INVARIANTS
  EditsTakeEffect
CHECK_DEADLOCK FALSE
