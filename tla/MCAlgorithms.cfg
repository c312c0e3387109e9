SPECIFICATION Loops
CONSTANTS
  Width = 64
  Hour = 4
  NoTokens = NoTokens
  Absent = Absent
  Null = Null
  Blank = Blank
  Pomfret = Pomfret
  b1 = b1
  b2 = b2
  m1 = m1
  m2 = m2
  h1 = h1
  h2 = h2
  Upstream = Upstream
  Records <- MCRecords
  Lines <- MCLines
  Models <- MCModels
  Rules <- MCRules
  Now = 14
  Sinces = {0, 10, 12, 17}
  Limits = {0, 1, 2, 5}
  Hours = {0, 1, 2}
  Secs = {1, 3, 4}
  MaxInput <- MCMaxInput
INVARIANTS
  SeriesAgreesWithStats
  SearchTellsAll
  StatsAddUp
  RebuildsStream
  AliasesListed
CHECK_DEADLOCK FALSE
