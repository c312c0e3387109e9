SPECIFICATION Spec
CONSTANTS
  MaxLines = 3
INVARIANTS
  TypeOK
  CutsDoNotMatter
  NothingBetween
  StrippedIsCached
CHECK_DEADLOCK FALSE
