SPECIFICATION Spec
CONSTANTS
  MaxLines = 2
INVARIANTS
  FlushedAtEnd
CHECK_DEADLOCK FALSE
