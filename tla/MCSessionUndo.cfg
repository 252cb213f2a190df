CONSTANTS
  MaxLength = 2
  kMultipleUndoMaxSize = 1
  ZeroQuery = FALSE
  MaxOwed = 3
SPECIFICATION Spec
INVARIANT UndoTakesBackCommit
CHECK_DEADLOCK FALSE
