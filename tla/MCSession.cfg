CONSTANTS
  MaxLength = 3
  kMultipleUndoMaxSize = 1
  ZeroQuery = TRUE
  MaxOwed = 0
SPECIFICATION Spec
INVARIANTS Agreement SegmentsCoverComposition CheckHolds OffIsQuiet
CHECK_DEADLOCK FALSE
