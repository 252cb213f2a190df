SPECIFICATION Spec
CONSTANTS
    SessionID = {s1, s2, s3}
    App = {a1}
    InfinitePast = InfinitePast
    FlagMaxSessionSize = 1
    FlagCreateMinInterval = 0
    FlagWatchDogInterval = 4
    FlagCommandTimeout = 10
    FlagCreateTimeout = 6
    FlagTimeout = 0
    UndoMaxSize = 1
    ClockSteps <- Forward
    StartTime = 0
    MaxTime = 10
SYMMETRY IDSymmetry
INVARIANTS TypeOK SessionMapOK EmptyTimeOK NoDanglingPointer
PROPERTIES EvictsLeastRecentlyUsed YoungSessionKept
