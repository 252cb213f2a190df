SPECIFICATION Spec
CONSTANTS
    SessionID = {s1, s2}
    App = {a1}
    InfinitePast = InfinitePast
    FlagMaxSessionSize = 8
    FlagCreateMinInterval = 2
    FlagWatchDogInterval = 4
    FlagCommandTimeout = 10
    FlagCreateTimeout = 5
    FlagTimeout = 0
    UndoMaxSize = 1
    ClockSteps <- Forward
    StartTime = 0
    MaxTime = 0
INVARIANTS ChunkTablesLive
