SPECIFICATION ServerSpec
CONSTANTS
    SessionID = {s1, s2}
    App = {a1}
    NoApp = NoApp
    InfinitePast = InfinitePast
    FlagMaxSessionSize = 64
    FlagCreateMinInterval = 0
    FlagWatchDogInterval = 1
    FlagCommandTimeout = 10
    FlagCreateTimeout = 1
    FlagTimeout = 0
    UndoMaxSize = 1
    ClockSteps <- Standing
    StartTime = 0
    MaxTime = 0
    DataId = {1, 2, 3}
    Priority <- TwoPriorities
    MaxSequence = 3
INVARIANTS SessionsUseCurrentData LatestIsPreferred FailedDataNotUsed BuildFindsRequest
PROPERTIES ImplementsSessionHandler RequestedDataLoaded ExitedAppReclaimed
