SPECIFICATION Spec
CONSTANTS
    FlagInterval = 180
    Load = {0, 100}
    PingTrial = 3
INVARIANTS TypeOK
PROPERTIES NoAbortAfterStop JoinReturns
