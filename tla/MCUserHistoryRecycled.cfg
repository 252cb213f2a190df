SPECIFICATION Spec
CONSTANTS
    Characters = {"a", "b", "."}
    Inputs <- Commits
    PrevWords <- Contexts
    Punctuation = {"."}
    CacheSize = 4
    MaxNextEntries = 2
    Days62 = 0
    MaxTime = 1
    MaxOps = 3
    MaxFaults = 0
PROPERTIES NewWordHasNoPast
