SPECIFICATION Spec
CONSTANTS
    Key = {k1, k2, k3, k4, k5}
    Value = {v1, v2}
    MaxElements = 4
    MaxBlocks = 3
    SingleBlock = 2
    FirstBlock = 1
    MaxSize = 65472
SYMMETRY KeySymmetry
INVARIANTS ListsOK NoCheckFails CapacityReached
PROPERTIES ImplementsLruMap
