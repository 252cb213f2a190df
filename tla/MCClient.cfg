CONSTANTS
  MaxPlayBackSize = 2
  Versions = {"same", "olderProduct", "olderProtocol", "newerProtocol"}
  HasRequest = TRUE
  MaxInputs = 3
  MaxFaults = 2
SPECIFICATION Spec
INVARIANTS KeysInOrder CommittedOnce
PROPERTIES FailedInputNotReplayed OperationEnds
CHECK_DEADLOCK FALSE
