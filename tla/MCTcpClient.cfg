SPECIFICATION Spec
CONSTANTS
  MaxFds = 3
  MaxCalls = 3
INVARIANTS ClientInv NothingUsedAfterDestruction
PROPERTIES AttemptsEnd Reconnects
CHECK_DEADLOCK FALSE
