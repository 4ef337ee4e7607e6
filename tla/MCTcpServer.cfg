SPECIFICATION Spec
CONSTANTS
  MaxThreads = 3
  MaxConns = 4
  MaxOpenFiles = 4
INVARIANTS  NothingLeftBehind
PROPERTIES ServerProgress
CHECK_DEADLOCK FALSE
