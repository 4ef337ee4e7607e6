SPECIFICATION Spec
CONSTANTS
  Scenarios <- Safety
  Callers = {c1}
  MaxCalls = 3
  MaxArrivals = 1
  FileChunks = 2
  HighWaterMark = 2
INVARIANTS ConnectionInv ClosedOnce
PROPERTIES OutputInOrder
CHECK_DEADLOCK FALSE
