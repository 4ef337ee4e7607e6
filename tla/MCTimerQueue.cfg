SPECIFICATION FairSpec
CONSTANTS
  Callers = {c1}
  Slots = {x1, x2}
  MaxTimers = 2
  MaxDelay = 2
  MaxTasks = 1
  MaxJumps = 1
INVARIANTS TimerInv EarliestIsArmed
PROPERTIES CancelIsExact TimerExpires
