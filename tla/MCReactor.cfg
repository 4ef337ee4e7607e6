SPECIFICATION FairSpec
CONSTANTS
  Callers = {c1, c2}
  Tasks = {t1, t2, t3}
  Channels = {ch1}
  WakeupChannel = wch
  MaxEventfd = 2
INVARIANTS NoLostWakeup
PROPERTIES ImplementsTaskQueue RequestsAreServed
