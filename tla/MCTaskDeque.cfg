SPECIFICATION Spec
CONSTANTS
  Producers = {p1, p2}
  Consumers = {c1, c2}
  Owner = o
  kMaxTaskDequeSize = 1
  Limits = {0, 1}
  MaxPushes = 2
  MaxSpurious = 1
INVARIANTS HolderIsOwner DequeInv
PROPERTIES WaitsEnd
CHECK_DEADLOCK FALSE
