SPECIFICATION Spec
CONSTANTS
  m_rollsize = 2
  m_flush_interval = 1
  m_check_every_n_appends = 2
  kRollPerSeconds = 2
  MaxTime = 3
  BufferSize = 2
  MaxLines = 4
INVARIANTS LoggingInv OversizeHasAReason
PROPERTIES LoggingProgress
CHECK_DEADLOCK FALSE
