SPECIFICATION FairSpec
CONSTANTS
  Scenarios <- OnReactorThread
  Callers = {}
  MaxCalls = 2
  MaxArrivals = 1
  FileChunks = 0
  HighWaterMark = 9
PROPERTIES CloseCompletes ShutdownCompletes BufferedBytesAreSent
CHECK_DEADLOCK FALSE
