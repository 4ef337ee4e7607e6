SPECIFICATION FairSpec
CONSTANTS
  Scenarios <- SendsDuringFile
  Callers = {}
  MaxCalls = 2
  MaxArrivals = 1
  FileChunks = 2
  HighWaterMark = 9
PROPERTIES BufferedBytesAreSent
CHECK_DEADLOCK FALSE
