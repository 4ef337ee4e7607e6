\* The walks through time and the transfers end.
CONSTANTS
  kCheapPrepend = 2
  kInitialSize = 2
  ExtraBuf = 2
  Base = 2
  CR = 1
  LF = 0
  Widths = {1, 2}
  MaxContent = 4
  MaxChunk = 3
  LastYear = 2500
  SampleSeconds = {0, 59, 3600, 43199, 86399}
  ZoneFiles <- MCZoneFiles
  FixedZones = {0, 28800}
  Step = 1800
  MaxSteps = 30
  kMaxTrial = 3
  g_chunk_size = 2
  FileSizes = {0, 3, 5}
SPECIFICATION Spec
INVARIANTS ContentKept ReadsAgree SpaceIsMade MemoryBounded CalendarAgrees ZoneConverts
PROPERTIES FileArrives
CHECK_DEADLOCK FALSE
