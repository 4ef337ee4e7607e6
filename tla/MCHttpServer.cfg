\* Finished when the stream is delivered and written.
CONSTANTS
  Streams <- MCStreams
  FileChunks = 2
SPECIFICATION Spec
INVARIANTS HttpInv  ResponsesNotMixed
 
CHECK_DEADLOCK FALSE
