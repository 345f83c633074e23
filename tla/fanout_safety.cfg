SPECIFICATION Spec
CONSTANTS
  Streams = {s1, s2, s3}
  Abandoners = {s1, s2, s3}
  MaxChunks = 3
SYMMETRY Symmetry
INVARIANTS TypeOK InOrder NobodyMissesAChunk WokenFindsWriter
PROPERTY ImplementsBroadcast
CHECK_DEADLOCK FALSE
