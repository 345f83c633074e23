SPECIFICATION Spec
CONSTANTS
  Streams = {s1, s2, s3}
  Abandoners = {}
  MaxChunks = 2
PROPERTIES NewStreamReturns WriteTerminates EndOfInputIsSeen ImplementsFairBroadcast
CHECK_DEADLOCK FALSE
