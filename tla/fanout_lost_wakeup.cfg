SPECIFICATION Spec
CONSTANTS
  Streams = {s1, s2}
  Abandoners = {}
  MaxChunks = 2
PROPERTY WriteIsWoken
CHECK_DEADLOCK FALSE
