SPECIFICATION Spec
CONSTANTS
  Streams = {s1, s2}
  Headers <- HeaderOptions
  Commands <- PostThroughProxy
INVARIANT EveryStreamSeesOptions
CHECK_DEADLOCK FALSE
