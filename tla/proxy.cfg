SPECIFICATION Spec
CONSTANTS
  Pairs <- EndingPairs
  MaxRequest = 3
  MaxReply = 2
INVARIANTS InOrder ReplyIsWhole
PROPERTIES ListenerReturns ConnectReturnsToo ClientIsTold
CHECK_DEADLOCK FALSE
