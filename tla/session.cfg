SPECIFICATION Spec
CONSTANTS
  Kinds = {"tcp", "http", "dns", "ssh"}
  MaxChunks = 3
  Cap = 1
  MayLeave = TRUE
  MayDie = TRUE
INVARIANTS NothingLostWhileOpen EchoIsWhole ReturnsClosed ClosesForAReason
PROPERTY SessionEnds
CHECK_DEADLOCK FALSE
