SPECIFICATION Spec
CONSTANTS
  Addresses = {a1, a2}
  Talker = a1
  MaxPackets <- PacketsEach
  Backlog = 1
  Cap = 1
  MayDie = TRUE
  MayStall = TRUE
  MayRefuse = TRUE
INVARIANT NothingMixedUp
PROPERTIES ArrivedIsAnswered NoChildIsLeft
CHECK_DEADLOCK FALSE
