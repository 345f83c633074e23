SPECIFICATION Spec
CONSTANTS
  MaxChunks = 2
  Pieces = 2
INVARIANT LogsWhatPasses
PROPERTIES ImplementsPlain ClosedEndIsLeft
CHECK_DEADLOCK FALSE
