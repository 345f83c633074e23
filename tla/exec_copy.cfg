SPECIFICATION Spec
CONSTANTS
  Callers <- CopyCallers
  Program <- CopyProgram
  After <- CopyAfter
  MaxLines = 1
INVARIANTS ReaderClosedOnce WaitAfterReader SignalsInOrder
PROPERTIES ClosedStreamIsReaped OneEndsAllEnd
CHECK_DEADLOCK FALSE
