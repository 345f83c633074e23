SPECIFICATION Spec
CONSTANTS
  Callers <- CopyCallers
  Program <- CopyProgram
  After <- CopyAfter
  MaxLines = 0
INVARIANT NoDoubleClose
CHECK_DEADLOCK FALSE
