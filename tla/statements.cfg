SPECIFICATION Spec
CONSTANTS
  MaxInput = 6
  MaxToken = 4
INVARIANTS Adjacent PiecesFit CutWhereTheInputSays EndsForALongPiece
PROPERTIES CompleteIsActedOn
CHECK_DEADLOCK FALSE
