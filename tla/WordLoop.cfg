CONSTANTS
  Plans <- LoopPlans
  Byte <- TernaryByte
  LiteralByte <- MiddleByte
  NumWords = 2
  NumChunks = 2
  Lane = {l1, l2}
  LAST_BYTE = 4
SPECIFICATION LoopSpec
INVARIANTS Inv OpenLanesInv
PROPERTIES ImplementsSelection Terminates
CHECK_DEADLOCK FALSE
