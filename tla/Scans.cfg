CONSTANTS
  Plans <- AllPlans
  Byte <- TernaryByte
  LiteralByte <- MiddleByte
  NumWords = 1
  NumChunks = 1
  Lane = {l1, l2}
  LAST_BYTE = 4
SYMMETRY SymmetricLanes
SPECIFICATION MixedSpec
INVARIANTS TypeOK StoredBitsCorrect EarlyStopSound
PROPERTIES LoadsOnlyWhatIsOpen
CHECK_DEADLOCK FALSE
