CONSTANTS
  Plans <- FlippingQueries
  Tables <- BoundaryTables
  Byte <- SignedByte
  LiteralByte <- SignedByte
  NumWords = 1
  NumChunks = 1
  Lane = {l1, l2}
  LAST_BYTE = 4
SPECIFICATION QuerySpec
INVARIANTS SelfCheckPasses DroppedLanesAreSettled
PROPERTIES QueryLoadsOnlyWhatIsOpen
CHECK_DEADLOCK FALSE
