CONSTANTS
  Plans <- Q19Only
  Tables <- Q19Tables
  Byte <- SignedByte
  LiteralByte <- SignedByte
  NumWords = 1
  NumChunks = 1
  Lane = {l1}
  LAST_BYTE = 4
SPECIFICATION QuerySpec
INVARIANTS SelfCheckPasses
CHECK_DEADLOCK FALSE
