CONSTANTS
  Scripts <- ResizeScripts
  t1 = t1
  t2 = t2
  Threads <- TwoThreads
  kNumTuplesPerBlock = 4
  kNumWordBits = 2
  WordsPerAvxUnit = 2
SPECIFICATION Spec
INVARIANTS AssertionsHold
CHECK_DEADLOCK FALSE
