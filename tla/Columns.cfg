CONSTANTS
  Scripts <- ClientScripts
  t1 = t1
  t2 = t2
  Threads <- TwoThreads
  kNumTuplesPerBlock = 4
  kNumWordBits = 2
  WordsPerAvxUnit = 2
SPECIFICATION FairSpec
INVARIANTS AssertionsHold TailsAreClear ClientFitsStore ClientInv StoreInv
PROPERTIES ImplementsColumnStore EveryCallReturns
CHECK_DEADLOCK FALSE
