CONSTANTS
  NumThreads = 3
  Drivers <- OneRound
  MayFail = TRUE
SPECIFICATION FairSpec
PROPERTIES MainReturns
CHECK_DEADLOCK FALSE
