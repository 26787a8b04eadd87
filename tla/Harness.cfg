CONSTANTS
  NumThreads = 4
  Drivers <- EveryDriver
  MayFail = TRUE
SPECIFICATION FairSpec
INVARIANTS TypeOK OnlyKernelsCounted SumOfThisRound BitsOfThisRound NoPartialMeasurement
PROPERTIES ImplementsMeasuredRounds MainReturnsOrOneGivesUp
CHECK_DEADLOCK FALSE
