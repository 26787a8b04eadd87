CONSTANTS
  NumThreads = 2
  Drivers <- OtherModels
  MayFail = FALSE
SPECIFICATION Spec
INVARIANTS BitsOfThisRound
CHECK_DEADLOCK FALSE
