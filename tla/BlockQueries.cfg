CONSTANTS
  Programs <- AllPrograms
  Tables <- TablesOf
  Lane <- TwoLanes
  kNumLanes = 2
  kNumWordBits = 4
  WordsPerAvxUnit = 2
SPECIFICATION Spec
INVARIANTS EveryModelAnswersTheQuery TailIsClear ScanInv
PROPERTIES ImplementsWordwiseScan LoadsOnlyWhatMatters
CHECK_DEADLOCK FALSE
