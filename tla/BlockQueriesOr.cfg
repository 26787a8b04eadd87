CONSTANTS
  Programs <- OrPrograms
  Tables <- TablesOf
  Lane <- TwoLanes
  kNumLanes = 2
  kNumWordBits = 4
  WordsPerAvxUnit = 2
SPECIFICATION Spec
INVARIANTS EveryModelAnswersTheQuery
CHECK_DEADLOCK FALSE
