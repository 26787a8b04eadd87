CONSTANTS
  Drivers <- AllDrivers
  ThreadCounts = {1, 2, 3, 4, 64}
  Words <- SmallWords
  Modulus = 1073741824
  MaxRows = 5
SPECIFICATION Spec
INVARIANTS TypeOK TasksCoverTheTable FillStaysInside RowsAreWhole ColumnsKeepTheirBits
CHECK_DEADLOCK FALSE
