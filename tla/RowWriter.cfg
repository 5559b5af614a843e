SPECIFICATION Spec
CONSTANTS
  Producers = {p1, p2}
  ChanCap = 1
  MaxRows = 2
  RetainFactor = 1
  RowsEach = 2
  MaxFailures = 2
CHECK_DEADLOCK FALSE
INVARIANTS Inv StoredInOrder
PROPERTIES NothingWaits
