SPECIFICATION Spec
CONSTANTS
  BatchLimit = 2
  Window = 4
  Capacity = 3
  MaxCycles = 5
  MaxFaults = 2
CHECK_DEADLOCK FALSE
INVARIANTS Inv RedeliveryIsSafe
PROPERTIES EveryCycleLeaves
