SPECIFICATION Spec
CONSTANTS
  Sources = {s1, s2}
  Intervals = {1, 2}
  Mins = {0, 1}
  MaxInterval = 2
  Skew = 1
  StaleIntervals = 1
  Sustained = 1
  AheadCeiling = 1
  MaxClock = 4
  MaxCycles = 3
  MaxReloads = 1
SYMMETRY Symmetry
CHECK_DEADLOCK FALSE
INVARIANTS RecoveryIsTold
