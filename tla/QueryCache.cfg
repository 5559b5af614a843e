SPECIFICATION CacheSpec
CONSTANTS
  Keys = {k1, k2}
  Callers = {r1, r2}
  MaxEntries = 1
  MaxLeaders = 1
  MaxRequests = 3
  MaxVersion = 2
CHECK_DEADLOCK FALSE
INVARIANTS CacheInv NeverBackInTime
PROPERTIES EveryCallerAnswered
