SPECIFICATION RingSpec
CONSTANTS
  Targets = {web, peer}
  HealthTargets = {peer}
  BaseSizes = {1}
  HopSizes = {0, 2}
  StructBytes = 1
  InitialEntries = 1
  Budget = 7
  BatchLimit = 2
  MaxCycles = 5
INVARIANTS
  Inv ArrayInv
PROPERTIES
  BudgetKept HealthHopsWithheld MutexReleased ImplementsShedQueue ImplementsPushSink
