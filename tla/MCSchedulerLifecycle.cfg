SPECIFICATION Spec
CONSTANTS
  s1 = s1
  s2 = s2
  a1 = a1
  a2 = a2
  unpinned = unpinned
  pinned = pinned
  alone = alone
  peered = peered
  Shapes = {s1, s2}
  AlertLists = {a1, a2}
  Pins = {unpinned, pinned}
  PeerLists = {alone, peered}
  Configs <- MCConfigs
  Starts <- MCStarts
  Claims <- MCClaims
  Unbuildable = {s2}
  Reloaders = {sighup, watcher}
  Broken = broken
  Nothing = nothing
  MaxEdits = 3
CHECK_DEADLOCK FALSE
INVARIANTS Inv
PROPERTIES SchedulerCatchesUp
