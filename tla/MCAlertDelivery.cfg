SPECIFICATION ShardSpec
CONSTANTS
  perSource = perSource
  quorum = quorum
  a = a
  b = b
  all = all
  Keys = {perSource, quorum}
  Origins = {a, b, all}
  States <- MCStates
  Sizes = {1, 4}
  ShardDepth = 2
  ShardBytes = 3
  MaxEvents = 4
CHECK_DEADLOCK FALSE
INVARIANTS ShardInv
PROPERTIES PostedInOrder Drains
