SPECIFICATION Spec
CONSTANTS
  Sources = {s1, s2, s3}
  Ids = {a, b}
  Requests = {r1}
  Window = 2
  MaxSources = 2
  MaxAdmits = 3
SYMMETRY Interchangeable
INVARIANTS Inv
PROPERTIES ImplementsRecentWindow RegisteredKeepWindows
