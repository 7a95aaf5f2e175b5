SPECIFICATION Spec
CONSTANTS
  Series = {s1, s2}
  Values = {v1, v2}
  Releases = {b1, b2, r1}
  Bundles = {b1, b2}
  None = None
  MaxClock = 3
  MaxRevisions = 3
SYMMETRY VintageSymmetry
CHECK_DEADLOCK FALSE
INVARIANTS
  AsOfIsDetermined
  NowIsTheCube
  OneCurrentRelease
PROPERTIES
  VintageIsImmutable
  ImplementsLedger
