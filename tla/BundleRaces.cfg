SPECIFICATION BundleSpec
CONSTANTS
  Members = {m1, m2, m3}
  DryRuns = {m3}
  Requests = {p1, p2, p3}
  Attaches = {a1, a2}
  NoMember = NoMember
  MaxFaults = 1
SYMMETRY BundleSymmetry
CHECK_DEADLOCK FALSE

  
PROPERTIES
  PublishedBundleIsClosed
