SPECIFICATION Spec
CONSTANTS
  Subs = {s1, s2}
  Payloads = {p1}
  Workers = {w1, w2}
  Curators = {c1, c2}
  NoOne = NoOne
  MaxFaults = 1
  MaxLandings = 2
SYMMETRY ActorSymmetry
CHECK_DEADLOCK FALSE
INVARIANTS
  ClaimIsExclusive
  GoldIsGated
  DryRunNeverLands
  PublishedIffLanded
PROPERTIES
  ImplementsLifecycle
