SPECIFICATION PageSpec
CONSTANTS
  Pages = {p1, p2}
  Editors = {e1, e2}
  Clients = {k1}
  Null = Null
  MaxClock = 4
  MaxVersions = 2
CHECK_DEADLOCK FALSE
INVARIANTS
  RevalidationIsSound
PROPERTIES
  OneLiveVersion
