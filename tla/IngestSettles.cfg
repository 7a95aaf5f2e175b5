SPECIFICATION FairSpec
CONSTANTS
  Subs = {s1, s2}
  Payloads = {p1}
  Workers = {w1, w2}
  Curators = {c1}
  NoOne = NoOne
  MaxFaults = 1
  MaxLandings = 2
CHECK_DEADLOCK FALSE
PROPERTIES
  AcceptedJobSettles
