SPECIFICATION FairSpec
CONSTANTS
  u1 = u1
  u2 = u2
  u3 = u3
  u4 = u4
  Tasks <- MCTasks
  Sends <- MCSends
  maxConcurrent = 1
  maxQueue = 2
  plain = plain
  wide = wide
  odd = odd
  relabel = relabel
  region = region
  sector = sector
  north = north
  trade = trade
  A = A
  B = B
  Books <- MCBooks
  Book <- MCBook
  Dims = {region, sector}
  Codes = {north, trade}
  Labels = {A, B}
  Axis <- MCAxis
  Structure = {region}
  Axes = {region, sector}
  None = None
  MaxFaults = 1
INVARIANTS FactsFindTheirMembers AnsweredFactsAreThere
PROPERTIES ImplementsGate EveryUploadIsAnswered
CHECK_DEADLOCK FALSE
