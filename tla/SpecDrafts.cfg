SPECIFICATION Spec
CONSTANTS
  sugar = sugar
  plain = plain
  other = other
  t1 = t1
  t2 = t2
  home = home
  Docs = {d1}
  Specs <- MCSpecs
  AtRest <- MCAtRest
  Tabs <- MCTabs
  Browser <- MCBrowser
  Requests = {r1, r2}
  None = None
  MaxSends = 2
  MaxMoves = 3
SYMMETRY Interchangeable
INVARIANTS CleanIsPublished DiscardIsHonest RowIsHeldByItsWriter
PROPERTIES ImplementsRevisionLog
CHECK_DEADLOCK FALSE
