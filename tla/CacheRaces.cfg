SPECIFICATION CacheSpec
CONSTANTS
  Slices = {s1, s2}
  Queries = {c1, c2, c3}
  Null = Null
  OneByOne = FALSE
  BodyLoss = TRUE
  MaxVersion = 2
SYMMETRY CacheSymmetry
CHECK_DEADLOCK FALSE
INVARIANTS
  RowsAreNotOlderThanTag
PROPERTIES
  RevalidatedWithOwnTag
