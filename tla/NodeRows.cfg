SPECIFICATION FairSpec
CONSTANTS
  Dims = {"time", "geo"}
  TimeDim = "time"
  Vars = {"sort"}
  Params = {"view"}
  Values = {0, 1, 2}
  Codes = {"gdp", "pop"}
  Obs <- FewObs
  Nodes <- FewNodes
  Node <- FewSpecs
  Ambient = {"time", "geo"}
  None = None
  Pages <- FewPages
  PageState <- FewStates
  Stores = 2
  Lasting <- FewLasting
  CacheMax = 3
  MaxMoves = 2
CHECK_DEADLOCK FALSE
INVARIANTS
  ShownIsCurrent
  OutcomeIsOfThisStore
PROPERTIES
  EveryNodeSettles
