SPECIFICATION Spec
CONSTANTS
  Dims = {"time", "geo"}
  TimeDim = "time"
  Vars = {"sort"}
  Params = {"view"}
  Values = {0, 1, 2}
  Codes = {"gdp", "pop"}
  Obs <- FewObs
  Nodes <- FewNodes
  Node <- FewSpecs
  Ambient = {"time", "geo"}
  None = None
CHECK_DEADLOCK FALSE
INVARIANTS
  MemoIsCurrent
PROPERTIES
  ImplementsOracle
