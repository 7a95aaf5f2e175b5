SPECIFICATION Spec
CONSTANTS
  Jobs = {j1, j2, j3, j4}
  root = root
  east = east
  west = west
  old = old
  new = new
  short = short
  long = long
  None = None
  Codes = {root, east, west}
  Labels = {old, new}
  Texts = {short, long}
  Codelists <- FewCodelists
  Displays <- FewDisplays
SYMMETRY JobSymmetry
CHECK_DEADLOCK FALSE
INVARIANTS
  OneCurrentRow
  ValidStays
  PathIsTheChain
PROPERTIES
  HistoryStands
  CodelistLands
  DisplaysLand
