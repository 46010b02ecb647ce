\* Three nodes; b and c find each other, and themselves, through a, and lose each
\* other.
SPECIFICATION Spec
CONSTANTS
  a = a
  b = b
  c = c
  Node = {a, b, c}
  Text = {hello}
  Empty = Empty
  None = None
  HALF = 2
  Permanent <- StarPermanent
  Recognised = {a}
  StartSeqno = 0
  OptD = {}
  MAX_VOISINS = 2
  MIN_VOISINS = 2
  Unreliable = TRUE
  Overlap <- LateTypes
  NetCap = 1
  Active = {}
  MaxChange = 0
  MaxRestart = 0
INVARIANTS HistoryNeighbours
SYMMETRY Leaves
