\* Three nodes in a line, the ends learning from each other through b only; one end
\* is run with -d and restarts.
SPECIFICATION FairSpec
CONSTANTS
  a = a
  b = b
  c = c
  Node = {a, b, c}
  Text = {hello}
  Empty = Empty
  None = None
  HALF = 8
  Permanent <- LinePermanent
  Recognised = {a, b, c}
  StartSeqno = 0
  OptD = {c}
  MAX_VOISINS = 2
  MIN_VOISINS = 1
  Unreliable = FALSE
  Overlap = {}
  NetCap = 0
  Active = {c}
  MaxChange = 0
  MaxRestart = 1
PROPERTIES Converges CountsRight
