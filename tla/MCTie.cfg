\* Two nodes; the second changes its text and restarts, so that two texts come to
\* share an Id and a seqno.  It hears of its own address, does not recognise it and
\* becomes its own neighbour.
SPECIFICATION FairSpec
CONSTANTS
  a = a
  b = b
  c = c
  Node = {a, b}
  Text = {hello, bye}
  Empty = Empty
  None = None
  HALF = 8
  Permanent <- PairPermanent
  Recognised = {a}
  StartSeqno = 0
  OptD = {}
  MAX_VOISINS = 2
  MIN_VOISINS = 2
  Unreliable = FALSE
  Overlap = {}
  NetCap = 0
  Active = {b}
  MaxChange = 2
  MaxRestart = 1
PROPERTIES Converges
