\* Two nodes over a network that loses nothing; what is left of a round may
\* still be in flight when the next one starts.
SPECIFICATION FairSpec
CONSTANTS
  a = a
  b = b
  c = c
  Node = {a, b}
  Text = {hello}
  Empty = Empty
  None = None
  HALF = 4
  Permanent <- PairPermanent
  Recognised = {a}
  StartSeqno = 0
  OptD = {}
  MAX_VOISINS = 1
  MIN_VOISINS = 1
  Unreliable = FALSE
  Overlap <- LateTypes
  NetCap = 0
  Active = {a, b}
  MaxChange = 1
  MaxRestart = 1
PROPERTIES Quiescent
