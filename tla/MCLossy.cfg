\* Two nodes over a network that loses, duplicates and reorders datagrams,
\* while users change messages and a node restarts; seqnos start at 5 of 8, so
\* that they reach (uint16_t)-1 and wrap.
SPECIFICATION Spec
CONSTANTS
  a = a
  b = b
  c = c
  Node = {a, b}
  Text = {hello, bye}
  Empty = Empty
  None = None
  HALF = 4
  Permanent <- PairPermanent
  Recognised = {a, b}
  StartSeqno = 5
  OptD = {}
  MAX_VOISINS = 1
  MIN_VOISINS = 1
  Unreliable = TRUE
  Overlap <- AllTypes
  NetCap = 3
  Active = {a}
  MaxChange = 2
  MaxRestart = 1
INVARIANTS TypeOK OwnContent Authentic OwnerAhead
PROPERTIES NeverOlder SeqnoForText
