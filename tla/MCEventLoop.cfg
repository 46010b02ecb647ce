\* One neighbour and three Ids, one of them 2^64-1; two requests fill a packet.
SPECIFICATION FairSpec
CONSTANTS
  x = x
  y = y
  Peer = {p}
  Id = {x, y, z}
  AnyId = z
  Size <- Sizes
  MAX_BODY = 5
  Bodies <- SomeBodies
  MIN_VOISINS = 2
  MaxAny = 1
  Keeps <- SomeKept
  None = None
INVARIANTS TypeOK SentAlive HistoryAlive OneRequest RememberedWasSent
PROPERTIES EachAnswered
