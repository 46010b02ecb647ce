\* The instance of MCEventLoop; TLC finds a request that is left out of a round.
SPECIFICATION Spec
CONSTANTS
  x = x
  y = y
  Peer = {p}
  Id = {x, y, z}
  AnyId = z
  Size <- Sizes
  MAX_BODY = 5
  Bodies <- SomeBodies
  MIN_VOISINS = 2
  MaxAny = 1
  Keeps <- SomeKept
  None = None
PROPERTIES ReasksAll
