\* Four places; a name that is never resolved and two of one host; 70 s and 20 s
\* as 3 and 1.
SPECIFICATION Spec
CONSTANTS
  a = a
  b = b
  c = c
  d = d
  me = me
  public = public
  link = link
  host = host
  alias = alias
  down = down
  Addr = {a, b, c, d, me, public, link}
  Self = {me}
  Public = public
  Valid = {a, b, c, d, me, public}
  Name = {host, alias, down}
  Resolves <- SomeResolves
  Never = {down}
  Lists <- SomeLists
  NB_SERVERS = 2
  NbIps = 2
  MAX_VOISINS = 4
  ROUND = 1
  SILENCE = 3
INVARIANTS TypeOK GoneInTime
PROPERTIES Implements StartsUp
