\* One of each client, and three pairs of keys for starts and changes.
SPECIFICATION FairSpec
CONSTANTS
  Key = {k1, k2, k3}
  Changer = {msg, zoo}
  Zoo = {zoo}
  Missing = Missing
  Unwritten = Unwritten
  None = None
INVARIANTS PairMatches OneChangePerKey
PROPERTIES ZooChanges
