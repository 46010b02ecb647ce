\* Three Ids, ours the middle one, so that data arrives on both sides of it;
\* a seqno space of 4, so that seqnos wrap.
SPECIFICATION Spec
CONSTANTS
  Node = {3, 5, 8}
  me = 5
  Text = {}
  Empty = Empty
  None = None
  HALF = 2
INVARIANTS TypeOK Sorted HashesFresh HashOfTable
PROPERTIES Implements
