\* Two users of dazibao_read and one of another client; two children at a time.
SPECIFICATION FairSpec
CONSTANTS
  Reader = {r1, r2}
  Changer = {k}
  Child = {c1, c2}
  Inode = {i1, i2}
  Dump <- LongThenShort
  MaxAsked = 1
  None = None
  Hole = Hole
INVARIANTS TypeOK ReadsLocked OneDump
PROPERTIES RemovesWhatItRead ReaderEnds
