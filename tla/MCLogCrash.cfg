SPECIFICATION Spec
CONSTANTS
  Proc = {p1, p2}
  Block = {b1, b2}
  Data = {d1, d2}
  MAXOPBLOCKS = 3
  LOGSIZE = 6
  NLOG = 6
  OpBlocks = 2
  UINT = 8
  FaultSets = {{"crash"}, {"evict"}}
  NoProc = NoProc
  NoData = NoData
SYMMETRY Symmetry
INVARIANT TypeOK
PROPERTY WriteAhead
PROPERTY AtomicDiskSpec
