SPECIFICATION Spec
CONSTANTS
  Proc = {p1, p2}
  Block = {b1, b2, b3, b4}
  Data = {d1, d2}
  NBUF = 3
  UINT = 8
  MaxPin = 1
  NoProc = NoProc
  NoBlock = NoBlock
  NoData = NoData
SYMMETRY Symmetry
INVARIANT TypeOK
INVARIANT RefcntExact
INVARIANT NoLostWakeup
PROPERTY BlockStoreSpec
