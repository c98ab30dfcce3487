SPECIFICATION Spec
CONSTANTS
  Proc = {p1, p2}
  Inode = {i1, i2}
  File = {f1, f2}
  Data = {1, 2}
  Lengths = {1, 3, 5}
  Goods = {1, 3, 5}
  NBLOCK = 5
  BSIZE = 2
  NDIRECT = 1
  MAXOPBLOCKS = 8
  UINT = 64
  MaxCalls = 3
SYMMETRY Symmetry
CHECK_DEADLOCK FALSE
INVARIANTS BlocksExact TransFits
PROPERTY FileSpec
