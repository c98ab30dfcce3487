SPECIFICATION Spec
CONSTANTS
  Proc = {p1, p2}
  Inum = {root, i1, i2}
  ROOTINO = root
  NFILE = 1
  NOFILE = 2
  Name = {"a", "d"}
  Calls <- TreeCalls
SYMMETRY Symmetry
CHECK_DEADLOCK FALSE
INVARIANT RefExact
INVARIANT LinksCovered
INVARIANT OpenStays
INVARIANT IputWontBlock
INVARIANT NoLockCycle
INVARIANT NoPanic
