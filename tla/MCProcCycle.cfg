SPECIFICATION Spec
CONSTANTS
  NPROC = 4
  MaxPid = 5
  Worlds <- OneLine
CHECK_DEADLOCK FALSE
INVARIANT NoLockCycle
