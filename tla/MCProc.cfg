SPECIFICATION FairSpec
CONSTANTS
  NPROC = 4
  MaxPid = 5
  Worlds <- AnyWorld
CHECK_DEADLOCK FALSE
INVARIANT TypeOK
INVARIANT ParentAlive
INVARIANT ParentStable
INVARIANT NoLostWakeup
PROPERTY ExitCompletes
