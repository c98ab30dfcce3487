SPECIFICATION FairSpec
CONSTANTS
  Proc = {p1, p2, p3}
  Block = {b1, b2, b3}
  Data = {d1}
  MAXOPBLOCKS = 2
  LOGSIZE = 4
  NLOG = 4
  OpBlocks = 1
  UINT = 8
  FaultSets = {{}}
  NoProc = NoProc
  NoData = NoData
INVARIANT NoPanic
INVARIANT NoLostWakeup
PROPERTY SleeperWoken
