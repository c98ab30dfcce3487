SPECIFICATION FairSpec
CONSTANTS
  Writer = {w1}
  Reader = {r1, r2}
  Killable = {r1}
  Byte = {a, b}
  PIPESIZE = 2
  UINT = 4
  MaxCount = 2
  NoProc = NoProc
  NoByte = NoByte
INVARIANT NoLostWakeup
INVARIANT NotUsedAfterFree
PROPERTY EofIsReal
PROPERTY FifoSpec
PROPERTY SleepersWoken
