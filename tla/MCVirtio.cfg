SPECIFICATION Spec
CONSTANTS
  Proc = {p1, p2, p3, p4}
  NUM = 8
  WRAP = 16
SYMMETRY Symmetry
INVARIANT DescConserved
INVARIANT DoneIsDone
INVARIANT DeviceSeesLive
INVARIANT NoLostWakeup
