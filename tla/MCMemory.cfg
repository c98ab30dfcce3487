SPECIFICATION Spec
CONSTANTS
  Slot = {1, 2}
  initproc = 1
  NPAGE = 20
  PGSIZE = 2
  RADIX = 3
  MaxPages = 4
  MaxArg = 1
  Images <- TwoImages
CHECK_DEADLOCK FALSE
INVARIANT PagesConserved
INVARIANT MappedExactly
