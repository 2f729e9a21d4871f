SPECIFICATION Spec
CONSTANTS
  p1 = p1
  p2 = p2
  p3 = p3
  na = na
  nb = nb
  NoProc = NoProc
  NoName = NoName
  Procs <- MCProcs
  Names <- MCNames
  MAX_RINGBUFS = 2
  RINGBUF_SIZE = 2
  NPages = 6
  TOP = 18
  FailAt = {3}
  MaxFaults = 1
SYMMETRY MCSymmetry
INVARIANTS
  PagesConserved
  MagicMapping
CHECK_DEADLOCK FALSE
