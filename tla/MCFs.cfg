SPECIFICATION Spec
CONSTANTS
  p1 = p1
  p2 = p2
  NoProc = NoProc
  Procs <- MCTwo
  NINODES = 3
  NBLOCKS = 3
  DPB = 3
  Calls <- MCCalls
  MaxCalls = 4
  Disks <- MCDisks
SYMMETRY MCSymmetry
INVARIANTS
  NoPanic
  NoDeadlock
  RefsExact
  CrashConsistent
  NothingLeaks
CHECK_DEADLOCK FALSE
