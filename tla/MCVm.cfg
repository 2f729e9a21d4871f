CONSTANTS
  Procs = {p1, p2}
  First = p1
  NPAGES = 18
  FAN = 3
  PGSIZE = 2
  Vals = {"x"}
  NARGS = 2
  MaxSz = 14
  MaxCalls = 5
  Images <- MCImages
  Increments <- MCIncrements
CHECK_DEADLOCK FALSE
SPECIFICATION Spec
INVARIANTS
  PagesExact
  NoPanic
PROPERTY UserMemSpec
