SPECIFICATION FairSpec
CONSTANTS
  Procs = {p1, p2}
  Blocks = {b1, b2}
  Val = {v0, v1}
  InitVal = v0
  NoData = NoData
  MAXOPBLOCKS = 4
  LOGSIZE = 8
  NLOG = 8
  OPBLOCKS = 2
  MaxCrashes = 2
INVARIANTS LogInvariant
PROPERTIES AtomicSpec LogProgress
