SPECIFICATION FairSpec
CONSTANTS
  Procs = {p1, p2}
  PIPESIZE = 2
  UINT = 4
  MaxN = 2
  MaxBytes = 5
  NoProc = NoProc
INVARIANTS InOrder NoLostWakeup NoUseAfterFree
PROPERTIES PeersReleased
CHECK_DEADLOCK FALSE
