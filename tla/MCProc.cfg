SPECIFICATION Spec
CONSTANTS
  NPROC = 3
  c1 = c1
  c2 = c2
  Cpus <- MCCpus
  MaxPid = 4
  KillPids = {0, 2, 3}
SYMMETRY MCSymmetry
INVARIANTS
  Exclusive
  ParentAlive
  NoMissedExit
