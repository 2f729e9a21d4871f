SPECIFICATION Spec
CONSTANTS
  p1 = p1
  p2 = p2
  p3 = p3
  n1 = n1
  n2 = n2
  n3 = n3
  NoProc = NoProc
  NoBlock = NoBlock
  Procs <- MCThree
  Blocks <- MCBlocks
  NBUF = 2
  MaxWrites = 2
  MaxPins = 1
SYMMETRY MCSymmetry
INVARIANTS
  Coherent
  NoLostWakeup
