SPECIFICATION Spec
CONSTANTS
  p1 = p1
  p2 = p2
  p3 = p3
  NoProc = NoProc
  Procs <- MCThree
  NUM = 8
  IDX = 16
SYMMETRY MCSymmetry
INVARIANTS
  DescsConserved
  NoLostWakeup
PROPERTIES
  ReturnsServed
