SPECIFICATION Spec
CONSTANTS
  p1 = p1
  p2 = p2
  i1 = i1
  i2 = i2
  v1 = v1
  v2 = v2
  NoProc = NoProc
  Procs <- MCProcs
  Inums <- MCInums
  NBLOCKS = 5
  BPB = 3
  BSIZE = 2
  NDIRECT = 1
  MAXOPBLOCKS = 6
  NFILE = 2
  NOFILE = 2
  Lengths = {1, 5}
  Vals <- MCVals
  MaxCalls = 5
  Images <- MCImages
SYMMETRY MCSymmetry
INVARIANTS
  BlocksExact
  TxFits
  NoHoles
  ReadsWritten
  FdsExact
CHECK_DEADLOCK FALSE
