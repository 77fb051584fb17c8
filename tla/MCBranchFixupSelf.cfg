CONSTANTS
  ByteRange = 4
  l1 = l1
  l2 = l2
  Labels <- MCLabels
  Cmps <- MCCmps
  FillerSizes <- MCFillerSizes
  MaxInstrs = 20
  MaxBranches = 3
  PackOp = "and"
INIT Init
NEXT Next
SYMMETRY MCSymmetry
CHECK_DEADLOCK FALSE
INVARIANT
  FinalizedOffsetsInit
