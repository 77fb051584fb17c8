CONSTANTS
  ByteRange = 8
  Lanes = 2
  FrameRegs <- MCFrameRegs
  RegValues <- MCRegValues
  SrcPrograms <- MCSrcPrograms
  HostEndian = "little"
INIT Init
NEXT Next
CHECK_DEADLOCK FALSE
INVARIANTS
  TypeOK
  NoUnreachableReached
PROPERTIES
  RefinesWasmSimd
