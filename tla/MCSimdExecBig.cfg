CONSTANTS
  ByteRange = 8
  Lanes = 2
  FrameRegs <- MCFrameRegs
  RegValues <- MCRegValues
  SrcPrograms <- MCSrcPrograms
  HostEndian = "big"
INIT Init
NEXT Next
CHECK_DEADLOCK FALSE
PROPERTIES
  RefinesWasmSimd
