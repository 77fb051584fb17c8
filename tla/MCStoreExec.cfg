CONSTANTS
  ByteRange = 4
  MemSize = 8
  Mems <- MCMems
  FrameRegs <- MCFrameRegs
  ConstPool <- MCConstPool
  RegValues <- MCRegValues
  SrcPrograms <- MCSrcPrograms
INIT Init
NEXT Next
CHECK_DEADLOCK FALSE
INVARIANTS
  TypeOK
  NoParamDispatch
PROPERTIES
  RefinesWasmStore
