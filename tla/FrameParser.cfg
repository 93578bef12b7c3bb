SPECIFICATION Spec
CONSTANTS
  HeaderLen = 3
  CmdLen = 1
  CrcLen = 1
  TailLen = 1
  MaxBuf = 16
  Sof = 5
  End = 1
  Bytes <- ByteValues
  DataBytes = {0, 5}
  VisionLens = {1}
  OtherLens = {0}
  PortCap = 2
  MaxFrames = 6
  MaxFaults = 1
  MaxEmbedded = 1
INVARIANTS TypeOK CleanLineInStep LossBounded
PROPERTIES ImplementsSource
CHECK_DEADLOCK FALSE
