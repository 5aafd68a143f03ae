SPECIFICATION Spec
CONSTANTS
  SeqMod = 3
  WinUnit = 2
  RecvWin = 2
  InCap = 2
  OutCap = 3
  MaxPayload = 2
  DevBuf = 2
  DevSeg = 2
  WireCap = 2
  UpBytes = 4
  DownBytes = 4
INVARIANTS
  DeviceNeverOverrun
  StreamAccounted
  IndInv
PROPERTY
  StreamsImplemented
CHECK_DEADLOCK FALSE
