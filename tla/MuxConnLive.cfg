SPECIFICATION FairSpec
CONSTANTS
  SeqMod = 3
  WinUnit = 1
  RecvWin = 2
  InCap = 2
  OutCap = 2
  MaxPayload = 2
  DevBuf = 1
  DevSeg = 2
  WireCap = 2
  UpBytes = 2
  DownBytes = 3
PROPERTIES
  Delivered
CHECK_DEADLOCK FALSE
