SPECIFICATION Spec
CONSTANTS
  Mru = 2
  DevMru = 4
  PortMod = 4
  Clients = {c1, c2, c3}
  Packets <- SomePackets
  MaxPackets = 3
  MaxWord = 6
INVARIANTS
  PortsUnique
  BufferInv
PROPERTIES
  PacketsDelivered
  CrashConfined
CHECK_DEADLOCK FALSE
