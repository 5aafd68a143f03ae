SPECIFICATION FairSpec
CONSTANTS
  Addrs = {a1}
  NumRxLoops = 2
  MaxFailures = 1
  MaxEvents = 2
  MaxObjs = 1
  MaxTx = 2
INVARIANTS
  UsbInv
PROPERTY
  Reaped
CHECK_DEADLOCK FALSE
