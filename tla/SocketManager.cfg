SPECIFICATION FairSpec
CONSTANTS
  Fds = {1, 2, 3}
  Server = 2
  MsgLen = 2
  BufCap = 1
  MaxConns = 3
  MaxIn = 2
INVARIANTS
  RecvSuspended
  QueuesInv
  StreamsInOrder
  ReportsAreCurrent
PROPERTIES
  Resumed
CHECK_DEADLOCK FALSE
