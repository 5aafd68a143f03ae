SPECIFICATION FairSpec
CONSTANTS
  Devices = {d1}
  Clients = {c1, c2}
INVARIANTS
  NoneMissed
  OutputInOrder
  MuxEventsInv
PROPERTIES
  RemovalIsLast
  
  WorkerEnds
  
CHECK_DEADLOCK FALSE
