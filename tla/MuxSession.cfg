SPECIFICATION FairSpec
CONSTANTS
  Clients = {c1}
  Devices = {d1, d2}
  MaxCommands = 3
INVARIANTS
  Linked
  Polled
  AnsweredInOrder
  LoopInv
PROPERTIES
  StreamIsFinal
  FaultsConfined
  Resolved
CHECK_DEADLOCK FALSE
