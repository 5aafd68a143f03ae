SPECIFICATION Spec
CONSTANTS
  Devices = {1, 2}
  Callers = {}
  Readers = {}
  MaxEvents = 3
  MaxRestarts = 1
INVARIANTS
  ClientInv
  KnowsAttached
PROPERTIES
  NoLateEvents
CHECK_DEADLOCK FALSE
