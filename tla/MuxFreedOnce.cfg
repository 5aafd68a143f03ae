SPECIFICATION Spec
CONSTANTS
  Clients = {c1}
  Devices = {d1}
  MaxCommands = 2
INVARIANTS
  FreedOnce
CHECK_DEADLOCK FALSE
