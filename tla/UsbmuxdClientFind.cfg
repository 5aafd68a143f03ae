SPECIFICATION Spec
CONSTANTS
  Devices = {1, 2}
  Callers = {}
  Readers = {}
  MaxEvents = 2
  MaxRestarts = 1
INVARIANT NullIsReturned
CHECK_DEADLOCK FALSE
