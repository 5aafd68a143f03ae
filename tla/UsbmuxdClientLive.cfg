SPECIFICATION FairSpec
CONSTANTS
  Devices = {1}
  Callers = {t1, t2}
  Readers = {t2}
  MaxEvents = 0
  MaxRestarts = 1
PROPERTIES
  Unsubscribes
  CallsReturn
  Listens
CHECK_DEADLOCK FALSE
