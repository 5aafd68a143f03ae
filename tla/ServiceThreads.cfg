SPECIFICATION FairSpec
CONSTANTS
  Services = {"np", "syslog", "instproxy"}
  MaxCalls = 4
  MaxData = 3
INVARIANTS
  StreamKept
  FreedConfined
  ServicesInv
PROPERTIES
  Returns
CHECK_DEADLOCK FALSE
