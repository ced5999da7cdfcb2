SPECIFICATION Spec
CONSTANTS
  Requests = {r1, r2, r3}
  MaxFaults = 2
PROPERTIES CrashIsReal
CHECK_DEADLOCK FALSE
