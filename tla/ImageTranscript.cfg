SPECIFICATION Spec
CONSTANTS
  Problems = {p1, p2}
  Slots = {s1, s2}
  NoSlot = NoSlot
  Workers = 2
  HaltOnLimit = TRUE
  Terminal = {"PASS"}
  MaxFaults = 1
INVARIANTS TranscriptIsKept
CHECK_DEADLOCK FALSE
