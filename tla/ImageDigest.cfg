SPECIFICATION Spec
CONSTANTS
  Instances = {i1}
  Digests = {d1, d2}
  None = None
  Workers = 1
  MaxMoves = 1
INVARIANTS RanWhatIsRecorded
CHECK_DEADLOCK FALSE
