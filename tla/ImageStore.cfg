SPECIFICATION Spec
CONSTANTS
  Instances = {i1, i2}
  Digests = {d1, d2}
  None = None
  Workers = 2
  MaxMoves = 1
INVARIANTS TypeOK PinIsReal SnapshotIsWhole
PROPERTIES ArmsAreComparable
CHECK_DEADLOCK FALSE
