SPECIFICATION FairSpec
CONSTANTS
  Requests = {r1, r2, r3, r4, r5}
  MaxFaults = 3
INVARIANTS TypeOK OneHandshake CrashesAreCounted NobodyIsForgotten
PROPERTIES EveryRequestAnswered
CHECK_DEADLOCK FALSE
