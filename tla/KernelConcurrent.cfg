SPECIFICATION FairSpec
CONSTANTS
  Calls = {c1, c2}
  Dirs = {d1}
  Temps = {}
  Kernels = {k1, k2, k3, k4}
  NoCall = NoCall
  NoKernel = NoKernel
  NoDir = NoDir
  ExitKinds = {"ok", "oom"}
  Serial = FALSE
  MaxCrashes = 1
  MaxNoise = 0
INVARIANTS NoCallIsDropped TimerGuardsItsCall PoolIsLive OwnAnswer
PROPERTIES EveryCallAnswered
CHECK_DEADLOCK FALSE
