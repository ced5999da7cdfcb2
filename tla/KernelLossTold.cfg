SPECIFICATION Spec
CONSTANTS
  Calls = {c1, c2}
  Dirs = {d1}
  Temps = {}
  Kernels = {k1, k2, k3, k4}
  NoCall = NoCall
  NoKernel = NoKernel
  NoDir = NoDir
  ExitKinds = {"ok"}
  Serial = TRUE
  MaxCrashes = 1
  MaxNoise = 0

PROPERTIES LossIsTold
CHECK_DEADLOCK FALSE
