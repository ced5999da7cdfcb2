SPECIFICATION Spec
CONSTANTS
  swe = swe
  artifact = artifact
  a = a
  b = b
  c = c
  archaeology = archaeology
  stall = stall
  None = None
  Roots = {swe, artifact}
  Logs = {a, b, c}
  Extractors = {archaeology, stall}
  Patterns = {p}
  Home <- MCHome
  Matches <- MCMatches
  Workers = 2
  TopShare = 5
  MaxEvents = 3
INVARIANTS TypeOK CleanExitIsReviewed SupersededIsSkipped FindingsReachSynthesis ForcedIsFresh
PROPERTIES PaidWorkIsKept RegistryGrows RegistryIsRespected
CONSTRAINT Few
CHECK_DEADLOCK FALSE
