SPECIFICATION FairSpec
CONSTANTS
  Problems = {p1, p2}
  Slots = {s1, s2}
  NoSlot = NoSlot
  Workers = 2
  HaltOnLimit = TRUE
  Terminal = {"PASS"}
  MaxFaults = 2
INVARIANTS TypeOK VerdictIsOfItsPatch CleanWorkIsGraded TurnsAreBounded
PROPERTIES ImplementsCampaign CampaignCompletes
CHECK_DEADLOCK FALSE
