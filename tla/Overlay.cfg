SPECIFICATION Spec
CONSTANTS
  Problems = {p1, p2}
  Triples = {t1, t2}
  NoTriple = NoTriple
  Flags <- SomeFlags
  MaxCommands = 3
  MaxFaults = 1
INVARIANTS TypeOK AgentSeesBase EnvironmentIsWhole MountsDoNotStack BareOutlivesCheckouts
PROPERTIES ArmStartsClean VerdictIsEarned NothingLeaks ImplementsCampaign
CHECK_DEADLOCK FALSE
SYMMETRY Symmetry
