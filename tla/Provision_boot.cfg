SPECIFICATION FairSpec
CONSTANTS
  Procs = {r1, r2}
  Files <- FilesValue
  ProviderNames = {"p", "q"}
  AgentNames = {"a", "b"}
  Plans = {w1}
  None = None
  MaxLimit = 2
  MaxEvents = 2
INVARIANTS NamesUnique BootProvisions OperatorWiringKept
PROPERTY StartupNotBlocked
CHECK_DEADLOCK FALSE
