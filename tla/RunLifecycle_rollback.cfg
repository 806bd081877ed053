SPECIFICATION Spec
CONSTANTS
  Runs = {r1}
  Chains = {c1}
  Dispatchers = {d1}
  Handlers = {h1}
  Coords = {k1}
  NoRun = NoRun
  NoChain = NoChain
  MaxSessions = 1
  MaxFaults = 1
  MaxCrashes = 0
INVARIANTS VerdictOnce VerdictMatchesStatus
PROPERTIES FrozenStays
CHECK_DEADLOCK FALSE
