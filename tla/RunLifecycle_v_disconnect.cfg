SPECIFICATION Spec
CONSTANTS
  Runs = {r1}
  Chains = {c1}
  Dispatchers = {}
  Handlers = {h1}
  Coords = {}
  NoRun = NoRun
  NoChain = NoChain
  MaxSessions = 1
  MaxFaults = 0
  MaxCrashes = 0
INVARIANTS DisconnectLeavesNoRunning
CHECK_DEADLOCK FALSE
