SPECIFICATION Spec
CONSTANTS
  Runs = {r1}
  Chains = {c1}
  Dispatchers = {d1}
  Handlers = {}
  Coords = {k1}
  NoRun = NoRun
  NoChain = NoChain
  MaxSessions = 1
  MaxFaults = 0
  MaxCrashes = 0
PROPERTIES CancelledIsTerminal
CHECK_DEADLOCK FALSE
