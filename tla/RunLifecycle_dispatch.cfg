SPECIFICATION FairSpec
CONSTANTS
  Runs = {r1, r2, r3, r4}
  Chains = {c1, c2}
  Dispatchers = {d1, d2}
  Handlers = {}
  Coords = {}
  NoRun = NoRun
  NoChain = NoChain
  MaxSessions = 2
  MaxFaults = 1
  MaxCrashes = 1
INVARIANTS TypeOK DeferredCompletion ChainIsALine  NoOrphanRunning SegmentBound
PROPERTIES RunningSettles 
CHECK_DEADLOCK FALSE
