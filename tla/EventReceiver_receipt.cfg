SPECIFICATION Spec
CONSTANTS
  Events = {e1, e2}
  Unnamed = {e2}
  Plans = {w1, w2}
  Agentless = {w2}
  Calls = {k1, k2}
  MaxPushes = 2
  MaxFaults = 1
  MaxCrashes = 1
SYMMETRY CallSymmetry
INVARIANTS AckedIsRecorded RecordedOnce RunsCoveredByRecords AckedIsMatched
CHECK_DEADLOCK FALSE
