SPECIFICATION Spec
CONSTANTS
  Paths = {"a", "b"}
  Branches = {"x", "y"}
  File <- FileValue
  MaxFaults = 1
  MaxCrashes = 1
INVARIANTS TypeOK CommittedIsTrue ConfirmedIsMarked
CHECK_DEADLOCK FALSE
