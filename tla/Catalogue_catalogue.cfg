SPECIFICATION Spec
CONSTANTS
  Providers = {p1, p2}
  Agents = {a1}
  Runs = {r1}
  Edges = {e1, e2, e3}
  Fields = {f1}
  Values = {v1}
  Calls = {k1, k2}
  None = None
  MaxFaults = 1
SYMMETRY PoolSymmetry
INVARIANTS AgentHasItsProvider ProviderKept RunKeepsAgent
PROPERTIES FieldsFollowRequests
CHECK_DEADLOCK FALSE
