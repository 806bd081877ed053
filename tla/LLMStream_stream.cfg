SPECIFICATION FairSpec
CONSTANTS
  Protocols = {"anthropic", "openai"}
  Seconds <- SecondsValues
  Budgets = {0, 3}
  Anomalies = {"status", "network", "line"}
  FlushInterval = 2
  MaxLines = 3
INVARIANTS ForwardedIsStored AnswerOutsideThink 
PROPERTY AlwaysDecides

CHECK_DEADLOCK FALSE
