SPECIFICATION FairRealtimeSpec
CONSTANTS
  b1 = b1
  p1 = p1
  p2 = p2
  s1 = s1
  s2 = s2
  Publishers = {p1, p2}
  Browsers = {b1}
  Scopes = {s1, s2}
  Capacity = 1
  MaxConns = 3
  MaxChanges = 1
  Faults = {"break", "fetch"}
  MaxFaults = 1
  PromptSubscribe = TRUE
INVARIANTS
  NeverPanics
  StaleIsPending
PROPERTIES
  CatchesUp
CHECK_DEADLOCK FALSE
