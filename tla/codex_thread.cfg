SPECIFICATION FairThreadSpec
CONSTANTS
  t1 = t1
  t2 = t2
  t3 = t3
  u1 = u1
  NoTurn = NoTurn
  Turns = {t1, t2}
  Rewrites = {}
  UserStops = {u1}
  Faults = {"exit", "rpc", "wait", "timeout"}
  MaxFaults = 1
  MaxReports = 2
  Earlier = NoTurn
  StopQueued = FALSE
  EarlyPoll = FALSE

  
PROPERTIES
  BusyCanBeStopped
CHECK_DEADLOCK FALSE
