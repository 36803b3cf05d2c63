SPECIFICATION ThreadSpec
CONSTANTS
  t1 = t1
  t2 = t2
  t3 = t3
  u1 = u1
  NoTurn = NoTurn
  Turns = {t1, t2, t3}
  Rewrites = {t2}
  UserStops = {u1}
  Faults = {"crash", "disconnect", "database"}
  MaxFaults = 1
  MaxReports = 2
  Earlier = t1
  StopQueued = TRUE
  EarlyPoll = FALSE
INVARIANTS
  OneTurnAtATime
PROPERTIES
  ReclaimsOnlyIdle
  
CHECK_DEADLOCK FALSE
