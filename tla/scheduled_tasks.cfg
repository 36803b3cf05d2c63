SPECIFICATION Spec
CONSTANTS
  Tasks = {1}
  CodexThreads = {"c1"}
  CliThreads = {"cli"}
  Specs <- OneSpec
  Horizon = 12
  Workers = {w1, w2}
  Limit = 1
  Ops = {1, 2}
  None = None
  Free = Free
  Stuck = Stuck
  Archived = Archived
  w1 = w1
  w2 = w2
  DayLength = 1
  MonthLength = 3
  WeekLength = 2
  MaxTime = 2
  MaxVersion = 2
  Faults = {"queue", "event", "mark", "restart", "zone", "lost"}
  MaxFaults = 1
INVARIANTS
  
  
  ShownRunIsItsOwn
PROPERTIES
  NextIsOfSchedule
CHECK_DEADLOCK FALSE
SYMMETRY Planes
