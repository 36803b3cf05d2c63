SPECIFICATION FairSpec
CONSTANTS
  Plain = {p1}
  Turns = {t1}
  Scans = {}
  FileScans = {}
  Interrupts = {}
  Workspaces <- OneWorkspace
  WorkspaceOf <- SameWorkspace
  Faults = {"crash", "disconnect", "reject", "overflow"}
  MaxFaults = 3
  MaxCopies = 2
  MaxReports = 2
INVARIANTS
  TurnExecutedAtMostOnce
  
  

  
  
CHECK_DEADLOCK FALSE
