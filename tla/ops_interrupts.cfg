SPECIFICATION FairSpec
CONSTANTS
  Plain = {}
  Turns = {}
  Scans = {s1}
  FileScans = {s1}
  Interrupts = {i1}
  Workspaces <- OneWorkspace
  WorkspaceOf <- SameWorkspace
  Faults = {"crash", "disconnect", "receipt", "unreadable", "overflow"}
  MaxFaults = 1
  MaxCopies = 1
  MaxReports = 2
INVARIANTS
  StoppedOnceAcknowledged
  RepeatedOnlyAfterDeath

  
CHECK_DEADLOCK FALSE
