SPECIFICATION Spec
CONSTANTS
  MaxOps = 2
  MaxRelease = 3
  MaxVersion = 2
  Recent = 1
  MaxRevision = 2
  MaxChanges = 1
  Requests <- EveryRequest
  Faults = {"death", "exec", "write"}
  MaxFaults = 1
INVARIANTS
  UpdateTriedOnce
  
PROPERTIES
  RestartSparesTurns
CHECK_DEADLOCK FALSE
