SPECIFICATION Spec
CONSTANTS
  c1 = c1
  c2 = c2
  MaxRequests = 3
  Configs = {c1, c2}
  Trees <- SomeTrees
  BuildModes = {"build", "pull"}
  Ports = {80}
  MaxAttempts = 2
  Actions = {"start", "delete"}
  MaxReports = 2
  Faults = {"crash", "disconnect", "restart", "prune"}
  MaxFaults = 1
  FaultRequests = 2
INVARIANTS
  LifecycleSerialized
  
  RollbackSourceIntact
  DeletedLeavesNothing
CHECK_DEADLOCK FALSE
SYMMETRY Alike
