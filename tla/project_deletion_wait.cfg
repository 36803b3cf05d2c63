SPECIFICATION Spec
CONSTANTS
  MaxPlaces = 3
  Elsewhere = {}
  CloneRoot = {1, 2, 3}
  MaxOps = 3
  MaxWorkspaces = 3
  MaxProjects = 1
  MaxScans = 0
  Starts = {"worktree"}
  Requests = {"project", "edit"}
  SessionsOf = {1}
  Faults = {}
  MaxFaults = 0
INVARIANTS
  PrimaryReleased
CHECK_DEADLOCK FALSE
