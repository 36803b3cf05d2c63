SPECIFICATION Spec
CONSTANTS
  MaxPlaces = 3
  Elsewhere = {3}
  CloneRoot = {1, 2, 3}
  MaxOps = 2
  MaxWorkspaces = 4
  MaxProjects = 2
  MaxScans = 1
  Starts = {"worktree", "observed"}
  Requests = {"create", "import", "worktree", "move", "copy", "clone", "delete", "forget", "project", "edit", "session"}
  SessionsOf = {1}
  Faults = {"crash", "database", "abandon", "unverified"}
  MaxFaults = 1
INVARIANTS
  LinkedHaveTheirPrimary
  TransitionsHaveWork
  ReadyIsThere
PROPERTIES
  FilesRemovedByOwner
CHECK_DEADLOCK FALSE
