SPECIFICATION Spec
CONSTANTS
  s2 = s2
  g1 = g1
  c1 = c1
  s1 = s1
  GeminiThreads = {g1}
  ClaudeThreads = {c1}
  Turns = {1, 2}
  Stops = {s1}
  None = None
  Faults = {"crash", "disconnect", "timeout"}
  GoalTurns = {1}
  MaxFaults = 1
  MaxUp = 2
INVARIANTS
  ReleasedOnlyWhenOver
  StatusMatchesRow
  GoalFollowsTurn
  SessionIsShown
CHECK_DEADLOCK FALSE
