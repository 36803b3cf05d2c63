SPECIFICATION FairSpec
CONSTANTS
  i1 = i1
  i2 = i2
  q1 = q1
  Inputs = {i1}
  Questions = {q1}
  InputLimit = 1
  MaxOut = 1
  MaxFrames = 4
  Faults = {"die", "crash", "bad"}
  MaxFaults = 1
INVARIANTS
  RejectedWasNotSent
  ClosedOnlyWhenApplied
  DoneClosedOnce
PROPERTIES
  ReaderGoesOn
  
CHECK_DEADLOCK FALSE
