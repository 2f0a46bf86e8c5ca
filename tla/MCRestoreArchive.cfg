\* Three data files before RESTORE.json, three faults.
CONSTANTS
  p1 = p1
  p2 = p2
  p3 = p3
  new = new
  old = old
  Restorers = {p1, p2, p3}
  Dests = {new, old}
  DestOf <- Targets
  Existing = {old}
  DataFiles = 3
  None = None
  MaxFaults = 3
SPECIFICATION Spec
INVARIANTS
  RestoredIsComplete
  FailureLeavesNothing
PROPERTY OthersAreKept
CHECK_DEADLOCK FALSE
