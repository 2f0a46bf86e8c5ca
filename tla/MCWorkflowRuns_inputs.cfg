\* One edit of an input between hashing and loading: no fault is needed.
CONSTANTS
  c1 = c1
  c2 = c2
  r1 = r1
  v1 = v1
  v2 = v2
  Callers = {c1, c2}
  RunIds = {r1}
  RunOf <- OneRun
  Good = {v1, v2}
  Bad = Bad
  Missing = Missing
  Files = {"spec", "schema", "assets", "other_assets", "owners"}
  Named <- NamedByVersion
  InitialFile <- Initially
  None = None
  Partial = Partial
  MaxAttempts = 1
  MaxEdits = 1
  MaxFaults = 0
SPECIFICATION Spec
INVARIANT ManifestBindsUsedInputs
CHECK_DEADLOCK FALSE
