\* Two callers, two calls each, one edit, two faults.
CONSTANTS
  c1 = c1
  c2 = c2
  r1 = r1
  v1 = v1
  v2 = v2
  Callers = {c1, c2}
  RunIds = {r1}
  RunOf <- OneRun
  Good = {v1, v2}
  Bad = Bad
  Missing = Missing
  Files = {"spec", "schema", "assets", "other_assets", "owners"}
  Named <- NamedByVersion
  InitialFile <- Initially
  None = None
  Partial = Partial
  MaxAttempts = 2
  MaxEdits = 1
  MaxFaults = 2
SPECIFICATION Spec
SYMMETRY Symmetry
INVARIANTS
  ManifestIsComplete
  SuccessesAgree
  DebrisIsExplained
  DigestsBindUnmovedInputs
PROPERTIES
  PublishedRunIsKept
  ImplementsWriteOnce
CHECK_DEADLOCK FALSE
