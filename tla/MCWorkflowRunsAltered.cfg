\* One run; two of its files changed; one input edited or one fault; two callers, two
\* calls each.
CONSTANTS
  c1 = c1
  c2 = c2
  r1 = r1
  v1 = v1
  v2 = v2
  Callers = {c1, c2}
  RunIds = {r1}
  RunOf <- OneRun
  Good = {v1, v2}
  Bad = Bad
  Missing = Missing
  Files = {"spec", "schema", "assets", "owners"}
  Named <- OneFixture
  InitialFile <- AllFirst
  None = None
  Partial = Partial
  Foreign <- EditedAssets
  MaxAttempts = 2
  MaxEdits = 1
  MaxFaults = 1
  MaxAlterations = 2
SPECIFICATION AlteredSpec
SYMMETRY Symmetry
CONSTRAINT OneMishap
INVARIANTS
  OneSidedChangeIsRefused
  ReturnedReportWasCompared
CHECK_DEADLOCK FALSE
