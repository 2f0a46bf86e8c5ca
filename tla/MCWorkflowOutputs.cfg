\* Three calls, one kill.  No liveness property is checked, so symmetry is sound.
CONSTANTS
  c1 = c1
  c2 = c2
  c3 = c3
  Callers = {c1, c2, c3}
  None = None
  MaxKills = 1
SYMMETRY CallerSymmetry
SPECIFICATION Spec
INVARIANTS
  IncompleteIsExplained
  EarlierRunIsKept
CHECK_DEADLOCK FALSE
