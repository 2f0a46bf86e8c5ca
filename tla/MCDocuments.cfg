\* Every pure algorithm over all inputs of a small shape.
CONSTANTS
  MAX_BATCHES = 3
  Absent = Absent
  Rejected = Rejected
  Missing = Missing
  Invalid = Invalid
  None = None
  Null = Null
  ReviewTags <- Tags2
  AssetOf <- Owner3
SPECIFICATION MCSpec
INVARIANTS
  TimelineAgreesWithComparisons
  SatisfiedMeansExact
  GroupsAreComponents
  UrgencyIsMonotone
  EveryFindingHasItsQueue
  ChangesAreNewlyOverdue
  UnchangedMeansSameEvidence
  ManifestSealsOneSnapshot
  VerifiedIsWhatIsRetained
CHECK_DEADLOCK FALSE
