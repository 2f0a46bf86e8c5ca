\* Three publishers of one name, three faults (I/O errors, kills, power losses).
CONSTANTS
  p1 = p1
  p2 = p2
  p3 = p3
  receipt = receipt
  Publishers = {p1, p2, p3}
  Paths = {receipt}
  PathOf <- OneName
  SyncsDir = {p1, p2}
  None = None
  MaxFaults = 3
SPECIFICATION Spec
INVARIANTS
  PublishedIsComplete
  AcknowledgedIsKept
  StagingIsRemoved
PROPERTIES
  NeverReplaced
  ImplementsWriteOnce
CHECK_DEADLOCK FALSE
