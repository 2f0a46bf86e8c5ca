\* One copy call, three pages, three transactions.
CONSTANTS
  p1 = p1
  p2 = p2
  p3 = p3
  None = None
  Pages <- ThreePages
  Replayed <- TwoOfThree
  Pins <- BackupOrRestore
  MaxTransactions = 3
SPECIFICATION Spec
INVARIANT CopyIsOneState
CHECK_DEADLOCK FALSE
