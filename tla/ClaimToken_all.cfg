SPECIFICATION Spec
CONSTANTS
  r1 = r1  r2 = r2
  Requests <- TwoTills
  Threshold = 2
  LockTicks = 1
  MaxTokens = 3
  MaxFailures = 5
SYMMETRY Symmetry
INVARIANTS TypeOK Coherent VerifiesOnce RefusalExplained LockEarned
CHECK_DEADLOCK FALSE
