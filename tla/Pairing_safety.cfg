SPECIFICATION Safety
CONSTANTS
  b1 = b1  b2 = b2  a1 = a1  a2 = a2  a3 = a3  t1 = t1  t2 = t2
  Browsers <- TwoPages
  Attempts <- ThreeAttempts
  Tenants <- TwoTenants
  None = None
  ChCap = 1
  MaxSessions = 2
  MaxReleases = 1
  MaxConfigs = 0
  MaxRestarts = 0
SYMMETRY Symmetry
INVARIANTS TypeOK SessionNeverBlocks ResultsToldOnce MismatchExplained StateAgrees OkMeansClaimed
CHECK_DEADLOCK FALSE
