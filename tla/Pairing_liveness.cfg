SPECIFICATION Spec
CONSTANTS
  b1 = b1  b2 = b2  a1 = a1  a2 = a2  a3 = a3  t1 = t1  t2 = t2
  Browsers <- OnePage
  Attempts <- TwoAttempts
  Tenants <- OneTenant
  None = None
  ChCap = 1
  MaxSessions = 2
  MaxReleases = 1
  MaxConfigs = 1
  MaxRestarts = 1
PROPERTIES PageAnswered ClaimArrives
CHECK_DEADLOCK FALSE
