SPECIFICATION Safety
CONSTANTS
  v0 = v0  v1 = v1  v2 = v2
  Base = v0
  Targets <- OneTarget
  None = None
  Partial = Partial
  FaultKinds <- BackupFault
  MaxFaults = 1
INVARIANTS RestartedAfterFailedBackup
CHECK_DEADLOCK FALSE
