SPECIFICATION Spec
CONSTANTS
  v0 = v0  v1 = v1  v2 = v2
  Base = v0
  Targets <- TwoTargets
  None = None
  Partial = Partial
  FaultKinds <- AnyFault
  MaxFaults = 2
INVARIANTS FailureRestores CopyKept OneVerdict SilenceExplained
PROPERTIES SuccessTruthful BridgeComesBack TriggerCleared
CHECK_DEADLOCK FALSE
