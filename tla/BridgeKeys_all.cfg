SPECIFICATION Spec
CONSTANTS
  MaxKeys = 3
  MaxPower = 2
INVARIANTS IdentityKept PairOnDisk
CHECK_DEADLOCK FALSE
