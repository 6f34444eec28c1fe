SPECIFICATION FormatsSpec
CONSTANTS
  AnzWidth = 3
  ProduktWidth = 5
  ZusWidth = 2
  PreisWidth = 5
  Messages <- AllMessages
  MaxDocs = 2
  MaxInt = 255
  MaxDuration = 511
  Second = 10
  LeastInbound = 20
  DefaultInbound = 100
  LeastInterval = 5
  DefaultInterval = 10
  Raws <- AllRaws
INVARIANTS PrintedAsLaidOut ColumnsRight EnvironmentRight
CHECK_DEADLOCK FALSE
