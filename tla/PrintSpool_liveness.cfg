SPECIFICATION Spec
CONSTANTS
  p1 = p1  p2 = p2  j1 = j1  j2 = j2  j3 = j3  hA = hA  hB = hB
  spooler = spooler  session = session
  Spooler = spooler
  Session = session
  Senders <- Goroutines
  Printers <- OnePrinter
  Jobs <- TwoJobs
  Hashes <- Logos1
  Slots <- OneSlot
  Inputs <- Uploading
  Unusable = Unusable
  Free = Free
  NoHash = NoHash
  Garbled = Garbled
  NoJob = NoJob
  NoMsg = NoMsg
  Chunks = 1
  QueueCap = 1
  InterJobTicks = 0
  SettleTicks = 1
  FlashTicks = 0
  MaxSessions = 2
  MaxRestarts = 0
  MaxDirect = 1
  MaxTargets = 1
PROPERTIES EveryJobSettled EveryJobAnswered
CHECK_DEADLOCK FALSE
