SPECIFICATION Safety
CONSTANTS
  p1 = p1  p2 = p2  j1 = j1  j2 = j2  j3 = j3  hA = hA  hB = hB
  spooler = spooler  session = session
  Spooler = spooler
  Session = session
  Senders <- Goroutines
  Printers <- OnePrinter
  Jobs <- OneJob
  Hashes <- Logos1
  Slots <- OneSlot
  Inputs <- Uploading
  Unusable = Unusable
  Free = Free
  NoHash = NoHash
  Garbled = Garbled
  NoJob = NoJob
  NoMsg = NoMsg
  Chunks = 2
  QueueCap = 1
  InterJobTicks = 2
  SettleTicks = 20
  FlashTicks = 25
  MaxSessions = 1
  MaxRestarts = 0
  MaxDirect = 1
  MaxTargets = 1
INVARIANTS DirectRespectsFlash
CHECK_DEADLOCK FALSE
