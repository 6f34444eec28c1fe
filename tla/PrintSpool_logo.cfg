SPECIFICATION Safety
CONSTANTS
  p1 = p1  p2 = p2  j1 = j1  j2 = j2  j3 = j3  hA = hA  hB = hB
  spooler = spooler  session = session
  Spooler = spooler
  Session = session
  Senders <- Goroutines
  Printers <- OnePrinter
  Jobs <- TwoJobs
  Hashes <- Logos2
  Slots <- OneSlot
  Inputs <- AllInputs
  Unusable = Unusable
  Free = Free
  NoHash = NoHash
  Garbled = Garbled
  NoJob = NoJob
  NoMsg = NoMsg
  Chunks = 2
  QueueCap = 1
  InterJobTicks = 1
  SettleTicks = 1
  FlashTicks = 3
  MaxSessions = 1
  MaxRestarts = 1
  MaxDirect = 1
  MaxTargets = 1
SYMMETRY SymJobsLogos
INVARIANTS Exclusive FlashBounded LogoOnReceipt StaleEntryExplained
PROPERTIES ImplementsLink
CHECK_DEADLOCK FALSE
