SPECIFICATION Safety
CONSTANTS
  p1 = p1  p2 = p2  j1 = j1  j2 = j2  j3 = j3  hA = hA  hB = hB
  spooler = spooler  session = session
  Spooler = spooler
  Session = session
  Senders <- Goroutines
  Printers <- OnePrinter
  Jobs <- ThreeJobs
  Hashes <- Logos1
  Slots <- OneSlot
  Inputs <- QueueInputs
  Unusable = Unusable
  Free = Free
  NoHash = NoHash
  Garbled = Garbled
  NoJob = NoJob
  NoMsg = NoMsg
  Chunks = 2
  QueueCap = 1
  InterJobTicks = 0
  SettleTicks = 0
  FlashTicks = 0
  MaxSessions = 2
  MaxRestarts = 1
  MaxDirect = 0
  MaxTargets = 1
SYMMETRY SymJobs
INVARIANTS JobsConserved AckTruthful
PROPERTIES ImplementsPromise
CHECK_DEADLOCK FALSE
