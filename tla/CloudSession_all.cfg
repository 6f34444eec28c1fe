SPECIFICATION Spec
CONSTANTS
  p1 = p1  loop = loop  spooler = spooler
  Loop = loop
  Spooler = spooler
  Nobody = Nobody
  Ids <- OnePrinter
  Inputs <- AllInputs
  LoopCap = 1
  QueueCap = 1
  SocketCap = 1
  MaxSessions = 2
  MaxMessages = 3
INVARIANTS TypeOK FramesWhole
PROPERTIES ImplementsFeed WindsUp NobodyStuck
CHECK_DEADLOCK FALSE
