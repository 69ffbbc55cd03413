SPECIFICATION FairSpec
CONSTANTS
  p1 = p1
  p2 = p2
  p3 = p3
  p4 = p4
  p5 = p5
  p6 = p6
  cons = cons
  Producers <- MCProducers
  Threads <- MCThreads
  Consumer = cons
  NoThread = NoThread
  Party = 6
  MaxCount = 9
  SpuriousWakeups = TRUE
  Interrupts = TRUE
  CreateMayFail = TRUE
INVARIANTS OneCall NoStall
PROPERTIES RoundsGoOn IsRendezvous
CHECK_DEADLOCK FALSE
