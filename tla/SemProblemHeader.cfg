SPECIFICATION Spec
CONSTANTS
  p1 = p1
  p2 = p2
  p3 = p3
  p4 = p4
  p5 = p5
  p6 = p6
  cons = cons
  Producers <- MCProducers
  Threads <- MCThreads
  Consumer = cons
  NoThread = NoThread
  Party = 6
  MaxCount = 14
  SpuriousWakeups = TRUE
  Interrupts = FALSE
  CreateMayFail = FALSE
INVARIANTS AllMeet
