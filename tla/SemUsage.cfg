SPECIFICATION FairSpec
CONSTANTS
  Threads = {1, 2, 3, 4}
  NoThread = NoThread
  NProducers = 3
  CountModulus = 3
  SpuriousWakeups = TRUE
  CreateMayFail = TRUE
PROPERTIES CountsUp ConsumerGoesOn
