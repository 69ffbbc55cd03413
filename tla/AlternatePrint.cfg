SPECIFICATION FairSpec
CONSTANTS
  Threads = {"odd_thread", "even_thread"}
  NoThread = NoThread
  Limit = 100
  SpuriousWakeups = TRUE
  CreateMayFail = TRUE
INVARIANTS NoLostWakeup EndCount
PROPERTIES TakesTurns Terminates
CHECK_DEADLOCK FALSE
