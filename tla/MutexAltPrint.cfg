SPECIFICATION FairSpec
CONSTANTS
  NoThread = NoThread
  Limit = 100
  CreateMayFail = TRUE
INVARIANTS Turnwise EndCount
PROPERTIES TakesTurns ValueLinesAlternate Terminates
