SPECIFICATION FairSpec
CONSTANTS
  NCP = 2
  NITERS = 3
  BUF_LEN = 3
  LockWordNext = TRUE
  CreateMayFail = TRUE
INVARIANTS Tokens Exclusion
PROPERTIES Terminates
