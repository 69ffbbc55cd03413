SPECIFICATION FairSpec
CONSTANTS
  PING_ATTEMPTS = 4
  MaxStrays = 1
PROPERTIES Ends
CHECK_DEADLOCK FALSE
