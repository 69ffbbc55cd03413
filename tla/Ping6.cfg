SPECIFICATION FairSpec
CONSTANTS
  trylim = 3
  timeout = 2
  MaxAge = 12
  Failures = TRUE
INVARIANTS GivesUpLate NeverTooLong
PROPERTIES Ends
