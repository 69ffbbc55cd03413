SPECIFICATION MessageSpec
CONSTANTS
  Labels <- MCLabels
  MaxLabels = 2
  MaxOwn = 1
  MaxAnswers = 2
  Addresses <- MCAddresses
INVARIANTS RoundTrip ReadsAnswers
CHECK_DEADLOCK FALSE
