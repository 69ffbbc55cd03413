SPECIFICATION FairSpec
CONSTANTS
  Clients = {c1, c2}
  Questions <- MCQuestions
  MaxSends = 3
  QueueLen = 2
  Ports = {1, 2}
  OptionsMayFail = TRUE
  NoOne = NoOne
  PointerSize = 8
  IntBits = 16
INVARIANTS AnswersOwnQuery ForwardsQuestion Released SendsOnlyAnswers
PROPERTIES ServesAll
CHECK_DEADLOCK FALSE
