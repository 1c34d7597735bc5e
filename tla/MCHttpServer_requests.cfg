SPECIFICATION HttpFairSpec
CONSTANTS
  MaxRequests = 2
  Environments <- Everything
INVARIANTS AsSentCareful ClosesAfter
PROPERTIES Answers
CHECK_DEADLOCK FALSE
