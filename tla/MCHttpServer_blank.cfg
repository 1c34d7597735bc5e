SPECIFICATION HttpSpec
CONSTANTS
  MaxRequests = 0
  Environments <- Blank
INVARIANTS AsSent
CHECK_DEADLOCK FALSE
