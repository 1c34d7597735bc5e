SPECIFICATION Spec
CONSTANTS
  Sends = 3
  Attempts = 2
  Drops = 0
  Environments <- Lost
INVARIANTS CanSend
CHECK_DEADLOCK FALSE
