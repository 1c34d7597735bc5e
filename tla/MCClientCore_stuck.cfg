SPECIFICATION Spec
CONSTANTS
  s1 = s1
  s2 = s2
  Schemes = {s1, s2}
  Bids = {1, 2, 3}
  TidBound = 4
  Environments <- StopsWaiting
INVARIANTS IdleCanOpen
CHECK_DEADLOCK FALSE
