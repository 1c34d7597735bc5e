SPECIFICATION Spec
CONSTANTS
  s1 = s1
  Sids = {s1}
  Fds = {1, 2, 3}
  Bids = {1, 2, 3}
  TidBound = 3
  Talks = 2
  Environments <- Again
INVARIANTS AllHeard
CHECK_DEADLOCK FALSE
