SPECIFICATION FairSpec
CONSTANTS
  s1 = s1
  Sids = {s1}
  Fds = {1, 2, 3}
  Bids = {1, 2, 3}
  TidBound = 3
  Talks = 2
  Environments <- Fair
INVARIANTS NobodyDeaf TimersOwned StopEndsAll
PROPERTIES Served
CHECK_DEADLOCK FALSE
