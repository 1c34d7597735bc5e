SPECIFICATION WatchFairSpec
CONSTANTS
  t1 = t1
  t2 = t2
  Socks = {5, 6}
  Delays = {1, 2}
  Default = 2
  Receivers = {t1, t2}
  MaxPayload = 2
  Worlds <- Surroundings
INVARIANTS WatchTypeOK OnTime
PROPERTIES ThreadsEnd
CHECK_DEADLOCK FALSE
