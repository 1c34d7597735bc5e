SPECIFICATION FairSpec
CONSTANTS
  a = a
  b = b
  c = c
  d = d
  t = t
  u = u
  Nobody = Nobody
  Peers = {a, b, c, d, t, u}
  Sock <- Descriptor
  Timers = {t, u}
  Persist = {t, u}
  Worlds <- Surroundings
PROPERTIES CallsWhoIsMeant Served
CHECK_DEADLOCK FALSE
