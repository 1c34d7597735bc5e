SPECIFICATION Spec
CONSTANTS
  a = a
  b = b
  c = c
  d = d
  t = t
  u = u
  Nobody = Nobody
  Peers = {a, b, c, d, t, u}
  Sock <- Descriptor
  Timers = {t, u}
  Persist = {}
  Worlds <- TwoTimers
INVARIANTS TimerHeard
CHECK_DEADLOCK FALSE
