SPECIFICATION FairSpec
CONSTANTS
  w1 = w1
  w2 = w2
  r1 = r1
  o1 = o1
  a = a
  b = b
  c = c
  d = d
  Nobody = Nobody
  Threads = {w1, w2, r1, o1}
  Uses <- Everybody
  Records = {a, b, c, d}
  SizeOf <- Sizes
  HeaderSize = 1
  RecordLimits = {1, 2}
  MemoryLimits = {5, 7}
INVARIANTS Layout NoLostWakeup
PROPERTIES WritersReleased DeliversInOrder
CHECK_DEADLOCK FALSE
