SPECIFICATION FairSpec
CONSTANTS
  w1 = w1
  w2 = w2
  Workers = {w1, w2}
  Environments <- Everything
INVARIANTS TypeOK InPlaceUsual NothingHeldBack
CHECK_DEADLOCK FALSE
