SPECIFICATION Spec
CONSTANTS
  w1 = w1
  w2 = w2
  Workers = {w1, w2}
  Environments <- Cut
INVARIANTS InPlace
CHECK_DEADLOCK FALSE
