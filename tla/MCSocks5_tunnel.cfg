SPECIFICATION FairSpec
CONSTANTS
  Talks = 2
  Environments <- Everything
INVARIANTS Admitted Agree InOrder
PROPERTIES Answered EndTogether
CHECK_DEADLOCK FALSE
