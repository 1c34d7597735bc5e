SPECIFICATION FairSpec
CONSTANTS
  Sends = 3
  Attempts = 2
  Drops = 1
  Environments <- Everything
INVARIANTS OwnAnswers NoDuplicates AttemptsEnd
PROPERTIES Finishes
CHECK_DEADLOCK FALSE
