SPECIFICATION FairSpec
CONSTANTS
  Talks = 2
  Environments <- Everything
PROPERTIES AnsweredEver
CHECK_DEADLOCK FALSE
