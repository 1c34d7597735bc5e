SPECIFICATION FairSpec
CONSTANTS
  b1 = b1
  b2 = b2
  Brokers = {b1, b2}
  Records = {1, 2, 3}
  Size <- Sizes
  MemoryLimit = 5
  BrokerLimit = 4
  Modes = {TRUE, FALSE}
  Proxies = {TRUE, FALSE}
INVARIANTS BudgetExact SendOrder NothingLost
PROPERTIES QueueDrains
CHECK_DEADLOCK FALSE
