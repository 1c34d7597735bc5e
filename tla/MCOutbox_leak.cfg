SPECIFICATION Spec
CONSTANTS
  b1 = b1
  b2 = b2
  Brokers = {b1, b2}
  Records = {1, 2}
  Size <- Sizes
  MemoryLimit = 5
  BrokerLimit = 4
  Modes = {FALSE}
  Proxies = {FALSE}
INVARIANTS MemoryReturned

CHECK_DEADLOCK FALSE
