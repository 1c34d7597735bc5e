SPECIFICATION ChannelFairSpec
CONSTANTS
  a = a
  b = b
  c = c
  d = d
  None = None
  Messages = {a, b, c, d}
  Size <- Sizes
  HeaderSize = 2
  MaxRecords = 3
  MaxRead = 7
  SocketBuffer = 8
  Undecodable = {c}
  Corrupted = {}
INVARIANTS InOrder
PROPERTIES Arrives
CHECK_DEADLOCK FALSE
