SPECIFICATION ChannelSpec
CONSTANTS
  a = a
  b = b
  c = c
  d = d
  None = None
  Messages = {a, c, d}
  Size <- Sizes
  HeaderSize = 2
  MaxRecords = 2
  MaxRead = 12
  SocketBuffer = 12
  Undecodable = {}
  Corrupted = {}
INVARIANTS PushReturns
CHECK_DEADLOCK FALSE
