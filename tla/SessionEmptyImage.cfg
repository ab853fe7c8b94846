SPECIFICATION FairSpec
CONSTANTS
  Base = 3
  MsgAuth = 1
  MsgImg = 2
  NameChars = {1, 2}
  MaxName = 2
  Streams <- EmptyStreams
  BufferSize = 16
  MaxMessageSize = 6
  MaxPressure = 1
PROPERTIES
  HandlerReturns
CHECK_DEADLOCK FALSE
