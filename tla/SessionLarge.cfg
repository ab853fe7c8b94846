SPECIFICATION Spec
CONSTANTS
  Base = 3
  MsgAuth = 1
  MsgImg = 2
  NameChars = {1, 2}
  MaxName = 2
  Streams <- LargeStreams
  BufferSize = 16
  MaxMessageSize = 6
  MaxPressure = 1
PROPERTIES
  DeliversInOrder
CHECK_DEADLOCK FALSE
