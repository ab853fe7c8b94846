SPECIFICATION FairSpec
CONSTANTS
  Base = 3
  MsgAuth = 1
  MsgImg = 2
  NameChars = {1, 2}
  MaxName = 2
  Streams <- PlainStreams
  BufferSize = 16
  MaxMessageSize = 6
  MaxPressure = 1
INVARIANTS
  QueuedAsReceived
PROPERTIES
  DeliversInOrder
  HandlerReturns
  AnswerLeaves
CHECK_DEADLOCK FALSE
