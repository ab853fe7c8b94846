SPECIFICATION Spec
CONSTANTS
  Base = 3
  MsgAuth = 1
  MsgImg = 2
  NameChars = {1, 2}
  MaxName = 2
  Streams <- MixedStreams
  BufferSize = 16
  MaxMessageSize = 6
  MaxPressure = 2
INVARIANTS
  TypeOK
  StreamIntact
  FramesExact
  LatestVerdictAnswered
  NoLostEdge
PROPERTIES
  HandlerApproachesReturn
CHECK_DEADLOCK FALSE
