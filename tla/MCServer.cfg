SPECIFICATION Spec
CONSTANTS
  Conns = {c1, c2, c3}
  NoConn = NoConn
  Fds = {1, 2}
  ServerFd = 0
  MaxEvents = 2
SYMMETRY Alike
INVARIANTS
  TypeOK
  TableMatchesDescriptors
  NoStaleEvent
  InputAnnounced
  BacklogAnnounced
  LoopSurvives
CHECK_DEADLOCK FALSE
