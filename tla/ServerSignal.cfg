SPECIFICATION FairSpec
CONSTANTS
  Conns = {c1}
  NoConn = NoConn
  Fds = {1}
  ServerFd = 0
  MaxEvents = 1
PROPERTIES
  StopsOnSignal
CHECK_DEADLOCK FALSE
