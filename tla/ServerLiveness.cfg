SPECIFICATION FairSpec
CONSTANTS
  Conns = {c1, c2}
  NoConn = NoConn
  Fds = {1, 2}
  ServerFd = 0
  MaxEvents = 1
PROPERTIES
  EveryoneServed
  EveryoneAccepted
  StopsUnlessStuck
CHECK_DEADLOCK FALSE
