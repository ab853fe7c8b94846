SPECIFICATION FairSpec
CONSTANTS
  c1 = c1
  c2 = c2
  Conns = {c1, c2}
  Casts <- Couples
  NoDir = "none"
  MaxWritten = 3
  MaxClock = 1
  MaxChanges = 1
INVARIANTS
  TypeOK
  NothingLostWhileOpen
  FilesAuthentic
  FilesOrdered
  KeptUnlessSameName
PROPERTIES
  KeepsPromise
  EveryoneAnswered
CHECK_DEADLOCK FALSE
