SPECIFICATION FairSpec
CONSTANTS
  Owners = {"u_disp", "disp", "u_ximg", "img", "temporary", "_server_fd"}
  Resources = {d1, i1, s1}
  Invalid = Invalid
  Displays = {d1}
  XImages = {i1}
  Sockets = {s1}
  Screens <- TryScreens
  CommandLines <- ShortAndLong
  IntMax = 4
  MaxPort = 2
  MaxPeriod = 3
  AuthPieces = 2
INVARIANTS
  TypeOK
  CommandLineObeyed
  OwnedOnce
  NeverMisused
  HeldOnlyInUse
  PixelsExact
  FramesWhole
  EndExplained
PROPERTIES
  KeepsProtocol
  StopsInBoundedSteps
  StopsUnlessBlocked
CHECK_DEADLOCK FALSE
