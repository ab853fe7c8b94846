SPECIFICATION Spec
CONSTANTS
  Base = 3
  MsgAuth = 1
  MsgImg = 2
  NameChars = {1, 2}
  MaxName = 3
  MaxLen = 4
INVARIANTS
  HeaderFramesMessage
  AuthRoundTrip
  TruncatedRefused
CHECK_DEADLOCK FALSE
