CONSTANTS
  Base = 3
  HEADER_SIZE = 2
  Texts <- SomeTexts
  MaxMessages = 3
  ZeroSizes = TRUE
SPECIFICATION FairSpec
INVARIANTS
  TypeOK
  OneReadOutstanding
  SizeAgrees
PROPERTIES
  ImplementsChannel
  EveryMessageHandled
CHECK_DEADLOCK FALSE
