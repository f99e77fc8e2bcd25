CONSTANTS
  c1 = c1
  Clients <- OneClient
  MaxOpens = 2
  MaxStarts = 2
SPECIFICATION FairSpec
INVARIANTS
  TypeOK
  OnlyMisuseFails
  NotDeafSilently
PROPERTIES
  OpenClosureTruthful
  OpenAnswered
  ConnectionAccepted
CHECK_DEADLOCK FALSE
