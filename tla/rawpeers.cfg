CONSTANTS
  c1 = c1
  add = add
  bcast = bcast
  Clients <- OnePeer
  Funcs <- AddOnly
  OneWay = {}
  BroadcastFunc = bcast
  MaxCalls = 3
  MaxEvents = 0
  ReusableArchive = FALSE
  ServiceStops = TRUE
  MaxStarts = 2
SPECIFICATION FairSpec
INVARIANTS
  EachCallHasOneReply
  RefusedNotExecuted
  Inv
PROPERTIES
  EveryCallReplied
  BrokenClientRemoved
CHECK_DEADLOCK FALSE
