CONSTANTS
  c1 = c1
  c2 = c2
  add = add
  get = get
  tick = tick
  bcast = bcast
  Clients <- OneClient
  Funcs <- AddAndTick
  OneWay <- TickOnly
  BroadcastFunc = bcast
  MaxCalls = 4
  MaxEvents = 0
  MaxCallsInProgress = 3
  UserCloses = TRUE
  ReusableArchive = FALSE
  ServiceStops = TRUE
  MaxStarts = 1
SPECIFICATION Spec
INVARIANTS
  TypeOK
  QueueFollowsCall
  ResultsInOrder
  ExecutedOnceInOrder
  Inv
CHECK_DEADLOCK FALSE
