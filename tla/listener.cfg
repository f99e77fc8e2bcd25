CONSTANTS
  c1 = c1
  c2 = c2
  add = add
  get = get
  tick = tick
  bcast = bcast
  Clients <- OneClient
  Funcs <- OneFunction
  OneWay = {}
  BroadcastFunc = bcast
  MaxCalls = 1
  MaxEvents = 0
  MaxCallsInProgress = 1
  UserCloses = FALSE
  ReusableArchive = FALSE
  ServiceStops = TRUE
  MaxStarts = 1
SPECIFICATION Spec
INVARIANTS
  HandleRecvFindsListener
CHECK_DEADLOCK FALSE
