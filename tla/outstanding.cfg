CONSTANTS
  c1 = c1
  c2 = c2
  add = add
  get = get
  tick = tick
  bcast = bcast
  Clients <- OneClient
  Funcs <- OneFunction
  OneWay = {}
  BroadcastFunc = bcast
  MaxCalls = 2
  MaxEvents = 0
  MaxCallsInProgress = 2
  UserCloses = FALSE
  ReusableArchive = FALSE
  ServiceStops = FALSE
  MaxStarts = 1
SPECIFICATION Spec
PROPERTIES
  AllOutstandingNotified
CHECK_DEADLOCK FALSE
