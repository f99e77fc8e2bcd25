CONSTANTS
  c1 = c1
  c2 = c2
  add = add
  get = get
  tick = tick
  bcast = bcast
  Clients <- TwoClients
  Funcs <- OneFunction
  OneWay = {}
  BroadcastFunc = bcast
  MaxCalls = 1
  MaxEvents = 1
  MaxCallsInProgress = 1
  UserCloses = FALSE
  ReusableArchive = FALSE
  ServiceStops = TRUE
  MaxStarts = 1
SPECIFICATION Spec
SYMMETRY Symmetry
INVARIANTS
  PendingMatchesHeld
  RegisteredIsOpen
  ResultsMatchCalls
CHECK_DEADLOCK FALSE
