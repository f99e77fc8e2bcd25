CONSTANTS
  c1 = c1
  c2 = c2
  add = add
  get = get
  tick = tick
  bcast = bcast
  Clients <- OneClient
  Funcs <- TwoFunctions
  OneWay = {}
  BroadcastFunc = bcast
  MaxCalls = 2
  MaxEvents = 0
  MaxCallsInProgress = 2
  UserCloses = TRUE
  ReusableArchive = TRUE
  ServiceStops = FALSE
  MaxStarts = 1
SPECIFICATION FairSpec
INVARIANTS
  ResultsMatchCalls
  OneTokenPerCall
  NoCallLost
PROPERTIES
  ImplementsAtMostOnce
  InProgressNotified
  CallAnswered
CHECK_DEADLOCK FALSE
