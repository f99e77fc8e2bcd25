CONSTANTS
  c1 = c1
  c2 = c2
  Clients <- TwoClients
  Formats = {"cereal::Binary", "boost::Text"}
  EventKinds = {"simple", "poly"}
  Funcs = {"add"}
  PolyFuncs = {}
  Callers <- OneClient
  Triggered = {"One", "Three", "none"}
  MaxCallsInProgress = 2
  MaxCalls = 3
  MaxTriggers = 2
SPECIFICATION FairSpec
INVARIANTS
  TypeOK
  EveryMessageReadable
  EventsBroadcast
PROPERTIES
  TriggerHeard
CHECK_DEADLOCK FALSE
