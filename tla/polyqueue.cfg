CONSTANTS
  c1 = c1
  c2 = c2
  Clients <- OneClient
  Formats = {"cereal::Binary"}
  EventKinds = {"poly"}
  Funcs = {"add", "count"}
  PolyFuncs = {"add", "count"}
  Callers <- OneClient
  Triggered = {"One"}
  MaxCallsInProgress = 2
  MaxCalls = 3
  MaxTriggers = 0
SPECIFICATION Spec
INVARIANTS
  EveryMessageReadable
CHECK_DEADLOCK FALSE
