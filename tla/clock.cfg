CONSTANTS
  cpp = cpp
  py = py
  other = other
  CppClients <- OneCpp
  PyClients <- OnePy
  Others <- OneOther
  MaxCalls = 1
  MaxTicks = 1
SPECIFICATION FairSpec
INVARIANTS
  TypeOK
  OneTickChain
  AlarmIdKnownFirst
PROPERTIES
  AlarmPurgedByHandler
  AlarmPurged
  ProgramEnds
CHECK_DEADLOCK FALSE
