CONSTANTS
  c1 = c1
  loop = loop
  Loop = loop
  Callers = {c1}
  ExpiresIn = {1}
  MaxTime = 1
  MaxCalls = 2
  MaxLoopRuns = 1
  HalfRange = 4
  Window = 4
  InitBackoff = 1
  MaxBackoff = 2
  MinLead = 1
  DefaultLead = 3
  EndpointFails = FALSE
SPECIFICATION FairSpec
PROPERTIES
  CallsReturn
CHECK_DEADLOCK FALSE
