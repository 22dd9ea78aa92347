CONSTANTS
  c1 = c1
  c2 = c2
  loop = loop
  Loop = loop
  Callers = {c1, c2}
  ExpiresIn = {1}
  MaxTime = 1
  MaxCalls = 1
  MaxLoopRuns = 1
  HalfRange = 4
  Window = 4
  InitBackoff = 1
  MaxBackoff = 2
  MinLead = 1
  DefaultLead = 3
  EndpointFails = TRUE
SPECIFICATION FairSpec
PROPERTIES
  CallsReturnOrLockUp
CHECK_DEADLOCK FALSE
