CONSTANTS
  c1 = c1
  c2 = c2
  loop = loop
  Loop = loop
  Callers = {c1, c2}
  ExpiresIn = {2}
  MaxTime = 2
  MaxCalls = 1
  MaxLoopRuns = 0
  HalfRange = 4
  Window = 4
  InitBackoff = 1
  MaxBackoff = 2
  MinLead = 1
  DefaultLead = 3
  EndpointFails = FALSE
SPECIFICATION Spec
PROPERTIES
  RefreshOnlyWhenDue
CHECK_DEADLOCK FALSE
