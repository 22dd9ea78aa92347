CONSTANTS
  c1 = c1
  loop = loop
  Loop = loop
  Callers = {c1}
  ExpiresIn = {3}
  MaxTime = 7
  MaxCalls = 5
  MaxLoopRuns = 1
  HalfRange = 4
  Window = 3
  InitBackoff = 1
  MaxBackoff = 2
  MinLead = 1
  DefaultLead = 3
  EndpointFails = TRUE
SPECIFICATION Spec
INVARIANTS
  DegradedIffTripped
  BackoffFollowsFailures
PROPERTIES
  ErrorOnlyOnceExpired
CHECK_DEADLOCK FALSE
