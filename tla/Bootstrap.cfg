CONSTANTS
  c1 = c1
  c2 = c2
  Callers = {c1, c2}
  InitBackoff = 1
  MaxBackoff = 2
  MaxTime = 3
  MaxCalls = 2
SPECIFICATION FairSpec
INVARIANTS
  TypeOK
  OneManager
PROPERTIES
  AttemptsSpaced
  
  ImplementsLazyClient
  CallsReturn
CHECK_DEADLOCK FALSE
