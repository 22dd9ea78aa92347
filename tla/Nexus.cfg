CONSTANTS
  c1 = c1
  c2 = c2
  Callers = {c1, c2}
  MaxLogins = 3
  MaxCalls = 2
SPECIFICATION FairSpec
INVARIANTS
  RefusedTwice
PROPERTIES
  ImplementsSessionUse
  CallsReturn
CHECK_DEADLOCK FALSE
