CONSTANTS
  c1 = c1
  c2 = c2
  Callers = {c1, c2}
  MaxLogins = 3
  MaxCalls = 1
SPECIFICATION FairSpec
INVARIANTS
  PairOfOneLogin
PROPERTIES
  NothingOnlyIfForgotten
  ImplementsSessionUse
  CallsReturn
CHECK_DEADLOCK FALSE
