CONSTANTS
  Calls = {c1, c2}
  c1 = c1
  c2 = c2
  Workers = 2
  MaxConcurrent = 1
  LogLimit = 1
  MaxWritten = 2
  ScriptErrors = {"validation"}
SPECIFICATION FairSpec
INVARIANTS
  TypeOK
  SlotsMatchExecutions
  ReadBeforeCanceled
  ScriptNotBlamed
  WarningsReach
PROPERTIES
  ImplementsPool
  AcceptedIsAnswered
CHECK_DEADLOCK FALSE
