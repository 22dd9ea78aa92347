CONSTANTS
  Execs = {e1, e2}
  e1 = e1
  e2 = e2
  Profiles = {"p1"}
  Policies = {"firmware", "ntp"}
  Resolvable = {"firmware", "ntp"}
  Platforms = {"standalone", "edge"}
  PolicyTarget <- TargetOf
  AtStart = {{}, {"firmware", "ntp"}}
  MaxAPICalls = 3
  MaxCalls = 1
  Failures = {"output", "timeout"}
SPECIFICATION Spec
SYMMETRY Symmetry
INVARIANTS
  TypeOK
PROPERTIES
  WrittenAsChecked
  ClassSurvives
  ImplementsToolCall
CHECK_DEADLOCK FALSE
