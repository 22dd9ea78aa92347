CONSTANTS
  Execs = {e1}
  e1 = e1
  Profiles = {"p1"}
  Policies = {"firmware", "ntp"}
  Resolvable = {"firmware", "ntp"}
  Platforms = {"standalone", "edge"}
  PolicyTarget <- TargetOf
  AtStart = {{}, {"firmware", "ntp"}}
  MaxAPICalls = 5
  MaxCalls = 1
  Failures = {}
SPECIFICATION Spec
PROPERTIES
  CreateNeedsNoPlatform
CHECK_DEADLOCK FALSE
