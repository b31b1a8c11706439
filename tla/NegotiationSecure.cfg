SPECIFICATION Spec
CONSTANTS
  Versions = {0, 1, 2}
  Ports = {1, 2, 3, 4}
  DefaultMin = 2
  DefaultMax = 4
  IntMax = 5
  Kinds = {"secure"}
  MaxStarts = 2
  Scenarios <- MCScenarios
INVARIANT
  RightIsFoundRight
CHECK_DEADLOCK FALSE
