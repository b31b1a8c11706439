SPECIFICATION Spec
CONSTANTS
  Versions = {0, 1, 2}
  Ports = {1, 2, 3, 4}
  DefaultMin = 2
  DefaultMax = 4
  IntMax = 5
  Kinds = {"versions", "retry", "nested", "ports", "secure"}
  MaxStarts = 2
  Scenarios <- MCScenarios
INVARIANTS
  TypeOK
  NegotiatesHighest
  TransportAgrees
  ReattachSame
  SocketRemoved
  PortInRange
CHECK_DEADLOCK FALSE
