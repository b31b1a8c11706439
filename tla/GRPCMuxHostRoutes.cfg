SPECIFICATION Spec
CONSTANTS
  Dials = {1, 2}
  Accepts = {1, 2}
  Ids = {1, 2}
  None = None
  Sides = {"host"}
  Sequential = TRUE
  Faults = {"none"}
INVARIANT
  HostRoutesById
CHECK_DEADLOCK FALSE
