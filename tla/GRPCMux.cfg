SPECIFICATION Spec
CONSTANTS
  Dials = {1, 2}
  Accepts = {1, 2}
  Ids = {1, 2}
  None = None
  Sides = {"host", "plugin"}
  Sequential = FALSE
  Faults = {"none", "timers", "closes"}
INVARIANTS
  TypeOK
  PluginRoutesById
  NobodyLeftWaiting
  EntriesReaped
CHECK_DEADLOCK FALSE
