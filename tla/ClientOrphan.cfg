SPECIFICATION Spec
CONSTANTS
  Callers = {k1}
  Configs = {"runnerFunc"}
  GroupKill = TRUE
  Managed = FALSE
  Descendants = FALSE
  MaxLaunch = 2
INVARIANT
  ProcessIsKillable
