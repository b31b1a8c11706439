SPECIFICATION FairSpec
CONSTANTS
  Callers = {k1, k2}
  Configs = {"cmd", "reattach", "reattachTest"}
  GroupKill = TRUE
  Managed = TRUE
  Descendants = TRUE
  MaxLaunch = 1
INVARIANTS
  ProcessIsKillable
  KillLeavesNothing
  ExitReportsAreTrue
  SingleLaunchInv
PROPERTIES
  KillReturns
  ExitIsReported
