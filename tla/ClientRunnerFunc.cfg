SPECIFICATION Spec
CONSTANTS
  Callers = {k1, k2}
  Configs = {"runnerFunc"}
  GroupKill = TRUE
  Managed = FALSE
  Descendants = FALSE
  MaxLaunch = 2
SYMMETRY CallerSymmetry
INVARIANTS
  FailedStartKillsProcess
  StartNeverSeesDoneCtx
  NoNegativeWaitGroup
