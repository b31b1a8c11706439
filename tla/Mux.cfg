SPECIFICATION FairSpec
CONSTANTS
  Dials = {d1, d2}
  Accepts = {a1, a2}
  Ids = {i1, i2}
  None = None
  Policy = "unique"
INVARIANTS
  NoDoubleClose
  QueuedIsReaped
  Meet
PROPERTY
  DialReturns
CHECK_DEADLOCK FALSE
