SPECIFICATION Spec
CONSTANTS
  Dials = {1, 2}
  Accepts = {3, 4}
  Ids = {1, 2}
  None = None
  MaxCalls = 3
  Policies = {"unique", "duplicate"}
INVARIANTS
  UniqueIdsNeverCollide
  EntriesReaped
  Meet
  AcceptReturns
PROPERTY
  ImplementsRendezvous
CHECK_DEADLOCK FALSE
