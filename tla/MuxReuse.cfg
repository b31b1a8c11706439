SPECIFICATION Spec
CONSTANTS
  Dials = {d1, d2, d3}
  Accepts = {a1, a2}
  Ids = {i1}
  None = None
  Policy = "duplicate"
SYMMETRY Symmetry
INVARIANTS
  SoleOwner
PROPERTY
  ImplementsRendezvous
CHECK_DEADLOCK FALSE
