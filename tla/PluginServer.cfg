SPECIFICATION Spec
CONSTANTS
  Hosts = {h1, h2}
  Channels = {stdout, stderr}
  None = None
  Protos = {"grpc", "netrpc"}
  Tests = {TRUE, FALSE}
  MaxWrites = 2
  MaxEvents = 3
SYMMETRY Symmetry
CONSTRAINT FewEvents
INVARIANTS
  TypeOK
  DoneOnce
  ServerEnds
  DrainBeforeCut
  QuitReported
  NothingLeftBehind
  OutputInOrder
  OutputArrives
CHECK_DEADLOCK FALSE
