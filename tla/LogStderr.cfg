SPECIFICATION Spec
CONSTANTS
  Lines <- MCLines
  MaxLines = 3
  Buffer = 2
  Levels = {2, 3, 6}
INVARIANTS
  StderrCopied
  LoggedAsWanted
CHECK_DEADLOCK FALSE
