SPECIFICATION Spec
CONSTANTS
  Opener = "s"
  Initial = 1
  Plans <- Cases
  EarlyAborts = FALSE
INVARIANT NoPeerError
CHECK_DEADLOCK FALSE
