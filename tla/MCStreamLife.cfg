SPECIFICATION FairSpec
CONSTANTS
  Opener = "c"
  Initial = 1
  Plans <- Cases
  EarlyAborts = FALSE
INVARIANTS DeletedIsDone NoPeerError BoundedOpen
 
CHECK_DEADLOCK FALSE
