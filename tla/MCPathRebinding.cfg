SPECIFICATION ReadySpec
CONSTANTS
  EpochLength = 1
  MaxPackets = 0
  Limit = 2
  RepeatMax = 2
  Setups <- MoveAndRenew
INVARIANT NoPeerError
CHECK_DEADLOCK FALSE
