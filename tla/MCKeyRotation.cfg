SPECIFICATION Spec
CONSTANTS
  EpochLength = 1
  MaxPackets = 4
INVARIANT RotationsInStep
CHECK_DEADLOCK FALSE
