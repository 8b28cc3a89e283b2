SPECIFICATION SpaceSpec
CONSTANTS
  Repeat = 1
  MaxPn = 3
  MaxBlocks = 1
  MaxFrames = 1
  SendKinds = {0}
  Payloads <- AnyPacket
  Application = TRUE
  IgnoreOrder = FALSE
  AckGap = 2
  ForceGap = 2
  ListMaxPn = 6
  ListBlocks = 2
  ListKinds = {1}
  ListMaxFrames = 1
INVARIANTS UpdateIsUnion SelectionIsExact AckOfAckIsSimultaneous
  AcksAreTruthful ForgottenOnlyIfLearned
PROPERTY OwedAckIsSent
CHECK_DEADLOCK FALSE
