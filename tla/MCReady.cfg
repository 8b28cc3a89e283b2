SPECIFICATION FairReadySpec
CONSTANTS
  EpochLength = 1
  MaxPackets = 4
  Limit = 2
  RepeatMax = 2
  Setups <- Cases
INVARIANTS NoPacketStranded LatePacketIsRead IdentifiersLive NoPeerError
PROPERTIES FollowsClient SparesReturn
CHECK_DEADLOCK FALSE
