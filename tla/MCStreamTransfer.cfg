SPECIFICATION TransferSpec
CONSTANTS
  Streams = {0, 1}
  MaxBytes = 3
  StreamWindow = 2
  DataWindow = 3
  MaxDataLimit = 0
  Growth = {1}
  Unidir = {0}
  Resettable = {0, 1}
  SmallWindow = 1
  Limit = 2
  ChunkBytes = 8
  MaxCryptoGap = 7
PROPERTIES StreamsAreReliable LimitedArrives
INVARIANTS NoPeerError DeliveredInOrder TreeIsExact
CHECK_DEADLOCK FALSE
