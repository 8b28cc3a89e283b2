SPECIFICATION ProgramsSpec
CONSTANTS
  Streams = {0, 4}
  Addresses = {1, 2, 3}
  MaxBytes = 3
  Sizes <- OneLong
  RecvBufInit = 1
  Null = 0
  ClientMsg = 1
  HelloWorldMsg = 2
  MaxRoom = 2
  MaxFaults = 2
  RecvMax = 2
  SendMax = 1
  EventBuf = 1
  MaxWakeUps = 2
  MaxThreadFaults = 1
INVARIANTS NoDanglingContext EchoIsFaithful NothingLeaks StopIsClean
PROPERTIES EchoCompletes ExchangeEnds WakeUpsAnswered
  SendingHasItsTurn DeletionReturns
CHECK_DEADLOCK FALSE
