SPECIFICATION FairSpec
CONSTANTS
  NewData <- Two
  NewControl <- One
  Room = 2
  Cwin = 1
  Retransmits = 2
  MaxPackets = 7
  Budgets <- Cases
INVARIANTS NothingForgotten RecycledOnce
PROPERTY AllAcknowledged
CHECK_DEADLOCK FALSE
