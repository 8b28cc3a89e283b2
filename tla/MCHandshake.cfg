SPECIFICATION FairSpec
CONSTANTS
  Setups <- Cases
  MaxCredit = 3
INVARIANTS ReadyIsMutual CloseHasKeys EndIsReported
PROPERTY Settles
CHECK_DEADLOCK FALSE
