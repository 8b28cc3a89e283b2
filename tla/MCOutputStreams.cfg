SPECIFICATION FairSpec
CONSTANTS
  MaxStreams = 2
  MaxBytes = 2
  MaxNow = 0
  StreamCredits <- NoneOrAll
  DataCredits <- SomeOrAll
  Unidir = FALSE
  IdSpan = 64
  StreamGrants <- AllowsSome
  Priorities <- High
  DefaultPriority = 3
INVARIANT ListIsReadySet
PROPERTIES SendsMostUrgent NoStarvation
CHECK_DEADLOCK FALSE
