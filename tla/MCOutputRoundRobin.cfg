SPECIFICATION Spec
CONSTANTS
  MaxStreams = 2
  MaxBytes = 2
  MaxNow = 3
  StreamCredits <- All
  DataCredits <- Total
  Unidir = FALSE
  IdSpan = 64
  StreamGrants <- AllowsSome
  Priorities = {}
  DefaultPriority = 2
PROPERTY RoundRobin
CHECK_DEADLOCK FALSE
