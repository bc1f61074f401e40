SPECIFICATION ConnectionLiveSpec
CONSTANTS
  Request <- MCRequest
  Lite = TRUE
  Burst = 2
  Cost = 2
  FlushLimit = 1
  MaxRequests = 3
  MaxTime = 3
CHECK_DEADLOCK FALSE
INVARIANTS
  ConnectionTypeOK
  ExecutedInOrder
  EachAnsweredOnce
  RateBound
PROPERTIES
  EveryRequestAnswered
