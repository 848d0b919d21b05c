SPECIFICATION FairSpec
CONSTANTS
  NumEntities = 1
  DoStatusPolling = TRUE
  ChanCapacity = 1
  MaxResults = 1
  MaxRetries = 1
  MaxCalls = 4
INVARIANTS
  TypeOK
  EntitiesJoinedOrRestarted
  PanicsExplained
  SuccessesLogged
PROPERTIES
  StopEnds
CHECK_DEADLOCK FALSE
