SPECIFICATION FairSetupSpec
CONSTANTS
  Agent = {a, b, c}
  Blank = blank
  LockSleep = 2
  MaxUpdate = 1
  Settings <- MCSettings
  ChunkLines = 2
  Situations <- MCSituations
INVARIANTS
  ExclusiveUntilCleared
  ConfigSettled
  
  SetupComplete
CHECK_DEADLOCK FALSE
PROPERTIES
  EveryoneProceeds
  
