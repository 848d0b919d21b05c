SPECIFICATION Spec
CONSTANTS
  Id = {a, b, c}
  InstanceHeartbeatInterval = 1
  InsertAttempts = 2
  MaxStartup = 1
  MaxDelay = 0
  NumActiveEntities = 2
  NumUsers = 5
  RandomizeEntitySelection = TRUE
  MaxTime = 5
  Order <- MCOrder
SYMMETRY IdSymmetry
INVARIANTS
  TypeOK
  RegisteredHasRow
  NoSharedUsers
PROPERTIES
  ImplementsLeases
CHECK_DEADLOCK FALSE
