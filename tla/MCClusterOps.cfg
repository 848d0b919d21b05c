SPECIFICATION Spec
CONSTANTS
  Process = {p1, p2}
  UserCounts <- MCUserCounts
  CPUs = 26
  GiB = 60
  MaxCommands = 5
  NoInfo = NoInfo
  Torn = Torn
  Nothing = Nothing
SYMMETRY Symmetry
CHECK_DEADLOCK FALSE
INVARIANTS
  TypeOK
  Reconciled
  BulkLoadRecorded
  CompleteMeansImported
