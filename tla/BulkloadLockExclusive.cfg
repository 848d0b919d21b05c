SPECIFICATION Spec
CONSTANTS
  Agent = {a, b, c}
  Blank = blank
  LockSleep = 2
  MaxUpdate = 1
INVARIANTS
  ImportExclusive
CHECK_DEADLOCK FALSE
