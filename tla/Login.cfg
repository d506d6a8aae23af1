SPECIFICATION Spec
CONSTANTS
  Reqs = {r1, r2, r3}
  MaxFailed = 5
  MaxLost = 2
INVARIANTS
  TypeOK
  LockBound
  LockJustified
  LockPending
PROPERTIES
  AutoLock
  LockTakesHold
