CONSTANTS
  p1 = p1
  p2 = p2
  p3 = p3
  Proc = {p1, p2, p3}
  Pid <- SharedPid
  Mortal = {p1, p2}
  Careless = {p2}
  Slow = {p2}
  Heartbeating = {}
  Failing = {}
  MaxAttempts = 1
  NoLock = NoLock
  NoOwner = NoOwner
  NoRecord = NoRecord
SPECIFICATION FairSpec
INVARIANTS SingleOwner
PROPERTY OwnerReplaced
CHECK_DEADLOCK FALSE
