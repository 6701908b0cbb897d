CONSTANTS
  p1 = p1
  p2 = p2
  p3 = p3
  Proc = {p1, p2, p3}
  Pid <- SharedPid
  Mortal = {p1}
  Slow = {p1, p3}
  Heartbeating = {p3}
  Failing = {p2,p3}
  MaxAttempts = 1
  NoLock = NoLock
  NoOwner = NoOwner
SPECIFICATION FairLockSpec
INVARIANTS MutualExclusion
PROPERTIES LiveOwnerKept CrashedOwnerReplaced
CHECK_DEADLOCK FALSE
