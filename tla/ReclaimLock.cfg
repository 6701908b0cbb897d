CONSTANTS
  a1 = a1
  a2 = a2
  b1 = b1
  b2 = b2
  Proc <- MCProc3
  Pid <- MCPid3
  Steady = {b1}
  NoLock = NoLock
  NoOwner = NoOwner
  NoKey = NoKey
SPECIFICATION FairSpec
INVARIANTS QuarantineExact HolderKeepsLock
PROPERTIES ImplementsSection CrashedOwnerRetired
CHECK_DEADLOCK FALSE
