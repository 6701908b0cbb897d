CONSTANTS
  c1 = c1
  c2 = c2
  p = p
  Caller = {c1, c2, p}
  Promoter = p
  MaxNested = 2
  MaxEpoch = 2
  AccountFails = {c2}
  None = None
SPECIFICATION FairSessionSpec
INVARIANTS LiveCurrent NothingLeftBehind
PROPERTIES SettingsKept EnsureSettles
CHECK_DEADLOCK FALSE
