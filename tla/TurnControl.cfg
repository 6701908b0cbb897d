SPECIFICATION LiveSpec
CONSTANTS
  Requests = {1, 2}
  MaxPrompts = 4
  MaxStops = 2
  MaxFaults = 1
  MaxRetries = 1
INVARIANTS RetriesBounded
PROPERTIES StopIsFinal HangAbortSparesNewer LeaseOutlivesAbortedTurn ChainDrains
CHECK_DEADLOCK FALSE
