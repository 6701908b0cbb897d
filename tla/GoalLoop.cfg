CONSTANTS
  Budgets = {1, 2}
  Modes = {TRUE, FALSE}
  Imitated = {}
  MaxTransport = 1
  MaxEvents = 3
SPECIFICATION LiveSpec
INVARIANT ResultsCounted
PROPERTIES UserHeeded CompletionVerified LoopEnds
CHECK_DEADLOCK FALSE
