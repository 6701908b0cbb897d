CONSTANTS
  Budgets = {2}
  Modes = {TRUE}
  Imitated = {}
  MaxTransport = 1
  MaxEvents = 2
SPECIFICATION Spec
PROPERTY ClosedStaysClosed
CHECK_DEADLOCK FALSE
