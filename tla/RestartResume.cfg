CONSTANTS
  b1 = b1
  b2 = b2
  b3 = b3
  t1 = t1
  t2 = t2
  Backend = {b1, b2, b3}
  Task = {t1, t2}
  Mortal = {b1, b2}
  Draining = {b1, b2}
  PidReused = {b1}
  Skipped = {}
  Held = {t2}
  MaxAttempts = 1
  None = None
SPECIFICATION FairSpec
INVARIANTS ResendsBudgeted
PROPERTY OrphanOffered
CHECK_DEADLOCK FALSE
