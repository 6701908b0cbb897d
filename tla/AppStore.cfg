SPECIFICATION LiveSpec
CONSTANTS
  p1 = p1
  p2 = p2
  r1 = r1
  r2 = r2
  s1 = s1
  s2 = s2
  Procs = {p1, p2}
  Readers = {p2}
  None = None
  Dead = Dead
  Recycled = Recycled
  Records = {r1, r2}
  Stamps = {s1, s2}
  MaxFaults = 2
INVARIANTS CacheCurrent
PROPERTIES ImplementsAtomicStore LeftoverRemoved
CHECK_DEADLOCK FALSE
