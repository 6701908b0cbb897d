CONSTANTS
  c1 = c1
  c2 = c2
  c3 = c3
  c4 = c4
  c5 = c5
  s1 = s1
  s2 = s2
  s3 = s3
  t1 = t1
  t2 = t2
  a = a
  b = b
  Call = {c1, c2, c3, c4, c5}
  Task = {t1, t2}
  Session = {s1, s2, s3}
  Id = {a, b}
  TaskOf <- Sessions
  SessionOf <- Senders
  IdOf <- Ids
  Timeout = 2
  None = None
SPECIFICATION FairSpec
INVARIANTS RowsAccounted HeadAttended
PROPERTIES AnswerNamesRequest EveryRequestDecided
CHECK_DEADLOCK FALSE
