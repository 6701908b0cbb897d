CONSTANTS
  w1 = w1
  w2 = w2
  w3 = w3
  Worker = {w1, w2, w3}
  Stale = 4
  MaxFailures = 3
  MaxAttempts = 2
  Setups <- MCSetups
  NoLease = NoLease
SPECIFICATION FairSpec
INVARIANTS OwnerFenced WriteFenced SingleRunner
PROPERTIES FreshLeaseKept OrphanReported
CHECK_DEADLOCK FALSE
