CONSTANTS
  r1 = r1
  r2 = r2
  Runners = {r1, r2}
  Kinds = {"sweep", "refund", "legacy"}
  Periodic = {"sweep"}
  Keyed = {"sweep", "refund"}
  Handled = {"sweep", "refund"}
  Lease = 2
  Repeat = 1
  BackoffCap = 2
  MaxJobs = 3
  MaxAttempts = 1
  MaxLate = 0
SPECIFICATION FairSpec
INVARIANTS OneRowPerKey LostOnlyWhenDone 
PROPERTIES WorkGetsDone
CHECK_DEADLOCK FALSE
