CONSTANTS
  r1 = r1
  r2 = r2
  Runners = {r1, r2}
  Kinds = {"sweep", "refund"}
  Periodic = {"sweep"}
  Keyed = {"sweep", "refund"}
  Handled = {"sweep", "refund"}
  Lease = 3
  Repeat = 2
  BackoffCap = 3
  MaxJobs = 2
  MaxAttempts = 2
  MaxLate = 1
SPECIFICATION Spec
INVARIANTS LeaseHides
CHECK_DEADLOCK FALSE
