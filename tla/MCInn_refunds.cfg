CONSTANTS
  b1 = b1
  b2 = b2
  Bookings = {b1}
  NoRequest = NoRequest
  Requests <- NearStay
  Blockable <- OneBlock
  BalanceLeadDays = 2
  ShortNoticeDays = 3
  RateScale = 100
  RefundRate = 3
  MaxDay = 2
  MaxOpens = 1
  MaxInFlight = 2
  MaxCancels = 1
  Exercised = {"block", "crash"}
SPECIFICATION FairSpec
INVARIANTS PromiseKept
PROPERTIES RefundsArrive PendingResolves ReceiptsReachLedger
CHECK_DEADLOCK FALSE
