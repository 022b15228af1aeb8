CONSTANTS
  b1 = b1
  b2 = b2
  Bookings = {b1}
  NoRequest = NoRequest
  Requests <- OneStay
  Blockable <- OneBlock
  BalanceLeadDays = 2
  ShortNoticeDays = 3
  RateScale = 100
  RefundRate = 3
  MaxDay = 3
  MaxOpens = 1
  MaxInFlight = 1
  MaxCancels = 1
  Exercised = {}
SPECIFICATION Spec
INVARIANTS PromiseKept
CHECK_DEADLOCK FALSE
