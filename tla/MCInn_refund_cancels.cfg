CONSTANTS
  b1 = b1
  b2 = b2
  Bookings = {b1}
  NoRequest = NoRequest
  Requests <- OneStay
  Blockable <- OneBlock
  BalanceLeadDays = 2
  ShortNoticeDays = 3
  RateScale = 100
  RefundRate = 3
  MaxDay = 0
  MaxOpens = 1
  MaxInFlight = 1
  MaxCancels = 0
  Exercised = {"refund"}
SPECIFICATION Spec
PROPERTIES RefundLeavesStay
CHECK_DEADLOCK FALSE
