CONSTANTS
  b1 = b1
  b2 = b2
  Bookings = {b1, b2}
  NoRequest = NoRequest
  Requests <- TwoStays
  Blockable <- OneBlock
  BalanceLeadDays = 2
  ShortNoticeDays = 3
  RateScale = 100
  RefundRate = 3
  MaxDay = 0
  MaxOpens = 1
  MaxInFlight = 1
  MaxCancels = 1
  Exercised = {"block", "crash", "refund"}
SPECIFICATION Spec
INVARIANTS ConfirmedHoldsRoom
PROPERTIES RoomsSpec
CHECK_DEADLOCK FALSE
SYMMETRY Symmetry
