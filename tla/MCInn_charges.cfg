CONSTANTS
  b1 = b1
  b2 = b2
  Bookings = {b1}
  NoRequest = NoRequest
  Requests <- OneStay
  Blockable <- OneBlock
  BalanceLeadDays = 2
  ShortNoticeDays = 3
  RateScale = 100
  RefundRate = 3
  MaxDay = 3
  MaxOpens = 1
  MaxInFlight = 2
  MaxCancels = 1
  Exercised = {"crash", "manual", "moto", "partial"}
SPECIFICATION Spec
INVARIANTS GrossIsLedger LedgerIsTrue ConfirmedIsPaid  OneConfirmation ScreensAgree
PROPERTIES GrossOnlyGrows
CHECK_DEADLOCK FALSE
