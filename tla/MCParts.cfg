CONSTANTS
  b1 = b1
  b2 = b2
  b3 = b3
  Bookings = {b1, b2, b3}
  NoRequest = NoRequest
  Requests <- Asked
  Blockable <- Closed
  SearchRooms = {1, 2}
  Sleeps <- RoomSizes
  Parties = {1, 3}
  MinStays = {1, 2}
  StayCaps = {2, 4}
  LastNight = 3
  MaxTaken = 1
  BalanceLeadDays = 2
  ShortNoticeDays = 3
  RateScale = 20
  MaxNight = 7
  MaxTaxRate = 3
  MaxRetention = 4
  MaxDays = 4
  MaxAmount = 3
  MaxRows = 4
SPECIFICATION PartsSpec
INVARIANTS
  RoomInv
  NoDoubleBooking
  PickerMatchesSearch
  InnNeverShort
  RefundMonotone
  WarningStillAhead
  
  AllocateIsTheLoop
SYMMETRY Symmetry
CHECK_DEADLOCK FALSE
