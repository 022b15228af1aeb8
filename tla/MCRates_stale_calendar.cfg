CONSTANTS
  Editors = {e1, e2}
  Offered <- Seasons
  NoSeason = NoSeason
  Unpriced = Unpriced
  Horizon = 1
  MaxSeasons = 2
  MaxRebuilds = 3
  MaxToday = 2
SPECIFICATION RatesSpec
INVARIANT PricedFromSaved
CHECK_DEADLOCK FALSE
