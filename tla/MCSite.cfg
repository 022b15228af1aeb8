CONSTANTS
  a1 = a1
  a2 = a2
  Savers = {a1, a2}
  Readers = {r1}
  MaxSaves = 3
  Editors = {a1, a2}
  Offered <- Seasons
  NoSeason = NoSeason
  Unpriced = Unpriced
  Horizon = 1
  MaxSeasons = 2
  MaxRebuilds = 3
  MaxToday = 2
  Keys = {a1, a2}
  Interval = 2
  Burst = 2
  idleBucketTTL = 4
  MaxNow = 11
  Errors = {x1, x2, x3, x4}
  queueDepth = 2
  NoEvent = NoEvent
  Invitations = {i1, i2}
  MaxCeremonies = 3
  Revocations = {a1, a2}
  Nobody = Nobody
  Browsers = {a1, a2}
  MaxInquiries = 2
  g1 = g1
  g2 = g2
  Stays = {g1, g2}
  Broken = {g2}
  Workers = {a1, a2}
  balanceChargeAt <- ChargeDays
  checkout <- CheckoutDays
  warningLeadDays = 1
  LastDay = 4
  MaxMishaps = 1
SPECIFICATION Spec
INVARIANTS RoomIsOneSave NeverMixed SingleUse RevokedIsOut WayIn FlushedAndTold ToldOrGone WrittenOnce
PROPERTIES SavedAloneIsWhole RebuildRepairs PreviewIsHonest  ScanReachesAll
SYMMETRY Symmetry
CHECK_DEADLOCK FALSE
