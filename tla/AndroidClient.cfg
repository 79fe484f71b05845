SPECIFICATION FairSpec
CONSTANTS
  l1 = l1
  l2 = l2
  Nobody = Nobody
  Loads <- TwoLoads
  MaxTime = 2
  Hour = 1
  FreshHours = 0
  SlightHours = 0
  StaleHours = 1
  Skew = 1
  Never <- NoExpiry
  StorageFails = TRUE
INVARIANTS
  AppTypeOK
  ScreenAgreesWithCache
PROPERTIES
  NoExpiredForecastAppears
  NeverStuckLoading
