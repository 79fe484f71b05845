SPECIFICATION AppSpec
CONSTANTS
  l1 = l1
  l2 = l2
  Nobody = Nobody
  Loads <- TwoLoads
  MaxTime = 2
  Hour = 1
  FreshHours = 1
  SlightHours = 2
  StaleHours = 3
  Skew = 0
  Never <- NoExpiry
  StorageFails = FALSE
INVARIANT SplashMeansWiped
