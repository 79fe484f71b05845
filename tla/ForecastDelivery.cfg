SPECIFICATION Spec
CONSTANTS
  r1 = r1
  r2 = r2
  Requests <- TwoRequests
  MaxRuns = 2
  DefaultAge = 2
  WeekAge = 1
  MaxDelay = 1
SYMMETRY RequestSymmetry
INVARIANTS
  TypeOK
  SilenceReachesAll
  CopiesAreRecent
