SPECIFICATION FairSpec
CONSTANTS
  r1 = r1
  r2 = r2
  a = a
  b = b
  Runs <- TwoRuns
  Items <- TwoItems
  Nobody = Nobody
  MaxCalls = 2
  MaxBatch = 2
  MinGap = 1
  Backoff = 2
INVARIANTS
  TypeOK
  AllOrNothing
  StampIsTrue
PROPERTIES
  RequestsAreSpaced
  RunsEnd
CHECK_DEADLOCK FALSE
