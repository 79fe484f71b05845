SPECIFICATION FairSpec
CONSTANTS
  h1 = h1
  h2 = h2
  Handlers <- MCHandlers
  MaxRuns = 2
  TTL = 2
  MaxFillDelay = 1
INVARIANTS
  TypeOK
  BoundedStaleness
PROPERTIES
  ImplementsPromise
  EventuallyCurrent
