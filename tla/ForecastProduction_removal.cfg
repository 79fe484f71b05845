SPECIFICATION Spec
CONSTANTS
  r1 = r1
  r2 = r2
  d1 = d1
  d2 = d2
  MaxRows = 2
  Runs <- TwoRuns
  Draws <- TwoDraws
  Requests <- FourRequests
  Inputs <- TwoInputs
  Backtests <- SomeBacktests
  NCandidates = 3
  PartyOf <- TwoParties
  One = 7
  PollWeight = 7
  FullWeight = 10
  MaxTime = 1
SYMMETRY Alike
INVARIANT RemovalCanBePublished
CHECK_DEADLOCK FALSE
