SPECIFICATION Spec
CONSTANTS
  q1 = q1
  q2 = q2
  g1 = g1
  g2 = g2
  s1 = s1
  s2 = s2
  s3 = s3
  Runs <- TwoRuns
  Gates <- TwoGates
  Sessions <- ThreeSessions
SYMMETRY MCSymmetry
CHECK_DEADLOCK FALSE
INVARIANTS
  TypeOK
  PublishedWasPassed
  RecordsAreExact
PROPERTY RerunIsNoOp
