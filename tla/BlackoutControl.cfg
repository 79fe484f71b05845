SPECIFICATION BlackoutSpec
CONSTANTS
  i1 = i1
  i2 = i2
  i3 = i3
  r1 = r1
  polityk = polityk
  operator = operator
  Invocations <- ThreeInvocations
  Handlers <- OneRequest
  Users <- BothUsers
  ApiUser = polityk
SYMMETRY InvocationSymmetry
INVARIANTS
  BlackoutTypeOK
  GateIsLinearizable
  FlagFileWhole
  AuditIsTrue
  OverrideHolds
