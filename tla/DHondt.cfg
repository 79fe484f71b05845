SPECIFICATION Spec
CONSTANTS
  Parties <- ThreeParties
  MaxVotes = 6
  MaxSeats = 5
CHECK_DEADLOCK FALSE
INVARIANTS
  TypeOK
  AveragesAreHighest
  SeatsAreTopQuotients
