SPECIFICATION AuditSpec
CONSTANTS
  Sizes <- MCSizes
  Lengths <- MCLengths
  Snaplens = {0, 8, 16}
INVARIANTS
  AcceptedIsWhole
  TruncatedNumbersMatch
PROPERTY AuditAdvances
CHECK_DEADLOCK FALSE
