SPECIFICATION AuditSpec
CONSTANTS
  Sizes <- MCSizes
  Lengths <- MCUsualLengths
  Snaplens = {0, 8, 16}
INVARIANT EmptyMeansNoPackets
CHECK_DEADLOCK FALSE
