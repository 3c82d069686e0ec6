SPECIFICATION CoverageSpec
CONSTANTS
  Time <- MCTime
  Session <- MCSession
  Kinds <- MCKinds
  MaxPackets <- MCMaxPackets
INVARIANTS
  WindowSpansCycles
  TwoRepetitionsSuffice
CHECK_DEADLOCK FALSE
