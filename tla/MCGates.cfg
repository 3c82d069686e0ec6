SPECIFICATION GatesSpec
CONSTANTS
  c1 = c1
  c2 = c2
  NoRecord = NoRecord
  MaxEdits = 3
  Sha <- MCSha
INVARIANTS
  CodesTellApart
  CurrentIsNotYetCommitted
CHECK_DEADLOCK FALSE
