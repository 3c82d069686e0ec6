SPECIFICATION Spec
CONSTANTS
  r1 = r1
  r2 = r2
  r3 = r3
  recorded = recorded
  substituted = substituted
  short = short
  good = good
  bad = bad
  Partial = Partial
  NoFile = NoFile
  Fetch <- MCFetch
  Content <- MCContent
  Slice <- MCSlice
  CutFrom <- MCCutFrom
  DATASET_SHA256 = recorded
  SLICE_SHA256 = good
INVARIANTS
  NoCutFile
  CutsOnlyVerified
  SuccessIsVerified
CHECK_DEADLOCK FALSE
