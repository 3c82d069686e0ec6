SPECIFICATION GuardSpec
CONSTANTS
  Binary = Binary
  Absent = Absent
  SHINGLE_SIZE = 2
  MaxCommits = 2
  Path <- MCPath
  Folded <- MCFolded
  LocalCorpus <- MCLocalCorpus
  Text <- MCText
  MayHold <- MCMayHold
  AllowList <- MCAllowList
  Covers <- MCCovers
  Literal <- MCLiteral
  Corpus <- MCCorpus
INVARIANTS
  CorpusStaysLocal
  OnlyNamedExemptions
  BackstopAgrees
CHECK_DEADLOCK FALSE
