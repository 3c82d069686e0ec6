SPECIFICATION Spec
CONSTANTS
  r1 = r1
  r2 = r2
  v1 = v1
  v2 = v2
  cut = cut
  bent = bent
  Missing = Missing
  Run <- MCRun
  Version <- MCVersion
  Quality <- MCQuality
  MaxChanges = 1
CONSTRAINT MCInitialInput
ACTION_CONSTRAINT MCFirstNames
INVARIANTS
  NeverPartial
  RefusedLeavesNoTrace
  MixedOnlyByOverlapOrFailure
  SuccessIsComplete
  HashTiesToInput
PROPERTIES
  CodesTellDamageApart
  EveryRunEnds
CHECK_DEADLOCK FALSE
