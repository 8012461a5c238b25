SPECIFICATION Spec
CONSTANTS
  Prime = 251
  MaxNodes = 4
  MaxOps = 3
  MaxGuards = 2
  Vocab = 3
  Width = 4
  NumHeads = 2
  Hidden = 3
  MaxLength = 4
  NumLayers = 2
  BatchSize = 2
  SeqLen = 2
  WarmupSteps = 1
  TotalSteps = 4
  Windows = 3
  MaxCrashes = 1
  Programs <- MCPrograms
INVARIANTS
  WavePreserves
  RetiredOnTime
  FrozenHasNoGrad
  NoPeeking
  DevicesAgree
  ResumeIsExact
  DecodesAsTrained
CHECK_DEADLOCK FALSE
