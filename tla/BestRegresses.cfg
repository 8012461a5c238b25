\* Expected to fail: a crash between the rename of _best.bin and the resume state.
SPECIFICATION Spec
CONSTANTS
  NumSteps = 6
  EvalInterval = 2
  CheckpointInterval = 3
  MaxLoss = 2
  FreshOverOld = FALSE
  MaxRuns = 2
  MaxFaults = 2
  MaxSignals = 1
  NoFile = NoFile
  Torn = Torn
CHECK_DEADLOCK FALSE
PROPERTIES BestNeverRegresses
