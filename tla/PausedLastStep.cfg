\* Expected to fail: an interrupt during the last step.
SPECIFICATION SupSpec
CONSTANTS
  NumSteps = 4
  EvalInterval = 2
  CheckpointInterval = 3
  MaxLoss = 1
  FreshOverOld = FALSE
  MaxRuns = 4
  MaxFaults = 2
  MaxSignals = 1
  MaxRestarts = 3
  NoFile = NoFile
  Torn = Torn
CHECK_DEADLOCK FALSE
INVARIANTS PausedCanContinue
