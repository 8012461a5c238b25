\* Expected to fail: a run from scratch over the resume pair of an earlier one.
SPECIFICATION Spec
CONSTANTS
  NumSteps = 6
  EvalInterval = 2
  CheckpointInterval = 3
  MaxLoss = 2
  FreshOverOld = TRUE
  MaxRuns = 2
  MaxFaults = 2
  MaxSignals = 1
  NoFile = NoFile
  Torn = Torn
CHECK_DEADLOCK FALSE
INVARIANTS NoStepSkipped
