\* Six steps reach evaluations, a periodic checkpoint and the last step. Deadlock is
\* checked: the script can always be started again.
SPECIFICATION SupSpec
CONSTANTS
  NumSteps = 6
  EvalInterval = 2
  CheckpointInterval = 3
  MaxLoss = 2
  FreshOverOld = FALSE
  MaxRuns = 4
  MaxFaults = 2
  MaxSignals = 1
  MaxRestarts = 3
  NoFile = NoFile
  Torn = Torn
INVARIANTS NoStepSkipped PairReplays FinalIsComplete BestBarBacked AttemptsEarned
PROPERTIES PausedIsSaved ImplementsAtomicProgress EventuallyDelivered
