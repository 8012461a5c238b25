SPECIFICATION Spec
CONSTANTS
  Texts = {1, 2}
  Large = {2}
  Tokens <- MCTokens
  Learnable <- MCLearnable
  Vocabs = {3, 5}
  Cuts = {20, 29}
  Preset = 5
  SeqLen = 1
  PromptLen = 2
  MaxCommands = 3
  MaxEdits = 1
  MaxRemovals = 1
  MaxCrashes = 1
  None = None
  Torn = Torn
  NoFingerprint = NoFingerprint
INVARIANTS
  SpeaksOneTokenizer
  FedItsOwnTokens
  HeldOut
  ReadsInside
  EvalSpreads
  LoadedWhole
CHECK_DEADLOCK FALSE
