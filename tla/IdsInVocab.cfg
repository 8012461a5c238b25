SPECIFICATION TextSpec
CONSTANTS
  Jobs <- MCRow
  Specials <- MCSpecials
  Modes <- MCModes
  Levels = {1}
  SmallPiece = 3
  CacheLimit = 2
  MaxLen = 3
  MaxTokens = 2
  Window = 2
  Letters = {}
  Numbers = {}
CHECK_DEADLOCK FALSE
INVARIANT IdsInVocab
