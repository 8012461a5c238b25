SPECIFICATION TextSpec
CONSTANTS
  Jobs <- MCJobs
  Specials <- MCSpecials
  Modes <- MCModes
  Levels = {1, 2, 8}
  SmallPiece = 3
  CacheLimit = 2
  MaxLen = 3
  MaxTokens = 2
  Window = 2
  Letters = {224}
  Numbers = {}
CHECK_DEADLOCK FALSE
INVARIANTS
  EncodingFollowsTraining
  RoundTrips
  ChunksAgree
  MatchesPattern
  
  FillsOrStops
  SamplesKept
PROPERTY GreedyChoice
