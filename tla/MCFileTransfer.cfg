SPECIFICATION Spec
CONSTANTS
  Sizes = {1, 3, 4, 6, 7}
  ChunkSize = 3
  MaxAttempts = 1
INVARIANTS
  CompleteIsWhole
  RangesFollow
  AnsweredOnce
