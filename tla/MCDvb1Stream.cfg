SPECIFICATION Spec
CONSTANTS
  ChunkSize = 2
  MaxSize = 7
INVARIANTS
  CommittedIsOriginal
  SealedIsWholeSource
  FailureAborts
  OnlyDamageAccuses
CHECK_DEADLOCK FALSE
