SPECIFICATION Spec
CONSTANTS
  s1 = s1
  s2 = s2
  Sources = {s1, s2}
  ChunkTime <- ShortAndLong
  WindowTime = 3
  MaxPending = 2
  Timeout = 1
  MaxChunks = 5
INVARIANTS TypeOK PendingIncomplete PendingBounded EmittedOnce LostOnlyIfSuperseded CompleteInOrder
PROPERTIES IncompleteOnlyWhenLateOrFull EventuallyEmitted
