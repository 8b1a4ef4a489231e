SPECIFICATION Spec
CONSTANTS
  BufferSize = 2
  RetryAttempts = 2
  Word = 16
  ChunkSizes = {1, 3}
  MaxChunks = 3
CHECK_DEADLOCK FALSE
INVARIANTS TypeOK AcceptedIntact HeaderNeverOverstates CleanRecording
