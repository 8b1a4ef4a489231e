SPECIFICATION Spec
CONSTANTS
  Channels = 2
  DeviceRate = 3
  TargetRates = {2, 3}
  NanosPerSec = 5
  Inexact = {}
  ChunkSize = 4
  RingSize = 6
  CallbackSizes = {2, 4}
  MaxSamples = 14
CHECK_DEADLOCK FALSE
INVARIANTS TypeOK SamplesInOrder TimestampDrift WholeChunks
PROPERTIES LostOnlyWhenFull ImplementsLossyStream DrainEnds
