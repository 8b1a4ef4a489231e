SPECIFICATION Spec
CONSTANTS
  s1 = s1
  s2 = s2
  all = all
  also = also
  one = one
  both = both
  only = only
  Sources = {s1, s2}
  Sinks = {all, also, one, both}
  Route <- RouteMixed
  ChunkTime <- SameTime
  WindowTime = 1
  MaxPending = 1
  Timeout = 1
  ChannelCapacity = 1
  RetryAttempts = 2
  Unreliable = {all}
  ChannelSinks = {}
  InboxCapacity = 1
  StartFails = {also, s2}
  Supply <- TwoAndOne
CHECK_DEADLOCK FALSE
INVARIANTS TypeOK ChannelLossless EachAccounted InOrder StopMeansStopped MergedInOrder MergedAudioSound
PROPERTIES WrittenBetweenStartAndStop ImplementsMerger
