SPECIFICATION Spec
CONSTANTS
  s1 = s1
  s2 = s2
  all = all
  also = also
  one = one
  both = both
  only = only
  Sources = {s1, s2}
  Sinks = {only}
  Route <- RouteOnly
  ChunkTime <- SameTime
  WindowTime = 1
  MaxPending = 1
  Timeout = 1
  ChannelCapacity = 1
  RetryAttempts = 1
  Unreliable = {}
  ChannelSinks = {}
  InboxCapacity = 1
  StartFails = {}
  Supply <- OneEach
CHECK_DEADLOCK FALSE
INVARIANT MergedOnlyNamedSources
