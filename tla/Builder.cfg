SPECIFICATION Spec
CONSTANTS
  Ids = {mic, speaker, other}
  MaxSources = 3
  MaxSinks = 3
CHECK_DEADLOCK FALSE
INVARIANTS TypeOK AcceptedIsSound RefusedForAFault TablesFollowRoutes
