SPECIFICATION FairSpec
CONSTANTS
  Tasks = {app, client}
  Builds = {{0, 1, 2}, {1, 2}}
  ReleasesBle = TRUE
  PopMayFail = TRUE
  MaxEndpoints = 2
INVARIANTS OneService ServedAsConfigured ServiceIsComplete
PROPERTIES CallsReturn
CHECK_DEADLOCK FALSE
