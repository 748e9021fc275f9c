SPECIFICATION FairSpec
CONSTANTS
  Tasks = {app, client}
  Builds = {{0, 1, 2}}
  ReleasesBle = TRUE
  PopMayFail = FALSE
  MaxEndpoints = 2
PROPERTIES StopReturns
CHECK_DEADLOCK FALSE
