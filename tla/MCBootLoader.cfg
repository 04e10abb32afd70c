SPECIFICATION FairSpec
CONSTANTS
  a = a  b = b  NoService = NoService
  Host = {a, b}
  Id = {1, 2}
  Load = {0, 1, 2, 3}
  Portal0 <- MCPortal0
  Edits <- MCEdits
  MaxEdits = 1
  MaxFailures = 1
  MaxTimerFailures = 1
  MaxRespawns = 1
  MaxCalls = 2
INVARIANTS TypeOK OneConfiguration
PROPERTIES ReloadsUpToDate
CHECK_DEADLOCK FALSE
