SPECIFICATION FairSpec
CONSTANTS
  host = host  None = None
  Request = {r1, r2}
  Name = {host}
  NameOf <- MCNameOf
  MaxVersion = 2
  MaxFailures = 1
  MaxKills = 1
  Peers <- MCPeers
  Callers = 2
  Retries = {0, 1, 2}
  MaxFree = 2
INVARIANTS TypeOK OneRefresh TriesSpent Balanced
PROPERTIES StaleWhileQuerying SemaphoreReturned
CHECK_DEADLOCK FALSE
