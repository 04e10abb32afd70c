SPECIFICATION FairSpec
CONSTANTS
  theKey = theKey  w1 = w1
  Request = {r1, r2}
  Key = {theKey}
  KeyOf <- MCKeyOf
  Worker = {w1}
  Home <- MCHome
  Threads = {0, 1}
  Modes = {"env strict", "env resilient", "strict", "resilient", "allow", "none"}
  MaxFailures = 2
  MaxChanges = 2
INVARIANTS TypeOK ReportedOnce PermitsKept
PROPERTIES DownDecision DenialTakesEffect
CHECK_DEADLOCK FALSE
