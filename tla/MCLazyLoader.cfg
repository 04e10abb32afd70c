SPECIFICATION FairSpec
CONSTANTS
  r1 = r1  r2 = r2  r3 = r3  r4 = r4  a = a  b = b
  None = None  NoService = NoService
  Caller = {r1, r2, r3, r4}
  Load = {r1, r2, r3, r4}
  Key = {a, b}
  Host = {a, b}
  Id = {1, 2}
  KeyOf <- MCKeyOf
  MatchesOf <- MCMatchesOf
  Portal0 <- MCPortal0
  Edits <- MCEdits
  Size = 1
  Impatient = {}
  Ttls = {"zero", "positive"}
  Routings = {"host", "path"}
  MaxEdits = 1
  MaxFailures = 1
  MaxKills = 1
INVARIANTS TypeOK OwnLoadServes CachesAgree RefreshOnEachRequest NobodyForgotten
PROPERTIES NobodyWaitsForEver
CHECK_DEADLOCK FALSE
