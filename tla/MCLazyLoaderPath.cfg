SPECIFICATION Spec
CONSTANTS
  r1 = r1  r2 = r2  r3 = r3  r4 = r4  a = a  b = b
  None = None  NoService = NoService
  Caller = {r1, r2, r3}
  Load = {r1, r2, r3}
  Key = {a, b}
  Host = {a, b}
  Id = {1, 2}
  KeyOf <- MCKeyOf
  MatchesOf <- MCMatchesOf
  Portal0 <- MCPortal0
  Edits <- MCEdits
  Size = 1
  Impatient = {}
  Ttls = {"never"}
  Routings = {"path"}
  MaxEdits = 0
  MaxFailures = 0
  MaxKills = 0
INVARIANT PathRouted
CHECK_DEADLOCK FALSE
