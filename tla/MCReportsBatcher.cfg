SPECIFICATION Spec
CONSTANTS
  r1 = r1  r2 = r2  r3 = r3  p1 = p1  p2 = p2  w1 = w1  w2 = w2
  s1 = s1  pair = pair  app = app  userkey = userkey
  hits = hits  posts = posts  None = None
  Request = {r1, r2, r3}
  Reporter = {p1, p2}
  Worker = {w1, w2}
  Service = {s1}
  Credential = {pair, app, userkey}
  Metric = {hits, posts}
  Home <- MCHome
  SvcOf <- MCSvcOf
  CredOf <- MCCredOf
  MetricsOf <- MCMetricsOf
  KindOf <- MCKindOf
  AppCred <- MCAppCred
  ZeroDelta <- FreeHits
  Capacity = 3
  MaxKeys = 2
  MaxFailures = 1
  MaxCrashes = 1
INVARIANTS TypeOK LockExclusion NoSilentLoss RecountOnlyInDoubt OnePlace Attribution
PROPERTIES LedgerSpec
CHECK_DEADLOCK FALSE
