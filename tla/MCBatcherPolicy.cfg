SPECIFICATION FairPolicySpec
CONSTANTS
  r1 = r1  r2 = r2  r3 = r3  r4 = r4  p1 = p1  p2 = p2  w1 = w1  w2 = w2
  s1 = s1  app = app  hits = hits  None = None
  Request = {r1, r2, r3, r4}
  Reporter = {p1, p2}
  Worker = {w1, w2}
  Service = {s1}
  Credential = {app}
  Metric = {hits}
  Earlier = {r3}
  Caching = {"resilient", "allow"}
  Home <- MCHome
  SvcOf <- MCSvcOf
  CredOf <- MCCredOf
  MetricsOf <- MCMetricsOf
  KindOf <- MCKindOf
  AppCred <- MCAppCred
  ZeroDelta = {}
  Capacity = 1
  MaxKeys = 1
  MaxFailures = 1
  MaxCrashes = 1

PROPERTIES NotOverruled EventuallyCounted
CHECK_DEADLOCK FALSE
