\* Three requests of two tenants compete for two slots: r2 repeats r1 with the
\* same idempotency key, r3 is another project's.
SPECIFICATION FairSpec
CONSTANTS
  None = None
  r1 = r1
  r2 = r2
  r3 = r3
  p1 = p1
  p2 = p2
  k1 = k1
  k2 = k2
  k3 = k3
  t1 = t1
  t2 = t2
  Req = {r1, r2, r3}
  Project = {p1, p2}
  ProjectOf <- MCProjectOf
  Tenant = {t1, t2}
  TenantOf <- MCTenantOf
  Idem = {k1, k3}
  IdemOf <- MCIdemOf
  Cancelable = {}
  TenantLimit = 1
  TotalLimit = 2
  MaxFailures = 1
  MaxCrashes = 0
INVARIANTS
  SlotsExact
  SlotsFollowCrawls
  OneCrawlPerKey
PROPERTIES
  CrawlsEnd
  SlotsReturn
CHECK_DEADLOCK FALSE
