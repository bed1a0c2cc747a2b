\* Two crawls of one project, with a crash and two failing statements.
SPECIFICATION Spec
CONSTANTS
  None = None
  r1 = r1
  r2 = r2
  r3 = r3
  p1 = p1
  p2 = p2
  k1 = k1
  k2 = k2
  k3 = k3
  t1 = t1
  t2 = t2
  Req = {r1, r2}
  Project = {p1}
  ProjectOf <- MCProjectOf
  Tenant = {t1}
  TenantOf <- MCTenantOf
  Idem = {k1, k2}
  IdemOf <- MCIdemOf
  Cancelable = {r1, r2}
  TenantLimit = 2
  TotalLimit = 2
  MaxFailures = 2
  MaxCrashes = 1
INVARIANTS
  OneCrawlerPerProject
  NobodyForgets
  CancelTakes
PROPERTIES
  RecordSpec
CHECK_DEADLOCK FALSE
