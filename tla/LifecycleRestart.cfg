\* The claim that partial findings survive a restart.
SPECIFICATION Spec
CONSTANTS
  None = None
  r1 = r1
  r2 = r2
  r3 = r3
  p1 = p1
  p2 = p2
  k1 = k1
  k2 = k2
  k3 = k3
  t1 = t1
  t2 = t2
  Req = {r1}
  Project = {p1}
  ProjectOf <- MCProjectOf
  Tenant = {t1}
  TenantOf <- MCTenantOf
  Idem = {k1}
  IdemOf <- MCIdemOf
  Cancelable = {}
  TenantLimit = 2
  TotalLimit = 2
  MaxFailures = 0
  MaxCrashes = 1
PROPERTIES
  PartialFindingsSurvive
CHECK_DEADLOCK FALSE
