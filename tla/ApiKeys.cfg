\* Three requests, four keys of which two are issued before; a window and an overlap of one tick.
SPECIFICATION Spec
CONSTANTS
  None = None
  Root = Root
  t1 = t1
  t2 = t2
  p1 = p1
  q1 = q1
  q2 = q2
  q3 = q3
  Request = {q1, q2, q3}
  Tenant = {t1, t2}
  Project = {p1}
  OwnerOf <- MCOwnerOf
  Class <- MCClass
  Subject <- MCSubject
  Limit <- MCLimit
  WindowSize = 1
  Workload <- MCWorkload
  Input <- MCInput
  FirstKeys <- MCFirstKeys
  Overlap = 1
  TenantSlots = 1
  TotalSlots = 2
  MaxKeys = 4
  MaxTime = 2
INVARIANTS
  OvershootNeedsLateRequest
  ExportSlotsExact
PROPERTIES
  RevocationEndsLine
  RevivedOnlyWithReplacement
CHECK_DEADLOCK FALSE
