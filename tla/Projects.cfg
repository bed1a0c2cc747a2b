\* One account with a project, a second project and account to come; eight
\* requests, of which two may crawl the first project and one the second; a
\* tenant with a project, and eight calls.
SPECIFICATION Spec
CONSTANTS
  None = None
  Absent = Absent
  u1 = u1
  u2 = u2
  p1 = p1
  p2 = p2
  add1 = add1
  edit1 = edit1
  start1 = start1
  start2 = start2
  start3 = start3
  delete1 = delete1
  account1 = account1
  signup1 = signup1
  t1 = t1
  x1 = x1
  provision1 = provision1
  provision2 = provision2
  put1 = put1
  put2 = put2
  put3 = put3
  put4 = put4
  patch1 = patch1
  patch2 = patch2
  User = {u1, u2}
  Project = {p1, p2}
  Req = {add1, edit1, start1, start2, start3, delete1, account1, signup1}
  EmailOf <- MCEmailOf
  Ported = {p1}
  Archiving = {p1, p2}
  KindOf <- MCKindOf
  TargetOf <- MCTargetOf
  From <- MCFrom
  Turns = {}
  Owned <- MCOwned
  MaxBroken = 1
  MaxCrashes = 1
  Call = {provision1, provision2, put1, put2, put3, put4, patch1, patch2}
  Op <- MCOp
  Tenant = {t1}
  External = {x1}
  TenantOf <- MCTenantOf
  NameOf <- MCNameOf
  KeyOf <- MCKeyOf
  IdemOf <- MCIdemOf
  Field <- MCField
  Body <- MCBody
  MaxTime = 1
  MaxFailures = 1
INVARIANTS
  NothingLeftBehind
  SettingsExplained
PROPERTIES
  DeletionEnds
CHECK_DEADLOCK FALSE
