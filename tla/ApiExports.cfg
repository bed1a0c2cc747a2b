\* One crawl, two requests for its archive, two failing calls, one crash; its
\* first export can expire, the second one stays.
SPECIFICATION FairSpec
CONSTANTS
  c1 = c1
  c2 = c2
  q1 = q1
  q2 = q2
  Boot = Boot
  Crawl = {c1}
  Client = {q1, q2}
  MaxJobs = 2
  MaxFailures = 2
  MaxCrashes = 1
INVARIANTS
  IInv
  ReadyHasFile
  FailureIsReal
PROPERTIES
  RecordSpec
  PendingSettles
CHECK_DEADLOCK FALSE
