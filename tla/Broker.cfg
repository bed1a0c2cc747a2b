\* Three connections on one project: two of them can fail in one Publish with
\* a healthy one behind or between them, in two messages.
SPECIFICATION FairSpec
CONSTANTS
  None = None
  t1 = t1
  Topic = {t1}
  Conn = {s1, s2, s3}
  TopicOf <- MCTopicOf
  MaxPublish = 2
INVARIANTS
  HealthyKept
  DeliveredUnlessFailure
  UnsubscribeIsFinal
PROPERTIES
  PublishReturnsOrOrphan
  PingerEnds
CHECK_DEADLOCK FALSE
