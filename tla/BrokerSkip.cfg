\* The claim that a message reaches all subscribers.
SPECIFICATION Spec
CONSTANTS
  None = None
  t1 = t1
  Topic = {t1}
  Conn = {s1, s2, s3}
  TopicOf <- MCTopicOf
  MaxPublish = 1
INVARIANTS
  DeliveredToAll
CHECK_DEADLOCK FALSE
