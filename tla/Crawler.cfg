\* Five URLs, one blocked by robots.txt and one on another host.  The limit is
\* below the number of URLs by more than the number of consumers, so a crawl
\* can end in all of its ways and requests can overshoot the limit.
SPECIFICATION FairSpec
CONSTANTS
  Nil = Nil
  u1 = u1
  u2 = u2
  u3 = u3
  u4 = u4
  u5 = u5
  URL <- MCFive
  Root = u1
  Consumer = {c1, c2}
  CrawlLimit = 2
  CrawlSitemap = TRUE
  IgnoreRobotsTxt = FALSE
  Disallowed = {u2}
  Foreign = {u3}
  Listed = {u1, u2, u4}
INVARIANTS
  IInv
  AtMostOnce
  NoGoroutineCrash
  RobotsRespected
  LimitRespected
PROPERTIES
  StartReturns
  GoroutinesEnd
  ActiveIsMainsOwn
  FrontierSpec
CHECK_DEADLOCK FALSE
