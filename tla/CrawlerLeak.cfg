\* The claim that every crawl ends with its channels closed.
SPECIFICATION FairSpec
CONSTANTS
  Nil = Nil
  u1 = u1
  u2 = u2
  u3 = u3
  u4 = u4
  u5 = u5
  URL <- MCThree
  Root = u1
  Consumer = {c1, c2}
  CrawlLimit = 2
  CrawlSitemap = TRUE
  IgnoreRobotsTxt = FALSE
  Disallowed = {u2}
  Foreign = {u3}
  Listed = {u1, u2}
PROPERTIES
  ChannelsClosed
CHECK_DEADLOCK FALSE
