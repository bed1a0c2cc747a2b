SPECIFICATION Spec
CONSTANTS
  ParsedURL <- MCParsedURL
  Length <- MCLength
  MediaTypeOf <- MCMediaTypeOf
  FirstId <- MCFirstId
  Workloads <- NofollowWorkloads
  PaginationMax = 2
  ChartLimit = 2
  BatchSize = 3
  PageLimit = 2
INVARIANT NofollowLinksReported
