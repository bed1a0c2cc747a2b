SPECIFICATION Spec
CONSTANTS
  ParsedURL <- MCParsedURL
  Length <- MCLength
  MediaTypeOf <- MCMediaTypeOf
  FirstId <- MCFirstId
  Workloads <- MCWorkloads
  PaginationMax = 2
  ChartLimit = 2
  BatchSize = 3
  PageLimit = 2
INVARIANTS
  IssuesComplete
  ReportersAgree
  CountersMatchRows
  ViewsAgree
PROPERTY
  CursorSpec
