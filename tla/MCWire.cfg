SPECIFICATION Spec
CONSTANTS
  DateTimes = {"1970", "2025"}
  Int32 = {0, 1}
  Tokens = {"/", "%", "2F", "25", "78", "x", "a", "api", "downloads", "health"}
  Paths <- MCPaths
  Params <- MCParams
  Responses <- MCResponses
  Documents <- MCDocuments
INVARIANTS
  RequestsAreRouted
  FindPathAgrees
  CallsReachTheirOperation
  ResponsesComeBack
  DocumentsAreUnderstood
CHECK_DEADLOCK FALSE
