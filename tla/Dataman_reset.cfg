SPECIFICATION Spec
CONSTANTS
  c1 = c1
  c2 = c2
  NumKeys = 2
  MaxIndex <- MCMaxIndex
  Values = {1}
  SeekExtends = TRUE
  IoErrors = FALSE
  Clients <- MCOneClient
  Requests <- MCPersistRequests
  ChunkSize = 2
  MaxChunks = 1
  MaxPosts = 1
  MaxStarts = 2
  MaxStops = 1
  MaxCrashes = 1
  Reasons = {0, 1, 3}
INVARIANT NothingOutlivesItsReset
PROPERTY PowerOnDataSurvives
CHECK_DEADLOCK FALSE
