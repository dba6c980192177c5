SPECIFICATION FairSpec
CONSTANTS
  c1 = c1
  c2 = c2
  NumKeys = 2
  MaxIndex <- MCMaxIndex
  Values = {1}
  SeekExtends = TRUE
  IoErrors = FALSE
  Clients <- MCClients
  Requests <- MCMixedRequests
  ChunkSize = 2
  MaxChunks = 1
  MaxPosts = 2
  MaxStarts = 1
  MaxStops = 1
  MaxCrashes = 0
  Reasons = {0}
PROPERTIES ImplementsAtomicStore EveryCallReturns StopDrains
CHECK_DEADLOCK FALSE
