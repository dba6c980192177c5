SPECIFICATION Spec
CONSTANTS
  c1 = c1
  c2 = c2
  NumKeys = 2
  MaxIndex <- MCMaxIndex
  Values = {1}
  SeekExtends = TRUE
  IoErrors = TRUE
  Clients <- MCClients
  Requests <- MCOneWrite
  ChunkSize = 2
  MaxChunks = 1
  MaxPosts = 3
  MaxStarts = 2
  MaxStops = 1
  MaxCrashes = 0
  Reasons = {0}
INVARIANTS ItemsExclusive PendingItemsHaveCallers NoLostWakeup
CHECK_DEADLOCK FALSE
