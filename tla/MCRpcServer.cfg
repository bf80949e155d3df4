SPECIFICATION FairSpec
CONSTANTS
  Conns = {c1, c2}
  MaxRequests = 3
  Threaded = TRUE
  MaxPipe = 2
INVARIANTS NoWildAccess RequestsSound OwnAnswerOnce WatchFitsOutgoing
PROPERTIES EventuallyAnswered
