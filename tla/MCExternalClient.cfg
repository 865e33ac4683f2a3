\* One lifecycle goroutine, one application goroutine, fair scheduling; no symmetry, which
\* liveness checking does not allow.
CONSTANTS
  h1 = h1
  a1 = a1
  l1 = l1
  l2 = l2
  c1 = c1
  c2 = c2
  f1 = f1
  None = None
  Hosts <- OneHost
  Apps <- OneApp
  Loops <- TwoLoops
  Conns <- TwoConns
  Filters <- OneFilter
  Ids <- TwoIds
  MaxStarts = 1
SPECIFICATION FairSpec
INVARIANTS TypeOK OneReconnectLoop ConnectedIsWatched NoOrphanConnection HandlersReachBroker
PROPERTIES LossHitsOnlyItsConnection OutageIsNoticed StopEndsReconnecting
