SPECIFICATION FairSpec
CONSTANTS
  g = g
  a1 = a1
  a2 = a2
  b1 = b1
  b2 = b2
  t1 = t1
  t2 = t2
  None = None
  Genesis = g
  Blocks <- TwinBlocks
  Chain <- TwinChain
  Work <- TwinWork
  Txs <- MCNoTxs
  TxsOf <- TwinNoTxsOf
  Daemons = {d1}
  Clients = {c1}
  RecentBlocks = 1
  KeepBlocks = 1
  CachedHeights = {1}
  SnapsFail = TRUE
  MaxPending = 0
INVARIANT BroadcastsAscend
PROPERTIES StreamSettles
