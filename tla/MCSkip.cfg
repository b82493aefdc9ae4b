SPECIFICATION Spec
CONSTANTS
  g = g
  a1 = a1
  a2 = a2
  b1 = b1
  b2 = b2
  t1 = t1
  t2 = t2
  None = None
  Genesis = g
  Blocks <- LineBlocks
  Chain <- LineChain
  Work <- LineWork
  Txs <- MCNoTxs
  TxsOf <- LineNoTxsOf
  Daemons = {d1}
  Clients = {c1}
  RecentBlocks = 2
  KeepBlocks = 2
  CachedHeights = {}
  SnapsFail = TRUE
  MaxPending = 0
INVARIANTS NoHeightSkip
