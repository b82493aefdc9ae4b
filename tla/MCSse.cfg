SPECIFICATION FairSpec
CONSTANTS
  g = g
  a1 = a1
  b1 = b1
  a2 = a2
  t1 = t1
  t2 = t2
  None = None
  Genesis = g
  Blocks <- MCBlocks
  Chain <- MCChain
  Work <- MCWork
  TxsOf <- MCTxsOf
  Txs <- MCTxs
  PoolTxs <- MCOneTx
  Daemons = {d1, d2}
  Polls = {p1, p2}
  Clients = {c1}
INVARIANTS TypeOK MempoolViewAgrees
PROPERTIES EventsAreTipChanges ImplementsFeed BusSettles
