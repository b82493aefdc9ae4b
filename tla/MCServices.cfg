SPECIFICATION Spec
CONSTANTS
  Callers = {c1, c2}
  Requests = {q1, q2}
  Refused = {q2}
  First = r0
  Triggered = {r1}
  Savers = {s1, s2}
  Inodes = {f1, f2, f3}
  Tolerance = 1
  RpcRetries = 1
  SampleInterval = 1
  MaxSamples = 2
  HasDb = TRUE
  StatsClock = 4
  PriceTtl = 2
  StaleTtl = 4
  PriceTimeout = 1
  PriceClock = 8
  Feeds <- MCFeeds
  AttributionTtl = 2
  FeedTimeout = 2
  RegistryClock = 5
  Questions = {1, 2}
  TickerTtl = 2
  TickerClock = 5
  Budget = 2
  Minute = 2
  Day = 2
  Retention = 2
  MaxCount = 3
  MetricsClock = 5
  Batches <- MCBatches
  Spent <- MCSpent
  Window = 2
  MaxMoves = 3
  MaxRestarts = 1
  Indexes = {0, 1}
  MaxVisits = 2
  MaxOutages = 1
  NoFile = NoFile
  Missing = Missing
  Nothing = Nothing
  Idle = Idle
INVARIANTS
  SamplesAscend PricesAreRecent OutagesAreCovered ProofsWin
  AttributionsAreRecent TickerIsRecent CountsSurvive HoursAreFound
  TreesAreConsistent NoTreeLingers OneReconnect SubscriptionAgrees
PROPERTIES
  CallsSurvivePrimary
  PrimaryReturns
  PageRecovers
CHECK_DEADLOCK FALSE
