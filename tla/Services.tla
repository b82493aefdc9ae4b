----------------------------- MODULE Services -------------------------------
(***************************************************************************)
(* One run for the services of the API server, the RBF cache, and the      *)
(* connection and the tile of a page, which do not depend on each other.   *)
(* "subject" names the one that moves; the rest stay as they are.          *)
(***************************************************************************)
EXTENDS Integers, Sequences, FiniteSets

CONSTANTS
  Callers,                                  \* of the caches
  Requests, Refused, RpcRetries,            \* RPC pool
  First, Triggered, SampleInterval, MaxSamples, HasDb, StatsClock,
  PriceTtl, StaleTtl, PriceTimeout, PriceClock,
  Feeds, AttributionTtl, FeedTimeout, RegistryClock,
  Questions, TickerTtl, TickerClock,
  Budget, Minute, Day, Retention, MaxCount, MetricsClock,
  Savers, Batches, Inodes, Tolerance,       \* price history
  Spent, Window, MaxMoves, MaxRestarts,     \* RBF trees
  Indexes, MaxVisits, MaxOutages,           \* tiles
  NoFile, Missing, Nothing, Idle

VARIABLES
  subject, now,
  requirePrimarySync, primary, fallbackUp, primaryUsable, fresh, call, attempt,
  phase, since, read, samples, lastSampleAt, recording, taken,
  swept, cache, told, kept, build, asked, given,
  step, days, previous, windowStart, windowCount, counted,
  hasDb, at, batch, rows, fd, content, alone, saved,
  db, tmp, file,
  mempool, spends, gone, confirmed, rbf, disk, moves, restarts, adrift,
  socket, alive, goneOffline, pingTimer, pongTimer, retries, heard,
  open, tracked, answering, snapshots, uplink, wire,
  isTrackingMempoolBlock, trackingMempoolBlock, stopping, mempoolBlockState, offline,
  visible, visits, outages

rpcVars == <<requirePrimarySync, primary, fallbackUp, primaryUsable, fresh, call, attempt>>
statsVars == <<phase, since, read, samples, lastSampleAt, recording, taken>>
priceVars == <<swept, cache, told>>
cacheVars == <<kept, build>>
callerVars == <<asked, given>>
metricVars == <<step, days, previous, windowStart, windowCount, counted>>
historyVars == <<hasDb, at, batch, rows, fd, content, alone, saved>>
diskVars == <<db, tmp, file>>
treeVars == <<mempool, spends, gone, confirmed, rbf, disk, moves, restarts, adrift>>
pageVars == <<socket, alive, goneOffline, pingTimer, pongTimer, retries, heard>>
tileVars == <<open, tracked, answering, snapshots, uplink, wire,
              isTrackingMempoolBlock, trackingMempoolBlock, stopping, mempoolBlockState, offline,
              visible, visits, outages>>
upstreamVars == <<treeVars, pageVars, tileVars>>
vars == <<subject, now, rpcVars, statsVars, priceVars, cacheVars, callerVars, metricVars,
          historyVars, diskVars, upstreamVars>>

-----------------------------------------------------------------------------
Rpc == INSTANCE RpcPool WITH Calls <- Requests, RPC_RETRIES <- RpcRetries

Stats == INSTANCE MempoolStats
           WITH call <- recording, None <- NoFile, Interval <- SampleInterval, MaxTime <- StatsClock

Price == INSTANCE LatestPrice WITH Ttl <- PriceTtl, Timeout <- PriceTimeout, MaxTime <- PriceClock

Registry == INSTANCE ProofRegistry WITH Ttl <- AttributionTtl, Timeout <- FeedTimeout, MaxTime <- RegistryClock

Swap == INSTANCE SwapTicker WITH Ttl <- TickerTtl, MaxTime <- TickerClock

Metrics == INSTANCE MigrationMetrics WITH MaxTime <- MetricsClock

Prices == INSTANCE PriceHistory

Trees == INSTANCE RbfCache

Page == INSTANCE PageConnection

Tile == INSTANCE ProjectedTile WITH goneOffline <- offline

ASSUME ServicesAssumption ==
  /\ Refused \subseteq Requests
  /\ First \notin Triggered
  /\ MaxSamples \in Nat /\ SampleInterval \in Nat /\ TickerTtl \in Nat /\ AttributionTtl \in Nat /\ FeedTimeout \in Nat
  /\ Feeds \in Seq([blocks : SUBSET Registry!Blocks, proof : BOOLEAN])
  /\ PriceTtl \in Nat \ {0} /\ StaleTtl \in Nat \ {0} /\ PriceTimeout \in Nat
  /\ Day \in Nat \ {0} /\ Retention \in Nat \ {0}
  /\ \A b \in Batches : b # {} /\ \A p \in b : p[1] \in Nat
  /\ \E i, j \in Inodes : i # j
  /\ Tolerance \in Nat
  /\ DOMAIN Spent \in SUBSET Int /\ IsFiniteSet(DOMAIN Spent) /\ Window \in Nat
  /\ NoFile \notin Int /\ Missing \notin Int /\ Nothing \notin Inodes /\ \A b \in SUBSET UNION Batches : b # Nothing

-----------------------------------------------------------------------------
RpcRests == Rpc!Init /\ ~requirePrimarySync /\ primary = "ready"
StatsRest ==
  /\ phase = Idle /\ since = Idle /\ read = Idle /\ samples = Idle
  /\ lastSampleAt = Idle /\ recording = Idle /\ taken = Idle
PriceRests == swept = Idle /\ cache = Idle /\ told = Idle
CallersRest == asked = Idle /\ given = Idle
MetricsRest ==
  /\ step = Idle /\ days = Idle /\ previous = Idle
  /\ windowStart = Idle /\ windowCount = Idle /\ counted = Idle
HistoryRests ==
  /\ hasDb = Idle /\ at = Idle /\ batch = Idle /\ rows = Idle
  /\ fd = Idle /\ content = Idle /\ alone = Idle /\ saved = Idle

TreesRest ==
  /\ mempool = Idle /\ spends = Idle /\ gone = Idle /\ confirmed = Idle /\ rbf = Idle
  /\ disk = Idle /\ moves = Idle /\ restarts = Idle /\ adrift = Idle
PageRests ==
  /\ socket = Idle /\ alive = Idle /\ goneOffline = Idle /\ pingTimer = Idle
  /\ pongTimer = Idle /\ retries = Idle /\ heard = Idle
TileRests ==
  /\ open = Idle /\ tracked = Idle /\ answering = Idle /\ snapshots = Idle
  /\ uplink = Idle /\ wire = Idle
  /\ isTrackingMempoolBlock = Idle /\ trackingMempoolBlock = Idle
  /\ stopping = Idle /\ mempoolBlockState = Idle /\ offline = Idle
  /\ visible = Idle /\ visits = Idle /\ outages = Idle

InitRpc ==
  /\ Rpc!Init
  /\ now = Idle
  /\ StatsRest /\ PriceRests /\ kept = Idle /\ build = Idle /\ CallersRest
  /\ MetricsRest /\ HistoryRests /\ db = Idle /\ tmp = Idle /\ file = Idle
InitStats ==
  /\ Stats!Init
  /\ RpcRests /\ PriceRests /\ kept = Idle /\ build = Idle /\ CallersRest
  /\ MetricsRest /\ HistoryRests /\ tmp = Idle
InitPrice ==
  /\ Price!Init
  /\ RpcRests /\ StatsRest /\ kept = Idle /\ build = Idle
  /\ MetricsRest /\ HistoryRests /\ db = Idle /\ tmp = Idle /\ file = Idle
InitRegistry ==
  /\ Registry!Init
  /\ RpcRests /\ StatsRest /\ PriceRests
  /\ MetricsRest /\ HistoryRests /\ db = Idle /\ tmp = Idle /\ file = Idle
InitSwap ==
  /\ Swap!Init
  /\ RpcRests /\ StatsRest /\ PriceRests /\ build = Idle
  /\ MetricsRest /\ HistoryRests /\ db = Idle /\ tmp = Idle /\ file = Idle
InitMetrics ==
  /\ Metrics!Init
  /\ RpcRests /\ StatsRest /\ PriceRests /\ kept = Idle /\ build = Idle /\ CallersRest
  /\ HistoryRests /\ db = Idle
InitPrices ==
  /\ Prices!Init
  /\ now = Idle
  /\ RpcRests /\ StatsRest /\ PriceRests /\ kept = Idle /\ build = Idle /\ CallersRest
  /\ MetricsRest

ServicesRest ==
  /\ now = Idle /\ kept = Idle /\ build = Idle /\ db = Idle /\ tmp = Idle /\ file = Idle
  /\ RpcRests /\ StatsRest /\ PriceRests /\ CallersRest /\ MetricsRest /\ HistoryRests

InitService ==
  \/ subject = "rpc" /\ InitRpc
  \/ subject = "stats" /\ InitStats
  \/ subject = "price" /\ InitPrice
  \/ subject = "registry" /\ InitRegistry
  \/ subject = "swap" /\ InitSwap
  \/ subject = "metrics" /\ InitMetrics
  \/ subject = "prices" /\ InitPrices
Init ==
  \/ InitService /\ TreesRest /\ PageRests /\ TileRests
  \/ subject = "trees" /\ ServicesRest /\ Trees!Init /\ PageRests /\ TileRests
  \/ subject = "page" /\ ServicesRest /\ TreesRest /\ Page!Init /\ TileRests
  \/ subject = "tile" /\ ServicesRest /\ TreesRest /\ PageRests /\ Tile!Init

NextRpc ==
  /\ subject = "rpc" /\ Rpc!Next
  /\ UNCHANGED <<subject, now, statsVars, priceVars, cacheVars, callerVars, metricVars,
                 historyVars, diskVars, upstreamVars>>
NextStats ==
  /\ subject = "stats" /\ Stats!Next
  /\ UNCHANGED <<subject, rpcVars, priceVars, cacheVars, callerVars, metricVars, historyVars, tmp, upstreamVars>>
NextPrice ==
  /\ subject = "price" /\ Price!Next
  /\ UNCHANGED <<subject, rpcVars, statsVars, cacheVars, metricVars, historyVars, diskVars, upstreamVars>>
NextRegistry ==
  /\ subject = "registry" /\ Registry!Next
  /\ UNCHANGED <<subject, rpcVars, statsVars, priceVars, metricVars, historyVars, diskVars, upstreamVars>>
NextSwap ==
  /\ subject = "swap" /\ Swap!Next
  /\ UNCHANGED <<subject, rpcVars, statsVars, priceVars, build, metricVars, historyVars, diskVars, upstreamVars>>
NextMetrics ==
  /\ subject = "metrics" /\ Metrics!Next
  /\ UNCHANGED <<subject, rpcVars, statsVars, priceVars, cacheVars, callerVars, historyVars, db, upstreamVars>>
NextPrices ==
  /\ subject = "prices" /\ Prices!Next
  /\ UNCHANGED <<subject, now, rpcVars, statsVars, priceVars, cacheVars, callerVars, metricVars, upstreamVars>>

NextTrees ==
  /\ subject = "trees" /\ Trees!Next
  /\ UNCHANGED <<subject, now, rpcVars, statsVars, priceVars, cacheVars, callerVars, metricVars,
                 historyVars, diskVars, pageVars, tileVars>>
NextPage ==
  /\ subject = "page" /\ Page!Next
  /\ UNCHANGED <<subject, now, rpcVars, statsVars, priceVars, cacheVars, callerVars, metricVars,
                 historyVars, diskVars, treeVars, tileVars>>
NextTile ==
  /\ subject = "tile" /\ Tile!Next
  /\ UNCHANGED <<subject, now, rpcVars, statsVars, priceVars, cacheVars, callerVars, metricVars,
                 historyVars, diskVars, treeVars, pageVars>>

Next ==
  \/ NextRpc \/ NextStats \/ NextPrice \/ NextRegistry
  \/ NextSwap \/ NextMetrics \/ NextPrices \/ NextTrees \/ NextPage \/ NextTile

(* See PageConnection. *)
PageFairness ==
  /\ WF_pageVars(subject = "page" /\ Page!PingFires)
  /\ WF_pageVars(subject = "page" /\ Page!PongFires)
  /\ WF_pageVars(subject = "page" /\ Page!RetryFires)
  /\ SF_pageVars(subject = "page" /\ Page!Opens)
  /\ SF_pageVars(subject = "page" /\ Page!Hears)
  /\ WF_pageVars(subject = "page" /\ Page!FirstFails)

(* Requests keep coming to the pool, every post is answered or times out,
   time passes. *)
Spec ==
  /\ Init /\ [][Next]_vars
  /\ \A c \in Requests : /\ WF_rpcVars(subject = "rpc" /\ Rpc!Request(c))
                      /\ WF_rpcVars(subject = "rpc" /\ Rpc!CallStep(c))
  /\ WF_rpcVars(subject = "rpc" /\ Rpc!IntervalPasses)
  /\ PageFairness

-----------------------------------------------------------------------------
(* A primary that fails, syncs or restarts is not noticed by a caller. *)
CallsSurvivePrimary == Rpc!CallsSurvivePrimary
(* A primary that is ready again is used again, whatever probes ended late
   and calls failed. *)
PrimaryReturns == Rpc!PrimaryReturns
(* The samples are in the order of their times, in memory and in the file,
   whatever calls overlap with loads and restarts. *)
SamplesAscend == subject = "stats" => Stats!SamplesAscend
(* No page is shown a price as current that is older than its lifetime and
   a request. *)
PricesAreRecent == subject = "price" => Price!PricesAreRecent
(* While the exchange is away a page is shown the price of its last answer. *)
OutagesAreCovered == subject = "price" => Price!OutagesAreCovered
(* An attribution comes from a feed that answered, and a proof wins over a
   claim without one. *)
ProofsWin == subject = "registry" => Registry!ProofsWin
(* No attribution is older than its lifetime and one build. *)
AttributionsAreRecent == subject = "registry" => Registry!AttributionsAreRecent
(* A ticker served from the cache answers the question and has not expired. *)
TickerIsRecent == subject = "swap" => Swap!TickerIsRecent
(* What was answered with 204 survives every crash, and between requests
   memory and file agree. *)
CountsSurvive == subject = "metrics" => Metrics!CountsSurvive
(* A price is found at every hour that was saved: the hour's own, unless only
   the file has it and the database has another hour near. *)
HoursAreFound == subject = "prices" => Prices!HoursAreFound
(* The invariants that the class comment of the RBF cache lists. *)
TreesAreConsistent == subject = "trees" => Trees!TreesAreConsistent
(* No RBF tree stays for ever after its transactions are gone. *)
NoTreeLingers == subject = "trees" => Trees!NoTreeLingers
(* A page has one retry under way in an outage, and none otherwise. *)
OneReconnect == subject = "page" => Page!OneReconnect
(* A page is connected again, whatever fails and in whatever order its
   timers fire. *)
PageRecovers == subject = "page" => Page!PageRecovers
(* A page that believes it tracks a projected block is subscribed to it. *)
SubscriptionAgrees == subject = "tile" => Tile!SubscriptionAgrees
=============================================================================
