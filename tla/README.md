# A TLA+ model of xmr-space

xmr-space is a Monero explorer grown out of the mempool project.  One Node.js
process (`backend/src/api/monero/xmr-server.ts`) polls a Monero daemon, serves
REST, pushes events over Server-Sent Events and WebSocket, and keeps three
histories (block samples, mempool statistics, prices).  An Angular page
(`frontend/src/app`) follows the WebSocket.  The backend of the mempool project
is still in the tree, with its tests and its own script (`start-upstream` in
`backend/package.json`): its mempool, its clusters and its block templates.
This directory models the parts of both where order, failure and concurrency
matter, checks them with TLC and proves the core with TLAPS.  Paths below are
relative to the root of the repository.

## Inventory

| component | code | state | interacts with | what makes it hard | correct when |
|---|---|---|---|---|---|
| event bus | `backend/.../monero-event-bus.ts` | lastTipHash, lastMempoolHashes, latestInfo, inflight | daemons through the RPC pool; emits `block`, `mempool-delta` | overlapping ticks, daemons that disagree, a header request that fails after the tip was noticed | every tip change is announced once |
| SSE stream | `monero-sse.routes.ts` | one listener pair per response | the bus | snapshot and first delta must meet | a reader's pool is the bus's pool |
| WebSocket adapter | `monero-ws.ts` | connState, lastBroadcastHeight, one promise chain | the bus, the API, sockets | broadcasts await several requests; snapshots run beside the chain | heights climb, nothing stalls, subscriptions survive |
| page | `frontend/.../websocket.service.ts`, `state.service.ts`, `mempool-block-overview.component.ts` | blocks, chain tip, what is tracked, goneOffline, four timers | the adapter | outages, reordered snapshots, late confirmations, timers that outlive their socket | the list is ordered and bounded, what is tracked is subscribed, the page comes back |
| API and memory cache | `monero-api.ts`, `memory-cache.ts` | one list of entries with an expiry | daemons, exchanges | stale answers after a reorganisation, concurrent misses | bounded staleness |
| RPC pool | `monero-rpc.ts` | primaryUsable, primaryCheckedAt | primary and fallback daemon | concurrent health checks, switch-over | requests reach a usable daemon |
| chain indexer | `xmr-chain-indexer.ts` | samples, dirty, a file | bus, API, registry, disk | overlapping saves, crash, late hydration | what was saved can be loaded |
| mempool statistics | `monero-stats.ts` | samples, lastSampleAt, database and file | bus, API, stores | start-up race, database outage | samples in order, one a minute |
| price history | `xmr-price.ts` | stores, caches | exchanges, database, file | read-modify-write of one file, a database that goes away | saved hours are found |
| proof registry, pool feeds | `xmr-miner-proof-registry.ts`, `xmr-pool-blocks.ts` | cache, inFlight | five pool APIs | failed feeds, a build many callers share | proofs win, bounded staleness |
| swap ticker | `xmr-swap-ticker.ts` | one cached ticker | exchanges | overlapping requests for different questions | an answer is to the question asked, and recent |
| migration metrics | `xmr-migration-metrics.ts` | events, rate window, a file | REST | crash or full disk between two writes | memory and file agree |
| block templates | `cluster-mempool/linearize.ts`, `block-builder.ts`, `utils/pairing-heap.ts` | chunks and active dependencies; block being filled; pointers of the heap | the clusters | cuts between equal feerates, limits in two units, handles that move | topological, within limits, the search ends |
| cluster mempool | `cluster-mempool/depgraph.ts`, `cluster-mempool.ts` | clusters, txToCluster, spentBy, what is written into transactions | mempool object, templates | incremental closure, splits, merges | clusters are the connected components |
| mempool update, main loop | `index.ts`, `api/mempool.ts`, `api/blocks.ts`, `api/disk-cache.ts` | mempoolCache, spendMap, protection, disk copy | node, clusters | the node moves between two requests; partial answers, throws, restarts | what is mined stays out, nothing names what has left |
| RBF cache | `api/rbf-cache.ts` | six maps, a timer | mempool updates, blocks, disk | replacements, blocks, evictions and restarts in any order | the maps agree, no tree stays for ever |
| arithmetic | `xmr-rings.ts`, `xmr-difficulty.ts`, parts of `monero-ws.ts`, `monero-stats.ts` | none | - | boundaries | equal to their definitions |
| routes, start-up | `monero.routes.ts`, `xmr-mining.routes.ts`, `xmr-server.ts`, ... | none of their own | API | - | - |
| rest of the upstream backend and of the frontend | the rest of `backend/src`, `rust/`, `frontend/src` | - | - | - | - |

`PROJECT.json` lists the same components with their status, and the hazards
found in the code, each with its line and the properties that cover it.

## Modules

    Blockchain              the block tree daemons answer from
      TipFeed               abstract: a tip is seen, then announced or forgotten
        MoneroWs            the WebSocket adapter, driven by the feed
          Dashboard         adapter and pages composed; Dashboard_proofs
            MCDashboard     instances
      MoneroEventBus        the poller; implements TipFeed
        MoneroSse           bus and event streams composed; MoneroSse_proofs
          MCSse             instance
    ChainIndexer            block samples and their file; ChainIndexer_proofs

    Services                the following, one at a time;
                            Services_proofs
      RpcPool               primary and fallback daemon
      MempoolStats          chart samples, database and file
      LatestPrice           the current price, over MemoryCache
      PriceHistory          hourly prices, database and file
      ProofRegistry         pool attributions and their feeds
      SwapTicker            one cached ticker
      MigrationMetrics      daily counts and their file
      RbfCache              replacement trees
      PageConnection        socket and timers of a page
      ProjectedTile         tile of a projected block
        MCServices          an instance of each

    DepGraph                dependency graph of a cluster
      ClusterMempool        the clusters, also over ChunkOrder
        MempoolSync         node, main loop, mempool and clusters composed;
                            MempoolSync_proofs
          MCSync            instance
    ChunkOrder              the deterministic stages of the linearization
      SpanningForest        the search
    BlockBuilder            projected blocks from chunks
    PriorityQueue           abstract: a queue of handles
      PairingHeap           its pointers; implements PriorityQueue
    Templates               SpanningForest, BlockBuilder, PairingHeap, one at
                            a time; Templates_proofs, Linearization_proofs
      MCTemplates           instances

    Selection               what Array.filter() keeps, as a recursive function
    Induction               induction over numbers and finite sets, and
                            recursive functions unfolded, for the proofs

In `Services` and `Templates` parts that do not depend on each other share a
specification: `subject` names the one that moves, the variables of the rest keep their
value.  Each part is its own module and its own properties.

### The server and its pages

**Blockchain.**  A block stands for its hash.  `Chain[b]` gives its height and
ancestors, `Work[b]` the cumulative difficulty by which daemons choose.

**TipFeed** is the promise of the bus: `Record` the first tip without an event,
`See` a different one, then `Announce` or `Forget` it.  The daemons are the
environment: `TipMoves` is one block, several, or a reorganisation, also at the
same height.

**MoneroEventBus** is `poll()`.  `pc[p]` says which request activation `p`
awaits.  `PollStarts` is the inflight guard and the call of get_info;
`FirstInfo`, `SameTipInfo`, `NewTipInfo` are the three branches after its
answer; `HeaderAnswered` and `HeaderFails` the inner try and catch;
`PoolAnswered` the delta and `finally`; `PollFails` the outer catch and
`finally`.  Each request may be answered by another daemon, which is what the
fallback of `MoneroRpcPool` can do.  `event` is what the step emitted; listeners
run in the same tick, so a composing module reads `event'`.  `lastHeight` is
assigned with `lastTipHash` and only compared with null, so it is left out.

**MoneroSse** adds the responses.  `shown[c]` folds what was written to `c`:
snapshot, then events.

**MoneroWs** is the adapter's block stream.  `broadcastQueue` is the promise
chain; the head's job runs in `BroadcastDrops`, `BroadcastStarts`,
`BlockFetched`, `BroadcastBlock`, one per stretch between awaits (the last
merges the awaits between the assignment of lastBroadcastHeight and the send,
none of which changes this state).  `snaps[c]` holds the snapshots under way for
a socket: `SnapCount` reads the block count, `SnapSend` the blocks by height and
writes.  Both go through `countCache` and `heightCache`, which expire at any
time and which other requests fill (`RestCount`, `RestBlock`).  A read through
the cache is one step, and the blocks of one snapshot are read in one step.
`init` and `want` are answered alike and share a message.  Payload fields other
than blocks and `txConfirmed` are left out; tiles are ProjectedTile.

**Dashboard** adds the page: `Connects` and `GoesOffline` (at any
time: the timers behind them are PageConnection), what a page asks for (`Want`,
`StartTrackTransaction`, `StopTrackingTransaction`), and `Receive`, which is
`handleResponse()` followed by the end of an outage in `startSubscription()`.
The first load without server-rendered data is modelled; the change of network
is not (there is one).

**PageConnection** is what Dashboard merges into `Connects` and `GoesOffline`:
the socket, the ping timer (`PingFires`), the timer that waits for its answer
(`PongFires`), and the retry (`RetryFires`).  `Hears` is any message: it ends an
outage and starts the timers again.  The timers belong to the page, not to a
socket, so those of a dead socket fire under the next one.  `alive` is the
network's: `LinkDies` happens without anybody being told.  The server never
closes a socket, so the subscription never completes without an error.

**ProjectedTile** is the tile of a projected block, on all three sides: the
subscription the adapter keeps for a connection (`TrackMempoolBlock`,
`SendProjectedBlockTransactions`, `RefreshTrackedProjectedBlocks`), what
`websocket.service.ts` believes of it (`StartTrackMempoolBlock`,
`StopTimerFires`, `Receive` with its resubscription), and the component and the
page that show it (`Opens`, `OpensPage`, `ChangesIndex`, `Closes`).  A stop is
sent two seconds late (`stopping`); anything may come in between.  A message
with a tile is its index.

### The services

**ChainIndexer** is `xmr-chain-indexer.ts` with the two files it writes.
`Asks` and `BlockArrives` call `hydrateBlock()`, which returns for a height it
knows (`HydrateSkips`) or fetches it (`HydrateFetches`, then `HydrateAnswered`
and `HydrateEnds`, or `HydrateFails`).  `persist()` is a step per await:
`PersistStarts` (mkdir), `Opens` (serialises the index and truncates
`blocks-index.json.tmp`), `Writes`, `Renames`; `PersistFails` at any of them.
A file has an identity (`Inodes`): a save keeps writing the one it opened after
another save has renamed it, and `WrittenOver` says what a file holds that two
saves wrote from its start.  `Crash` takes memory and open files, `Start` loads
`blocks-index.json` again.  A sample is the hash of its block.  Two facts are
taken from how the code runs: `start()` is called before the server accepts
requests and its read ends before a save begins, and libuv's pool takes the
opens in the order they were asked for.

**MempoolStats** is `monero-stats.ts`.  A sample is its time.  `Triggers` is the
gate, the same in the bus listener and in the timer; `First` is the call that
`start()` makes itself, ungated, when the load is over.  `PoolAnswered` to
`SaveFails` are `recordSample()` and `persist()` between awaits; `FromDb`,
`FallsBack` and `FromFile` the load through the database, the file behind it, or
neither.

**RpcPool** is `MoneroRpcPool` with the retries of `MoneroRpc`.  `Request` is
`selectRpc()` up to its first await, by one of `Unchecked`, `ByVerdict`,
`Probes`; the answers are `ProbeAnswered`, `ProbeFails`, `Answered`,
`PrimaryFails`, `FallbackFails`, each after any number of `Retries` up to
RPC_RETRIES (errors that are not transient are not retried).  Time is reduced to
`fresh`: primaryCheckedAt lies less than an interval back.  A refused call is
one that a daemon answers with an error.

**MemoryCache** is the list behind every cached answer: `Set` appends, `Get`
takes the first entry of its identifier whatever its expiry, `CleanUp` is the
sweep.  **LatestPrice** drives it: `Hit`, `Miss`, `Answered`, `Fails` are
`getLatestXmrPrice()` between its awaits for concurrent callers, `Keep` sets the
entry `latest` and the longer-lived `latest-stale`, `Sweep` is the timer.  A
price stands for the second in which it was true.

**PriceHistory** is `saveMany()` of the database store (row by row,
`InsertsRow`), of the fallback (`DbFails`) and of the file store, which reads,
merges and writes through one temporary file (`Opens`, `Writes`, `Renames`).
`FindNearest` is the read: the nearest hour of the database within `Tolerance`
(36 h in the code, one hour here), and the file only when the database is away or
has no hour that near.  `alone` is a history variable: no two calls have been at
the file at a time; at the database they may overlap.

**ProofRegistry** is `recentAttributions()`: `Serve` from the cache, `Wait` for
a build that may already be under way, `FeedAnswers` for each of the pools'
feeds, and `BuildEnds`, which merges the records in the order of the feeds
(`Collapse`) and lets every waiting caller set the expiry it computed when it
asked.

**SwapTicker** is `getXmrSwapTicker()`: one slot for all questions, requests
that overlap and have no timeout.

**MigrationMetrics** is `record()`, cut at its synchronous writes because a crash
may come between them: `Record` (window, budget, pruning), `Write`, `Rename`,
the rollback in `Fails`, `Crash`, `Start`.  `counted` is a history variable: what
was answered with 204.

**RbfCache** holds the maps of `rbf-cache.ts` in the record `rbf` and the queries
that walk them as operators: `Add`, `Evict`, `Mined`, `CleanUp` (the timer, with
`remove`), `Dump` and `Import`, `CheckTrees`.  They are driven by what drives
them in the code: `Update` (an update of the mempool and the transactions it
deleted recently), `Block` (which finds conflicts in the spend map), `Expires`,
`Saves` and `Restart`.  `adrift` is a history variable for the one tree the code
loses sight of (see below).

### Block templates, clusters and the mempool

**ChunkOrder** has the deterministic stages of `linearize.ts`: chunks to a
linearization (`ExtractLinearization`), a linearization cut into chunks
(`Chunkify`), the two passes that improve it (`PostPass`), chunks split into
their connected parts (`MinimizeChunks`), and the canonical order
(`CanonicalOrder`).  Feerates are compared by cross-multiplication, as in the
code.

**SpanningForest** is the search: `LoadHint`, `TopologicalStep`, `OptimizeStep`
and `MinimizeStep` are one turn each of the loops of mergeUpwards,
makeTopological, optimizeSFL and minimizeSFL, with the merge and the cut
(`Merge`, `Split`) they share.  The random choices are nondeterministic; the
budget may run out before any step of the last two phases (`Finish`).

**BlockBuilder** is `assembleBlocks`: `OpenBlock`, `Place`, `Defer`,
`CloseBlock`.  The heap is the set of first unplaced chunks and `Best` what
its comparison prefers.  A chunk has the adjusted weight that is checked and the
real weight that is added.

**PairingHeap** is `utils/pairing-heap.ts` with its pointers: child, next and a
`prev` that is the parent of a first child.  `Meld`, `MergePairs` and `Unlink`
are the private methods, `Add`, `Pop`, `DeleteNode`, `IncreasePriority` and
`DecreasePriority` the actions.  **PriorityQueue** is what callers are promised:
a bag of handles from which one leaves that none beats.  The heap implements it
with `queue` as the priorities of the nodes reachable from the root.

**DepGraph** is `depgraph.ts`: parents, and ancestor and descendant sets kept by
increments (`AddTransaction`, `AddDependency`, `RemoveTransactions`, `Subgraph`,
`Components`).  **ClusterMempool** is `cluster-mempool.ts` over it, as operators
on the record `cm`: `BuildFromMempool` and `ApplyMempoolChange` with what they
call, in the code's order (spentBy, removal, splitting, accelerations, merging,
relinearization, write back).  `BuildFromMempool` depends on the order of the
mempool object: `spentBy` keeps the last spender of an output (`LastSpender`), the
search for components (`Reach`) goes down through it and up to all parents, and a
dependency between two components is dropped.  A linearization starts from one admissible order
instead of the search; the rest of `linearizeCluster` is applied to it.

**MempoolSync** composes them with the node and the main loop of `index.ts`.
The node moves between any two awaits (`Arrive`, with replacement, `Evict`,
`MineBlock`, `Boosts`).  The loop is `ReadRaw`, `ReadTip`, `HandleBlock` (one
pass of `$updateBlocks` with `$applyBlockTransactionsToMempool`), `StartUpdate`,
`FetchSlice` (one request for several transactions, answered in part and in any
order), `Apply` (deletions with the clear protection, clusters, spend map),
`ProtectionEnds` (its timer), `Throws` and `Restart`.  `$saveCacheToDisk` runs
beside the loop in the steps of `save`: `HandleBlock` lists the transactions,
`Unlocked` (the end of `$updateBlocks`) takes the blocks of then, `RenamesFirst`
publishes the first file, which has the blocks, `RenamesLast` the other 24, and
`SaveFails` stops it at either.  `Restart` loads, in any order, a part of the copy
on disk, which may consist of files of two saves (`Torn`), or of the one that
SIGINT writes unless a save is under way.  `untold`, `unlinked` and `restored` are
history variables for what the code loses or brings back (see below); the
properties set just that aside.

## Runs

| run | checks | instance |
|---|---|---|
| `sse` | TypeOK, MempoolViewAgrees, EventsAreTipChanges, ImplementsFeed, BusSettles | 2 daemons, 2 overlapping ticks, 4 blocks with a fork at height 1, 1 pool transaction, 1 reader, fairness; 50,624 states |
| `page` | ListDescends, TrackingAgrees | 1 page, a chain of 3 blocks that mine 2 transactions, lists of 2, one more message under way; 830,268 states |
| `settles` | BroadcastsAscend, StreamSettles | 1 page, 2 blocks at height 1, height 1 cached, fairness; 226,244 states |
| `indexer` | TypeOK, SavesNeverShrink | 2 heights, 2 hashes, 1 hydration and 2 saves at a time, 3 files; 314,574 states |
| `services` | the properties of the table below | one small instance each; 1,107,748 states together |
| `templates` | LinearizationIsTopological, ActiveIsInternal, ChunksReproduce, OptimizesTopological, SearchAdvances, AncestorsFirst, BlocksWithinLimits, NoRoomWasted, HeapImplementsQueue | all connected clusters of 4 transactions with 2 fees; 3 clusters of at most 3 chunks into 3 blocks; a heap of 4 nodes and 3 keys; 199,938 states |
| `clusters` | ClustersFollowTheCache, RelativesAreRight, TransactionsAreTold, SpendMapIsCurrent, MinedStaysOut | 5 transactions, 3 of them in the node's mempool at first, 2 moves of the node, 1 fault, requests of 2, a save after each block; 224,561 states |

| part of `services` | properties | instance |
|---|---|---|
| RpcPool | CallsSurvivePrimary, PrimaryReturns | 2 concurrent calls, one refused by the daemons, 1 retry, with and without the sync check |
| MempoolStats | SamplesAscend | a window of 2 samples, an interval of 1, a clock up to 4, the first and one triggered call |
| LatestPrice | PricesAreRecent, OutagesAreCovered | 2 callers, entries that live 2 and 4 s, requests of 1 s, a clock up to 8 |
| PriceHistory | HoursAreFound | 2 saves, 2 batches over three hours, one of which they share, a tolerance of one hour, so that an hour of the file is near one of the database or not, 3 files |
| ProofRegistry | ProofsWin, AttributionsAreRecent | 2 callers, 3 feeds, 2 of them with proofs, that share blocks, a lifetime and a timeout of 2, a clock up to 5 |
| SwapTicker | TickerIsRecent | 2 callers, 2 questions, a lifetime of 2, a clock up to 5 |
| MigrationMetrics | CountsSurvive | 2 writes in a window of 2, days of 2, of which 2 are kept, 3 requests counted a day, a clock up to 5 |
| RbfCache | TreesAreConsistent, NoTreeLingers | 4 transactions, one of which conflicts with all others, 2 updates remembered, 3 updates or blocks, 1 restart |
| PageConnection | OneReconnect, PageRecovers | unbounded |
| ProjectedTile | SubscriptionAgrees | 2 indexes, 2 visits, 1 outage |

Five runs find a violation of what a comment says; `PROJECT.json` quotes it.

| run | property | what happens |
|---|---|---|
| `stale_drop` | OnlyStaleEventsDrop | the block that replaces the tip at its height is dropped as stale; the page keeps the orphan |
| `height_skip` | NoHeightSkip | an older snapshot arrives after a block: the list falls behind the tip and the next block leaves a hole that nothing repairs |
| `index_torn` | SettledFileLoads | a save renames the file another save has just truncated and then fails to write |
| `index_lost` | LiveUpdatesAreSaved | a sample added while a save waits for the disk is marked clean with it |
| `tile_frozen` | VisibleTilesAreTracked | a tile is left and opened again within two seconds: it is resumed without a request, so the delayed stop is not cancelled and ends the subscription of the tile on the screen |

### Divergences without a run

More of them came up while the modules were written.

* A client connected before the first answer gets an empty snapshot and no
  event until the next block (`monero-sse.routes.ts:39-40`,
  `monero-event-bus.ts:81-86`).
* A block cached by height for 60 seconds is sent beside the branch that
  replaced it (`monero-api.ts:16-17`, `84-92`); `refresh-blocks` is answered from
  a block count up to 5 seconds old (`monero-ws.ts:281-287`); and the pool is
  cached for 5 seconds (`monero-api.ts:114`) while the bus polls every 3, so a
  tile sent after a delta may not show it.
* A block that replaces an indexed one is skipped by the indexer
  (`xmr-chain-indexer.ts:348-360`).
* The ungated first sample and a triggered one may fall in one minute
  (`monero-stats.ts:261-276`); samples written to the file in an outage are not
  loaded once the database has a recent row (`monero-stats.ts:208`).
* An error that the daemon answered is taken for a daemon that failed: one
  request for a height beyond the tip sends all calls to the fallback for an
  interval (`monero-rpc.ts:143`).
* `get()` takes the oldest entry, so in an outage the oldest `latest-stale` is
  shown although a newer one is cached (`xmr-price.ts:398-403`,
  `memory-cache.ts:25`).
* Overlapping `saveMany()` lose each other's prices and may publish a half-written
  file (`xmr-price.ts:164`); the database replaces the row of an hour, so a batch
  with one currency writes -1 over the others (`xmr-price.ts:229`).
* An hour that is only in the file, because the database failed, is hidden by any
  row of the database within 36 hours (`xmr-price.ts:311`, `206-216`), and from
  `loadAll()` by any row at all (`xmr-price.ts:297-307`): HoursAreFound claims a
  price, and the hour's own only where no row is near.
* A feed that failed is missing from the attributions for a whole lifetime
  (`xmr-miner-proof-registry.ts:98`); a slow older request for a swap ticker
  overwrites a newer one (`xmr-swap-ticker.ts:181`).
* On a page, a tile that is stopped and started again for the same block within
  two seconds is not marked as tracked, so a later outage does not subscribe it
  again (`websocket.service.ts:117`, `164-178`); the answer to a subscription may
  overtake a refresh made from a newer pool.
* An esplora request that throws leaves the transactions of the requests before
  it in the mempool object, and clusters and spend map never hear of them
  (`mempool.ts:299`); deletions leave the mempool object before the clusters are
  told, so outputs they spend keep their entry in spentBy (`mempool.ts:383`,
  `cluster-mempool.ts:354`); a parent that is fetched after a restart with a part
  of the disk copy gets a cluster of its own although its child is there
  (`cluster-mempool.ts:166`); when a copy has two transactions that spend one
  output, which the clear protection leaves side by side, one of them may be
  built into a cluster of its own without its parent
  (`cluster-mempool.ts:209-216`, `252`), and the dependency stays lost when the
  other goes.  `unlinked` are these spends.
* The disk copy leaves out the remainder of its division into 25 files
  (`disk-cache.ts:64`).  Its transactions are listed before its blocks are taken
  (`disk-cache.ts:54`, `91`), and the files are renamed one by one
  (`disk-cache.ts:104-107`), so a copy may have blocks beside transactions that
  they mined.  A restart from it puts these back into the mempool object, and
  their blocks are not handled again; the next update that may delete takes them
  out.  `restored` are these transactions.
* A root of an RBF tree that the node still knows at a restart, and that is
  evicted before the first update, has no date at which its tree goes
  (`rbf-cache.ts`, `load` and `checkTrees`); `exportTree` saves a mark that
  `importTree` does not read.

### Bounds

The forks need one pair of blocks at the same height and one block
above or below; lists of two show both overtaking and slicing.  Two ticks are
what overlapping needs, two daemons what disagreement needs; `sse` has one
reader because readers do not touch each other (the proof covers any number).
The adapter's clients interact through the promise chain only, whose jobs treat
each socket alike, so one page is used; the job's early return for an empty room
still occurs because the page comes and goes.  `MaxPending` stops a page from
asking for more while messages are under way; what the code sends of itself
(resubscription, refresh) is never bounded.  `CachedHeights` says which heights
have cache entries that are followed; the others are read from a daemon each
time.  `Work` bounds how often daemons move.  Two saves are what overlapping needs (the
proof covers any number), and three files are as many as two saves and the index
can hold.  The statistics' window ends inside the clock's range, so samples age
out of memory and of the stores; each clock of the services runs for two
lifetimes or more, so an entry expires, is replaced and expires again.

Four transactions give every shape of cluster in which a cut leaves dependencies
on both sides, and two fees give equal and different feerates, which is what the
comparisons tell apart; the hints are none and the order of the transactions.
Larger clusters are out of reach of the run, and two things that hold on these
do not hold on larger ones, so they are not claimed: that a result is never worse
than the hint, and that its chunks are connected.  A node of the heap may
be deleted or moved below every depth four nodes have; nodes are symmetric.
In `clusters` the second and the third transaction spend the first, the fourth
spends both, and the fifth replaces the third: adding, evicting and mining them
merges and splits clusters.  A third of the mempool may disappear in a run,
which triggers the clear protection.  `MaxMoves` and `MaxFaults` bound the
node and the faults, not the loop.

Deadlock is checked except in `services`, `templates` and `tile_frozen`: a clock
at its bound, a finished search, and a page without visits left really stop.
Runs whose system always has a crash or a restart to take check deadlock like the
others.

### Fairness

Node runs every continuation whose request ended, the timer keeps
ticking, and axios has a timeout: weak fairness of each process.  That a daemon
asked again and again does not fail for ever is strong fairness of the answers
(`BusFairness`, `FeedFairness`); without it nothing can be promised.  Outages,
page actions, cache expiry and the moves of daemons are not fair.  `index_lost`
assumes that the timer starts saves and that a disk asked again and again does
not fail for ever; PrimaryReturns, that requests keep coming, each post ends and
the interval passes.  PageRecovers assumes that timers fire, and that a page that
tries again and again is let in and gets a message again and again.  A
connection that dies before its first message is watched by no timer of the page
(they start with a message), so for that one the transport has to report the
error.

## Proofs

Each module of proofs is about the specification that a run checks, for every
value of its constants.  The shape is the same throughout: types, an inductive
invariant that says at each await or step what the property leaves open, one
step per action, and the property from the invariant.

### The server and its pages

`MoneroSse_proofs`, for any blocks, daemons, ticks, transactions and readers:

* `BusInvariant`: the inductive invariant is the types, `OnePoll` (at most one
  activation is between its first request and its last answer, and then inflight
  is set) and `HeaderIsNews` (a header is being fetched only for a tip that still
  differs from lastTipHash).  The comparison is one await older than the
  assignment; it still holds because no other activation can assign in between,
  which is `OnePoll`.  Without `OnePoll` neither conjunct is inductive.
* `AnnouncesEachTipOnce` (EventsAreTipChanges), from that invariant.
* `BusImplementsFeed` (ImplementsFeed): every step maps to a step of TipFeed or
  to none, with `pending` the hash held by the poll that awaits a header.
* `SseTypes` and `ViewsOfThePoolAgree` (MempoolViewAgrees): an event is exactly
  the difference between the pool before and after the step that emits it.

`ChainIndexer_proofs` proves SavesNeverShrink for any number of saves,
hydrations, heights and files.  That memory covers the file (`MemoryCovers`) is
not enough: what is renamed is the temporary file, which another save may have
opened since.  `WriterIsLater` orders the saves: one that writes the temporary
file knows what the index knows and what every save knows that still writes a
file renamed before.  `TmpIsLater` says the same of the temporary file once it
is whole, as long as a save is past its opening; what a crash left behind is
truncated by the first save that opens it.  The rest are the names of the files
being different, and nothing being saved while the process is down.

`Dashboard_proofs`, of adapter and pages composed, for any pages, blocks and
reorganisations:

* `DashboardTypes` and `ListsAreOrdered` (ListDescends).  A list is ordered
  because its snapshot was; a snapshot is ordered although its blocks come from
  a cache that reorganisations do not clear, because what is cached for a height
  has that height (`CacheIsByHeight`, part of the types).  A broadcast goes to
  the front only if it is above.
* `BroadcastsClimb` (BroadcastsAscend), from `StreamInv`: the block of the
  running job is above lastBroadcastHeight, and once that is assigned above all
  that was written (`JobIsNews`), and what was written to a socket climbs
  (`WiresClimb`).  broadcastNewBlock() compares before it awaits and writes
  after; the comparison still holds because the promise chain runs one job at a
  time.
* `TrackedPagesAgree` (TrackingAgrees).  Between a page's `track-tx` and the
  server there may be older ones, a confirmation may be on its way back, and the
  socket may be lost.  The invariant (`Followed`) follows the last request:
  either it is under way, or nothing is and the server tracks that transaction
  or has written its confirmation.  It rests on closed sockets being forgotten
  and on snapshots belonging to open sockets.

### The services

`Services_proofs` proves the thirteen safety properties that
the run of `Services` checks.  Each part has its invariant, which holds while `subject` names it.

* `PrimaryFailuresAreHidden` (CallsSurvivePrimary): an action property of each
  step; a call that the primary fails goes to the fallback whatever the verdict
  on the primary has become since it was chosen.
* `CountsAreKept` (CountsSurvive): between two writes memory is exactly one
  ahead of the file, for today (`Ahead`), and otherwise agrees with it on the
  days that are kept (`Agree`); so a rollback gives back what the file has.
* `TickersAreRecent` (TickerIsRecent): what is kept was asked for no later than
  the date its lifetime counts from (`TickerDates`).
* `AttributionsExpire` (AttributionsAreRecent): a build is under way while
  somebody waits for it and began before each of them asked (`Builds`), so that
  the expiry which the last of them sets is at most one build too late
  (`KeptExpires`).
* `ProofsPrevail` (ProofsWin): the attributions are what a recursion over the
  list of feeds builds.  `BuildsStepwise` unfolds it, and an induction over the
  feeds shows of every prefix whose block is attributed to whom (`Attributes`).
* `OneReconnectAtATime` (OneReconnect): a socket that is down implies
  goneOffline, which is the condition the second timer tests, so only the first
  to notice an outage starts a retry (`Reconnects`).
* `SubscriptionsAgree` (SubscriptionAgrees): a page whose stop is pending does
  not believe to track anything (`StopsWhatIsLeft`), so the stop never takes back
  a newer subscription; and a connection that is closed is forgotten on both
  sides (`ClosedIsForgotten`).
* `PricesAreNotOld` and `OutagesHaveAPrice` (PricesAreRecent, OutagesAreCovered):
  from what is in the list of the memory cache (`CacheInv`).  `get()` takes the
  first entry whatever its expiry, and an entry leaves with the sweep; that what
  is in the list after a sweep lives (`Lives`) is why neither harms a lifetime of
  at least a second.
* `SavedHoursAreFound` (HoursAreFound): while calls do not overlap at the file
  (`OneAtATime`), the temporary file and the published one differ, and each stretch
  of a call knows what it inserted or writes (`Inserting`, `Writing`).  So an hour
  that was saved is in one of the stores (`PointsKept`); a read by the nearest hour
  gives that hour's own where it is the first to be asked (`NearestIsOwn`), and
  another near one otherwise (`KeptIsFound`).
* `SamplesAreInOrder` (SamplesAscend): samples, file and what a load has read are
  charts that end before now (`StatsInv`); the lists are cut by a filter, which
  `Selection` writes as a recursive function.
* `TreesStayConsistent` and `TreesDoNotLinger` (TreesAreConsistent,
  NoTreeLingers): the cache is a forest (`Forests`).  To what the comment of the
  class asks for, the induction adds that the newest transaction of a tree is its
  only one that was not replaced (`Newest`), that what a tree says of a
  transaction is what replaces says (`Rooted`), and that replacing closes no cycle
  (`Acyclic`).  With these, `add` joins whole trees below a new root
  (`AddChanges`); what `remove` reaches from a newest transaction, version by
  version, is its whole tree and nothing else (`WholeTrees`); and what importTree
  builds from a copy on disk has the maps that were dumped (`ImportKeeps`).

`Induction` has what these share.  It states induction and recursion for sets and
functions instead of operators: a set of numbers with 0 and with each successor
has all (`UpTo`), and a recursive function exists and is unfolded step by step
(`Recursion`); from it follows what a filtered list contains and in what order.
The same holds over the subsets of a finite set (`SetInduction`, `SetRecursion`),
which is what a fold over a set is; and a set that grows in each of as many rounds
as it can have members is closed after the last (`RoundsClose`).

### Mempool and cluster graph

`MempoolSync_proofs`, for any transactions, requests, blocks and faults:

* `HandledTransactionsStayOut` (MinedStaysOut).  The list of the node's
  transactions is read before the tip, and the blocks are handled after both; a
  run adds what it read.  `RawIsUnhandled` says that the list has nothing of the
  blocks that are handled once it is used, because a block that comes later is
  handled in a later run, with a newer list; `SavedIsUnmined` says the same of
  the copy on disk, of the one that is being written and of files of two saves
  (`TornCopy`), but for the transactions `late` in it, which were listed before
  a block that the copy has.
* `SpendersStayInTheMempool` (SpendMapIsCurrent): what a run has fetched is in
  the mempool object until the spend map is told of it (`AddedIsCached`), and
  whatever leaves the mempool object is taken out of the map in the same step.
* `AddingTransactionFits`, `AddingDependencyFits`: adding a transaction or a
  dependency to a graph of any size keeps `RelativesFit`: parents are ancestors,
  descendants mirror ancestors, ancestors are transitive and acyclic, and every
  proper ancestor is reached through a parent.  `AddDependency` touches the
  descendants of the child only; transitivity is what makes that enough.  It
  assumes that the dependency closes no cycle, which callers ensure because a
  transaction spends earlier ones.

### Block templates

`Templates_proofs` is about the three parts of `Templates`.

The projected blocks, for any clusters, limits and number of blocks
(`BlocksInv`): heap and set-aside chunks are at every moment exactly those that
come next in their cluster (`Frontier`); what is set aside does not fit the block
being filled, and will not while it fills (`Aside`), because a block only grows:
the weight that is added is never above the weight that was compared.  So a block that
closes leaves nothing that fits, unless it gave up (`Tight`).  From it follow
`ChunksAreProjectedInOrder` (AncestorsFirst), `ProjectedBlocksFit`
(BlocksWithinLimits) and `ProjectedBlocksAreFull` (NoRoomWasted).

The search, for any cluster, any fees and weights and any of its random choices:

* `ActiveDependenciesAreInternal` (ActiveIsInternal).  In `ForestInv` the chunks
  part the cluster, and a dependency is active exactly when a chunk holds both
  ends.  This has a consequence for the code: when a cut separates the two ends
  of a dependency, no other dependency joins the two sides, because it would be
  active and the top set would have followed it.  So of the two branches
  at the end of splitAndMerge neither changes anything: the dependency that was
  cut always passes the test of the first, which then finds nothing to merge by,
  and the second (mergeUpwards, mergeDownwards) is never reached (`TopSets`,
  `ChunksCut`).  And every cut takes at least one dependency out of `active`.
* `SearchEnds` (SearchAdvances): in each phase a measure falls (`Left`): chunks
  still to merge and hints still to load, chunks waiting, active dependencies
  weighed against the queue, and in minimizeSFL also the entries that have a
  second try left.  The proof bounds what the queue may grow by at a cut by the
  dependency that the cut takes away.
* `OptimizationIsTopological` (OptimizesTopological).  `Restless` says of every
  two chunks that are out of order, while makeTopological runs, that one of them
  is still to be looked at in the direction from which the other is seen; a chunk
  that was never merged is looked at one way only, and that is enough because the
  first direction is the same for all.  It needs that a chunk with a neighbour out
  of order finds a candidate to merge with (`CandidatesFound`): of finitely many
  chunks one pays least, since feerates, compared by cross-multiplication over
  positive weights, are transitive (`RatesAreOrdered`).

What linearizeCluster makes of the search, in `Linearization_proofs`:

* `LinearizationIsOrdered` (LinearizationIsTopological), wherever the search is
  cut off.  `Acyclic` says that the chunks of the second and third phase do not
  depend on each other in a cycle.  It holds at first because the feerate falls
  along every dependency (`DescendingIsUnlooped`), and a cut keeps it: the top
  keeps no parent in the bottom, since such a dependency would be active and
  the top set would have followed it (`NothingCutAbove`, `CutStaysUnlooped`).  From
  there on two facts are passed from stage to stage: a list is an `Ordering` of
  a set (each member once, what it depends on before it), a list of chunks is
  `Grouped` (each an ordering of its own, none dependent on a later one).
  The heap of ready items takes everything, because what is left without a cycle
  always has something ready (`TakesAll`); chunkify joins neighbours only
  (`Chunkified`); in postLinearize a group changes places only with one it does
  not depend on, and the pass from the end does the same to the reversed list
  with children for parents (`Climbed`, `Reversed`); minimizeChunks splits a
  chunk along parts without a dependency between them (`PartsPartition`,
  `ChunkSplit`); and the canonical order follows the dependencies of the chunks
  (`Canonical`).
* `ChunksAreCanonical` (ChunksReproduce): the result, cut into chunks and put in
  canonical order again, is the same.  What chunkify makes of a list is
  determined by two properties (`ChunksTo`): no chunk pays more than an earlier
  one (`Falls`), and no front part of a chunk pays more than, or as much as, the
  rest of it (`Rises`).  chunkify makes such chunks (`ChunksOfOrdering`), where
  `PaysUnion` and `RisesJoined` say what joining two of them does to feerates:
  fees and weights are folds over sets, which add up over a partition (`SumsAdd`).
  A list has only one such cut: a place where a chunk ends in one cut is a place
  where one ends in any other (`SharedEnds`, `ChunksUnique`).  The canonical order
  keeps both properties (`CanonicalFalls`), so its result is cut where it was
  cut before, and taken again in the order in which it was taken
  (`GreedyRepeats`, `CanonicalStays`).  The theorem is under the hypothesis that
  the orders of the transactions of a cluster differ (`OrdersDiffer`): of chunks
  with the same feerate, weight and order the model takes either one, where the
  code, whose sorting is stable, keeps the one that was first.  The order is the
  number in the last four bytes of the txid, so it may be the same for two
  transactions, and this is no assumption of the model; the clusters of
  the run have different orders.

The pairing heap, for any nodes and any scores:

* `HeapIsAQueue` (HeapImplementsQueue), the refinement of `PriorityQueue`: each
  operation is one step of the queue.  `HeapInv` says that the nodes the heap
  holds make up one tree in heap order and that the others have no links.  What
  the code does on the way there leaves several trees, so the lemmas are about
  forests (`Trees`): a node that is not a top has exactly one link to it, which
  its `prev` undoes (`Bonds`); every node hangs below a top (`Reached`); and there
  are parents, the same for siblings, that no node beats (`Under`).  Melding makes
  one top of two (`MeldedTrees`), taking a top away makes tops of its children
  (`TopTaken`), unlinking makes a top of a node (`Unlinked`).  The two passes of
  mergePairs use `next` and `prev` of the tops as lists of what is to be merged;
  `Pairing` and `Combining` say what those lists hold after each round, and that
  they are used up after as many rounds as there are nodes (`PairsMerged`).
  increasePriority may leave a node where it is because its parent, which it
  finds by `prev` only for a first child, is not beaten (`RaisedTrees`).

### Assumptions

`Blockchain` says what a block tree is; null is no event, block, height,
transaction or file; `PoolTxs \subseteq Txs`.  `ServicesAssumption`: lifetimes
and intervals are whole numbers, those of the prices and days not zero, as in
the code; a feed names blocks; there are two files at least; the
transactions of the RBF cache are finitely many, and numbered as they arrive.
`SyncAssumption`: the transactions are finitely many.  `TemplatesAssumption`: a chunk's adjusted weight
is at least its weight (`adjustedVsize` is a maximum), limits are whole numbers,
and every chunk fits an empty block: the node accepts no cluster that large.  If
one did not fit, the code would leave it to the last block.  `ForestAssumption`: weights are
positive, fees whole numbers (accelerations may be any), orders natural numbers
(of 32 bits, in the code), no transaction spends itself, directly or through
others, and a hint lists transactions of the cluster.  `HeapAssumption`: the nodes
are finitely many, null is none of them, and scores are numbers.  TLC evaluates
each of them in the runs.  One theorem, `ChunksAreCanonical`, has a hypothesis
besides, `OrdersDiffer`.

### Model-checked only

* Liveness under fairness: BusSettles, StreamSettles, PrimaryReturns,
  PageRecovers.
* ClustersFollowTheCache, RelativesAreRight, TransactionsAreTold: what
  `BuildFromMempool` and `ApplyMempoolChange` compute goes through folds over the
  transactions of an update and the components of a graph.  That the reached,
  acyclic sets of `RelativesFit` are the least closure, and that
  `RemoveTransactions` recomputes it, needs induction over the graph.


## Not modelled

* Arithmetic of rings, difficulty, fees and projected blocks of Monero, and the
  parsers of feeds and fingerprints: pure functions of their inputs with unit
  tests.
* REST routes and server start-up: they shape requests and answers and keep no
  state beyond the caches modelled above.  The methods of `monero-api.ts` that
  are not modelled repeat the read-through of those that are.
* The upstream backend besides its mempool, clusters, templates and RBF cache:
  `websocket-handler.ts`, `database-migration.ts`, `repositories/`, `lightning/`,
  Liquid, statistics, routes, `rust/gbt`.  It is SQL, request shaping and
  payloads, or a second implementation of the templates, and the server of this
  explorer does not start it.  The same reason keeps the covered share of the
  tree low: most of its 100,000 lines are those, rendering, and text.
* The bulk reload of the mempool from esplora (`mempool.ts:172-206`), which may
  leave transactions that are gone until the next update; the second node's
  candidates; Redis, in the mempool's disk copy and in the RBF cache (a partial
  write there breaks the symmetry of the maps on load).
* A mempool change is told to clusters and spend map in one step of `Apply`; an
  exception of the WebSocket handler between the two (`websocket-handler.ts:685`)
  is not a step of the model.
* Rendering, and the frontend's services that keep no state shared with a socket.
* In modelled parts, what messages contain besides what is named above.
