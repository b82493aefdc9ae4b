----------------------------- MODULE MempoolSync -----------------------------
(***************************************************************************)
(* The main loop of the upstream backend around its mempool: the raw       *)
(* mempool of the node is read, new blocks are handled (blocks.ts), and    *)
(* when there was none the mempool object is brought up to date            *)
(* (api/mempool.ts), with the clusters (ClusterMempool) and the spend map. *)
(* The node moves between any two awaits of the loop.                      *)
(*                                                                         *)
(* The disk copy is 25 files.  A save lists the transactions first, waits  *)
(* for $updateBlocks, takes the blocks then, and renames the files one by  *)
(* one beside the rest of the program.  A restart loads some of the        *)
(* transactions, in any order: the remainder of the division into 25 files *)
(* is not written, the files are shuffled, and one that cannot be read is  *)
(* skipped.                                                                *)
(*                                                                         *)
(* A fetch may be answered in part; a run that stops after five seconds is *)
(* one where the other fetches are not answered.                           *)
(***************************************************************************)
EXTENDS ClusterMempool

CONSTANTS Start,          \* mempools that the node may have at first
          Coins,          \* outputs that are confirmed from the start
          Boostable,      \* transactions that may be accelerated
          ProtectAbove,   \* size of the mempool that its clear protection asks for
          Slice,          \* BATCH_QUERY_BASE_SIZE
          SaveEvery,      \* DISK_CACHE_BLOCK_INTERVAL
          MaxMoves,       \* bound: moves of the node
          MaxFaults       \* bound: restarts and runs that throw

VARIABLES pool, chain,    \* the node: its mempool, the transactions of each block
          boosted,        \* the accelerations of the service
          moves, faults,  \* counted for the bounds
          pc,             \* where the main loop is: idle, raw, blocks, fetch
          raw, latest,    \* what this run has read: raw mempool, accelerations
          tip, handled,   \* and the height; whether it has handled a block
          todo, added,    \* remainingTxids, newTransactions
          size,           \* currentMempoolSize
          seen,           \* number of blocks handled
          cache,          \* mempoolCache
          cm,             \* clusterMempool
          spendMap,
          protection,     \* mempoolProtection
          disk,           \* the files of the copy: transactions, blocks
          save,           \* $saveCacheToDisk: where it is, what it writes
          untold,         \* history: in the cache, but its run has thrown
          unlinked,       \* history: spends the clusters could not see
          restored        \* history: what a copy older than its blocks put back

nodeVars == <<pool, chain, boosted>>
loopVars == <<pc, raw, latest, tip, handled, todo, added, size>>
vars == <<nodeVars, moves, faults, loopVars, seen, cache, cm, spendMap, protection, disk, save,
          untold, unlinked, restored>>

TxSet == DOMAIN Inputs
MinedBy(n) == UNION {chain[i] : i \in 1..n}
Mined == MinedBy(Len(chain))
Conflicts(t) == {u \in TxSet \ {t} : Inputs[t] \cap Inputs[u] # {}}
Below(S, T) == FoldSet(LAMBDA i, A : A \cup {u \in T : \E o \in Inputs[u] : o[1] \in A}, S, 1..Cardinality(T))

ASSUME SyncAssumption == IsFiniteSet(TxSet) /\ Start \subseteq SUBSET TxSet

NoDisk == [txs |-> {}, seen |-> 0, late |-> {}]
NoSave == [step |-> "none", txs |-> {}, seen |-> 0, late |-> {}]

Init ==
  /\ pool \in Start /\ chain = <<>> /\ boosted = {}
  /\ moves = 0 /\ faults = 0
  /\ pc = "idle" /\ raw = {} /\ latest = {} /\ tip = 0 /\ handled = FALSE
  /\ todo = {} /\ added = <<>> /\ size = 0
  /\ seen = 0 /\ cache = {} /\ cm = NoClusters({}) /\ spendMap = <<>>
  /\ protection = 0 /\ disk = NoDisk /\ save = NoSave
  /\ untold = {} /\ unlinked = {} /\ restored = {}

-----------------------------------------------------------------------------
(* The node (external). *)
NodeMoves ==
  /\ moves < MaxMoves
  /\ moves' = moves + 1
  /\ UNCHANGED <<faults, loopVars, seen, cache, cm, spendMap, protection, disk, save, untold, unlinked, restored>>

Arrive(t) ==
  /\ t \notin pool \cup Mined
  /\ \A o \in Inputs[t] : o \in Coins \/ o[1] \in pool \cup Mined
  /\ Conflicts(t) \cap Mined = {}
  /\ pool' = (pool \ Below(Conflicts(t) \cap pool, pool)) \cup {t}
  /\ UNCHANGED <<chain, boosted>>
  /\ NodeMoves
Evict(t) ==
  /\ t \in pool
  /\ pool' = pool \ Below({t}, pool)
  /\ UNCHANGED <<chain, boosted>>
  /\ NodeMoves
MineBlock(S) ==
  /\ S # {}
  /\ S \subseteq pool
  /\ \A t \in S : \A o \in Inputs[t] : o[1] \in pool => o[1] \in S
  /\ chain' = Append(chain, S)
  /\ pool' = pool \ S
  /\ UNCHANGED boosted
  /\ NodeMoves
Boosts(t) ==
  /\ t \in Boostable
  /\ boosted' = (boosted \ {t}) \cup ({t} \ boosted)
  /\ UNCHANGED <<pool, chain>>
  /\ NodeMoves

-----------------------------------------------------------------------------
(* runMainUpdateLoop: the raw mempool is read before the height. *)
Idle ==
  /\ pc' = "idle" /\ raw' = {} /\ latest' = {} /\ tip' = 0 /\ handled' = FALSE
  /\ todo' = {} /\ added' = <<>> /\ size' = 0
ReadRaw ==
  /\ pc = "idle"
  /\ raw' = pool
  /\ latest' = boosted
  /\ pc' = "raw"
  /\ UNCHANGED <<nodeVars, moves, faults, tip, handled, todo, added, size, seen, cache, cm, spendMap,
                 protection, disk, save, untold, unlinked, restored>>
ReadTip ==
  /\ pc = "raw"
  /\ tip' = Len(chain)
  /\ handled' = FALSE
  /\ pc' = "blocks"
  /\ UNCHANGED <<nodeVars, moves, faults, raw, latest, todo, added, size, seen, cache, cm, spendMap,
                 protection, disk, save, untold, unlinked, restored>>

Forget_Never(map, S) == map
(* removeFromSpendMap, findMinedRbfTransactions, addToSpendMap. *)
Forget(map, S) == Without(map, {o \in DOMAIN map : map[o] \in S})
MinedRbf(map, S) ==
  LET spent == UNION {Inputs[t] : t \in S}
      replaced == {map[o] : o \in spent \cap DOMAIN map} \ S
  IN Without(map, spent \cup UNION {Inputs[t] : t \in replaced})
(* A later transaction takes the place of an earlier one. *)
Learn(map, txs) ==
  LET spent == UNION {Inputs[txs[i]] : i \in DOMAIN txs}
  IN [o \in DOMAIN map \cup spent |-> IF o \in spent THEN LastSpender(txs, o) ELSE map[o]]

(* One pass of the loop of $updateBlocks, with
   $applyBlockTransactionsToMempool: the clusters first, then the cache.  A
   save lists the transactions, unless one is under way. *)
HandleBlock ==
  /\ pc = "blocks"
  /\ seen < tip
  /\ LET mined == chain[seen + 1]
     IN /\ spendMap' = Forget(MinedRbf(spendMap, mined), mined)
        /\ cm' = ApplyMempoolChange(cm, cache, <<>>, mined, cm.accelerated)
        /\ cache' = cache \ mined
        /\ untold' = untold \ mined
        /\ unlinked' = {s \in unlinked : s[2] \notin mined}
  /\ seen' = seen + 1
  /\ handled' = TRUE
  /\ save' = IF save.step = "none" /\ seen' % SaveEvery = 0
             THEN [step |-> "listed", txs |-> cache', seen |-> seen', late |-> restored]
             ELSE save
  /\ UNCHANGED <<nodeVars, moves, faults, pc, raw, latest, tip, todo, added, size, protection, disk, restored>>

(* The end of $updateBlocks wakes the save, which takes the blocks of now. *)
Between(m, n) == UNION {chain[i] : i \in (m + 1)..n}
Unlocked ==
  IF save.step = "listed"
  THEN [save EXCEPT !.step = "writing", !.seen = seen, !.late = @ \cup Between(save.seen, seen)]
  ELSE save

StartUpdate_Always ==
  /\ pc = "blocks"
  /\ seen >= tip
  /\ save' = Unlocked
  /\ pc' = "fetch"
  /\ todo' = raw \ cache
  /\ size' = Cardinality(cache)
  /\ UNCHANGED <<raw, latest, tip, handled, added>>
  /\ UNCHANGED <<nodeVars, moves, faults, seen, cache, cm, spendMap,
                 protection, disk, untold, unlinked, restored>>
(* The mempool is updated only by a run that has handled no block. *)
StartUpdate ==
  /\ pc = "blocks"
  /\ seen >= tip
  /\ save' = Unlocked
  /\ IF handled
     THEN Idle
     ELSE /\ pc' = "fetch"
          /\ todo' = raw \ cache
          /\ size' = Cardinality(cache)
          /\ UNCHANGED <<raw, latest, tip, handled, added>>
  /\ UNCHANGED <<nodeVars, moves, faults, seen, cache, cm, spendMap,
                 protection, disk, untold, unlinked, restored>>

(* One request for at most Slice transactions, answered in part: the node
   still knows a transaction that is mined meanwhile. *)
Answers == UNION {SetToSeqs(S) : S \in SUBSET todo}
FetchSlice(got) ==
  /\ pc = "fetch"
  /\ todo # {}
  /\ \E asked \in SUBSET todo :
       /\ Cardinality(asked) = IF Cardinality(todo) < Slice THEN Cardinality(todo) ELSE Slice
       /\ ToSet(got) \subseteq asked \cap (pool \cup Mined)
       /\ todo' = todo \ asked
  /\ cache' = cache \cup ToSet(got)
  /\ added' = added \o got
  /\ UNCHANGED <<nodeVars, moves, faults, pc, raw, latest, tip, handled, size, seen, cm, spendMap,
                 protection, disk, save, untold, unlinked, restored>>

(* The rest of $updateMempool, and $handleMempoolChange. *)
Protects == protection = 0 /\ size > ProtectAbove /\ 10 * Cardinality(raw) <= 8 * size
Deleted == IF Protects \/ protection = 1 THEN {} ELSE cache \ raw
(* Spends of the cache that another spend of the output hides from spentBy,
   before the transaction of the output has come. *)
Superseded ==
  LET hides(o) == \E i \in DOMAIN added :
        /\ o \in Inputs[added[i]]
        /\ o[1] \notin Clustered(cm) \cup ToSet(SubSeq(added, 1, i - 1))
  IN UNION {{<<o, u>> : o \in {x \in Inputs[u] : hides(x)}} : u \in cache' \ ToSet(added)}
Apply ==
  /\ pc = "fetch"
  /\ todo = {}
  /\ protection' = IF Protects \/ protection = 1 THEN 1 ELSE 0
  /\ cache' = cache \ Deleted
  /\ restored' = IF Protects \/ protection = 1 THEN restored ELSE {}
  /\ IF added # <<>> \/ Deleted # {} \/ latest # cm.accelerated
     THEN /\ cm' = ApplyMempoolChange(cm, cache', added, Deleted, latest)
          /\ spendMap' = Learn(Forget(spendMap, Deleted), added)
          /\ untold' = untold \ Deleted
          /\ unlinked' = {s \in unlinked : s[2] \notin Deleted \cup ToSet(added)} \cup Superseded
     ELSE UNCHANGED <<cm, spendMap, untold, unlinked>>
  /\ Idle
  /\ UNCHANGED <<nodeVars, moves, faults, seen, disk, save>>

ProtectionEnds ==
  /\ protection = 1
  /\ protection' = 2
  /\ UNCHANGED <<nodeVars, moves, faults, loopVars, seen, cache, cm, spendMap, disk, save, untold, unlinked, restored>>

-----------------------------------------------------------------------------
(* With esplora a request for many transactions may throw; the transactions
   of the requests before it stay in the cache. *)
Throws ==
  /\ pc = "fetch"
  /\ todo # {}
  /\ faults < MaxFaults
  /\ faults' = faults + 1
  /\ untold' = untold \cup ToSet(added)
  /\ Idle
  /\ UNCHANGED <<nodeVars, moves, seen, cache, cm, spendMap, protection,
                 disk, save, unlinked, restored>>

(* The rest of $saveCacheToDisk: the temporary files are renamed one by one,
   the first has the blocks.  late are the transactions of a copy whose block
   may be among its blocks: they were listed before it was handled.  The save
   of the RBF trees that follows changes nothing here. *)
Torn(s) == [txs |-> s.txs \cup disk.txs, seen |-> s.seen,
            late |-> s.late \cup disk.late \cup Between(disk.seen, s.seen)]
RenamesFirst ==
  /\ save.step = "writing"
  /\ disk' = Torn(save)
  /\ save' = [save EXCEPT !.step = "renaming"]
  /\ UNCHANGED <<nodeVars, moves, faults, loopVars, seen, cache, cm, spendMap, protection,
                 untold, unlinked, restored>>
RenamesLast ==
  /\ save.step = "renaming"
  /\ disk' = [txs |-> save.txs, seen |-> save.seen, late |-> save.late]
  /\ save' = NoSave
  /\ UNCHANGED <<nodeVars, moves, faults, loopVars, seen, cache, cm, spendMap, protection,
                 untold, unlinked, restored>>
(* The disk is full: what is renamed stays. *)
SaveFails ==
  /\ save.step \in {"writing", "renaming"}
  /\ save' = NoSave
  /\ UNCHANGED <<nodeVars, moves, faults, loopVars, seen, cache, cm, spendMap, protection,
                 disk, untold, unlinked, restored>>

-----------------------------------------------------------------------------
(* The process dies, or is told to stop and saves its cache unless a save is
   under way, and may be killed between the files; then $loadMempoolCache and
   $setMempool.  Stopping before the raw mempool is read, or in a fetch, stands
   for stopping elsewhere. *)
Saves ==
  LET now == [txs |-> cache, seen |-> seen, late |-> restored]
  IN {disk} \cup (IF save.step = "none" THEN {now, Torn(now)} ELSE {})

(* The files are shuffled.  The order matters only where two transactions
   spend one output. *)
Orders(S) == IF \E t \in S : Conflicts(t) \cap S # {} THEN SetToSeqs(S) ELSE {SetToSeq(S)}

(* Spends that BuildFromMempool does not see: the output is not loaded, or
   another transaction that spends it has left this one in another cluster. *)
Missed(loaded, clusterOf) ==
  LET spends == {s \in (UNION {Inputs[t] : t \in loaded}) \X loaded : s[1] \in Inputs[s[2]]}
  IN {s \in spends : \/ s[1][1] \notin loaded
                     \/ /\ \E u \in loaded \ {s[2]} : s[1] \in Inputs[u]
                        /\ clusterOf[s[1][1]] # clusterOf[s[2]]}

Restart(saved, order) ==
  LET loaded == ToSet(order)
  IN /\ pc \in {"idle", "fetch"}
     /\ faults < MaxFaults
     /\ faults' = faults + 1
     /\ disk' = [saved EXCEPT !.txs = loaded]
     /\ save' = NoSave
     /\ cache' = loaded
     /\ seen' = saved.seen
     /\ cm' = BuildFromMempool(order, {})
     /\ spendMap' = Learn(<<>>, order)
     /\ protection' = 0
     /\ untold' = {}
     /\ unlinked' = Missed(loaded, cm'.txToCluster)
     /\ restored' = loaded \cap saved.late
     /\ Idle
     /\ UNCHANGED <<nodeVars, moves>>

Node == \/ \E t \in TxSet : Arrive(t) \/ Evict(t) \/ Boosts(t)
        \/ \E S \in SUBSET pool : MineBlock(S)
Loop == \/ ReadRaw \/ ReadTip \/ HandleBlock \/ StartUpdate \/ Apply
        \/ \E got \in Answers : FetchSlice(got)
Saving == RenamesFirst \/ RenamesLast \/ SaveFails
Next == \/ Node \/ Loop \/ ProtectionEnds \/ Throws \/ Saving
        \/ \E saved \in Saves : \E S \in SUBSET saved.txs : \E order \in Orders(S) : Restart(saved, order)

Spec == Init /\ [][Next]_vars

-----------------------------------------------------------------------------
(* The transactions the clusters have been given, and the spends they know. *)
Told == cache \ (ToSet(added) \cup untold)
Spends(child, parent) == \E o \in Inputs[child] : o[1] = parent /\ <<o, child>> \notin unlinked
Connected(S, t) ==
  FoldSet(LAMBDA i, A : A \cup {u \in S : \E v \in A : Spends(u, v) \/ Spends(v, u)}, {t}, 1..Cardinality(S))
AncestorsIn(S, t) ==
  FoldSet(LAMBDA i, A : A \cup {u \in S : \E v \in A : Spends(v, u)}, {t}, 1..Cardinality(S))

(* The clusters are the connected components of the mempool object, after
   any sequence of updates, blocks, failures and restarts: each transaction is
   in one cluster and txToCluster names it.  What the code misses is in the
   history variables: the transactions of a run that threw, spends whose
   output was not known when they came, and spends that another spend of the
   same output hid when the clusters were built, which stay lost when it goes. *)
ClustersFollowTheCache ==
  /\ Clustered(cm) = Told
  /\ ClusterSets(cm) = {Connected(Told, t) : t \in Told}
  /\ \A t \in Told : t \in TxsOf(cm.clusters[cm.txToCluster[t]].graph)

(* Ancestors, descendants and effective fees, which are maintained by
   increments, are what a computation from the spends would give. *)
RelativesAreRight ==
  \A id \in DOMAIN cm.clusters :
    LET g == cm.clusters[id].graph
    IN \A t \in TxsOf(g) :
         /\ g.ancestors[t] = AncestorsIn(Told, t)
         /\ g.descendants[t] = {u \in TxsOf(g) : t \in AncestorsIn(Told, u)}
         /\ g.fee[t] = EffectiveFee(cm, t)

(* What a transaction was last told of its cluster still holds: its cluster,
   its chunk, the chunk's feerate and its ancestors there. *)
TransactionsAreTold ==
  \A t \in Told :
    LET id == cm.txToCluster[t]
        chunk == ToSet(cm.clusters[id].chunks[cm.written[t].chunk])
        g == cm.clusters[id].graph
    IN /\ cm.written[t].cluster = id
       /\ t \in chunk
       /\ cm.written[t].rate = <<FeeOf(g, chunk), WeightOf(chunk)>>
       /\ cm.written[t].ancestors = (AncestorsIn(Told, t) \cap chunk) \ {t}

(* The spend map never names a transaction that has left the mempool. *)
SpendMapIsCurrent ==
  \A o \in DOMAIN spendMap : spendMap[o] \in cache /\ o \in Inputs[spendMap[o]]

(* Once its block is handled a transaction does not come back to the mempool
   object, although the raw mempool of the run may still list it: only a copy
   brings it back whose transactions were listed before blocks that it has too
   (disk-cache.ts:54 and 91, or files of two saves), and the next update that
   may delete anything takes it out again. *)
MinedStaysOut == cache \cap MinedBy(seen) \subseteq restored
=============================================================================
