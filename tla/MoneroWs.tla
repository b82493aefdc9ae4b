------------------------------ MODULE MoneroWs ------------------------------
(***************************************************************************)
(* backend/src/api/monero/monero-ws.ts on top of the tip feed: the block   *)
(* stream that dashboards receive.  'block' events become jobs of one      *)
(* promise chain; the snapshots a connection asks for are answered beside  *)
(* it.  A 'mempool-delta' job is only a delay of the jobs behind it.       *)
(*                                                                         *)
(* Left out, since no state here depends on them: the mempool, fee and     *)
(* price fields of the payloads, pings.  The tiles of projected blocks are *)
(* in ProjectedTile.                                                       *)
(***************************************************************************)
EXTENDS TipFeed

CONSTANTS
  Clients,       \* browsers; each has at most one socket at a time
  RecentBlocks,  \* RECENT_BLOCKS_TO_PUSH
  CachedHeights, \* bound: the heights whose cache entries are followed; the
                 \* others are read from the daemon each time
  SnapsFail      \* whether a request behind a snapshot may fail

ASSUME WsAssumption ==
  RecentBlocks \in Nat \ {0} /\ CachedHeights \subseteq Nat /\ SnapsFail \in BOOLEAN

VARIABLES
  open,                 \* clients whose socket is OPEN (wss.clients, connState)
  trackingTx,           \* connState's trackingTx
  broadcastQueue,       \* blocks whose jobs are chained; the head's is running or next
  job,                  \* what the running broadcastNewBlock awaits and has learnt
  lastBroadcastHeight,
  countCache,           \* MoneroApi's cached get_block_count, as the tip it was read from
  heightCache,          \* heightCache[h]: MoneroApi's cached get_block { height: h }
  snaps,                \* snaps[c]: snapshots and refreshes being built for c's socket:
                        \* None awaits the block count, a tip its last RecentBlocks blocks
  wire,                 \* wire[c]: messages written to c's socket and not yet read
  uplink                \* uplink[c]: messages c wrote and the server has not handled

apiVars == <<countCache, heightCache>>
queueVars == <<broadcastQueue, job, lastBroadcastHeight>>
wsVars == <<open, trackingTx, queueVars, apiVars, snaps, wire, uplink>>

Idle == [at |-> "idle", mined |-> {}]
-----------------------------------------------------------------------------
(* attach(): each bus event is chained behind the earlier ones. *)

Emit ==
  /\ FeedStep
  /\ broadcastQueue' = IF lastTipHash \notin {None, lastTipHash'}
                       THEN Append(broadcastQueue, lastTipHash') ELSE broadcastQueue
  /\ UNCHANGED <<open, trackingTx, job, lastBroadcastHeight, apiVars, snaps, wire, uplink>>

-----------------------------------------------------------------------------
(* MoneroApi's cache: a value is served until it expires, whatever the      *)
(* daemon has moved to meanwhile.  REST requests fill it as snapshots do.   *)

CachedCount(b) == IF countCache = None THEN \E d \in Daemons : b = tip[d] ELSE b = countCache

CachedBlock(h, b) ==
  IF h \in CachedHeights /\ heightCache[h] # None
  THEN b = heightCache[h]
  ELSE \E d \in Daemons : h <= Height(tip[d]) /\ b = BlockAt(tip[d], h)

CountExpires ==
  /\ countCache # None
  /\ countCache' = None
  /\ UNCHANGED heightCache

HeightExpires(h) ==
  /\ heightCache[h] # None
  /\ heightCache' = [heightCache EXCEPT ![h] = None]
  /\ UNCHANGED countCache

RestCount ==
  /\ \E b \in Blocks : CachedCount(b) /\ countCache' = b
  /\ UNCHANGED heightCache

RestBlock(h) ==
  /\ \E b \in Blocks : CachedBlock(h, b) /\ heightCache' = [heightCache EXCEPT ![h] = b]
  /\ UNCHANGED countCache

ApiStep ==
  /\ \/ CountExpires
     \/ RestCount
     \/ \E h \in CachedHeights : HeightExpires(h) \/ RestBlock(h)
  /\ UNCHANGED <<feedVars, open, trackingTx, queueVars, snaps, wire, uplink>>

-----------------------------------------------------------------------------
(* handleConnection() *)

Write(c, m) == wire' = [wire EXCEPT ![c] = Append(@, m)]

(* The socket opens: fresh state, and a snapshot nobody asked for.  What the *)
(* client writes on it is the client's part of the step.                     *)
Connection(c) ==
  /\ c \notin open
  /\ open' = open \cup {c}
  /\ trackingTx' = [trackingTx EXCEPT ![c] = None]
  /\ snaps' = [snaps EXCEPT ![c] = <<None>>]
  /\ UNCHANGED <<feedVars, queueVars, apiVars, wire>>

(* The socket closes: what is in flight on it is lost, and what is being   *)
(* built for it is dropped by safeSend.                                     *)
Cleanup(c) ==
  /\ c \in open
  /\ open' = open \ {c}
  /\ trackingTx' = [trackingTx EXCEPT ![c] = None]
  /\ snaps' = [snaps EXCEPT ![c] = <<>>]
  /\ wire' = [wire EXCEPT ![c] = <<>>]
  /\ UNCHANGED <<feedVars, queueVars, apiVars>>

Message(c) ==
  /\ c \in open
  /\ uplink[c] # <<>>
  /\ LET m == Head(uplink[c]) IN
       \/ /\ m.type \in {"init", "refresh-blocks"}
          /\ snaps' = [snaps EXCEPT ![c] = Append(@, None)]
          /\ UNCHANGED trackingTx
       \/ /\ m.type = "track-tx"
          /\ trackingTx' = [trackingTx EXCEPT ![c] = m.tx]
          /\ UNCHANGED snaps
  /\ uplink' = [uplink EXCEPT ![c] = Tail(@)]
  /\ UNCHANGED <<feedVars, open, queueVars, apiVars, wire>>

-----------------------------------------------------------------------------
(* recentBlocks() and sendSnapshot(): outside the promise chain, so the     *)
(* snapshots of one connection overlap each other and the broadcasts.       *)

DropAt(s, i) == SubSeq(s, 1, i - 1) \o SubSeq(s, i + 1, Len(s))

SnapCount(c, i) ==
  /\ snaps[c][i] = None
  /\ \E b \in Blocks :
       /\ CachedCount(b)
       /\ countCache' = b
       /\ snaps' = [snaps EXCEPT ![c][i] = b]
  /\ UNCHANGED <<heightCache, wire>>

(* The first of the last RecentBlocks heights below the count. *)
FirstHeight(b) == IF Height(b) < RecentBlocks THEN 0 ELSE Height(b) - RecentBlocks + 1

SnapSend(c, i) ==
  /\ snaps[c][i] # None
  /\ LET lo == FirstHeight(snaps[c][i])
         hi == Height(snaps[c][i])
     IN \E at \in [lo..hi -> Blocks] :
          /\ \A h \in lo..hi : CachedBlock(h, at[h])
          /\ heightCache' = [h \in CachedHeights |-> IF h \in lo..hi THEN at[h] ELSE heightCache[h]]
          /\ Write(c, [type |-> "blocks", blocks |-> [k \in 1..(hi - lo + 1) |-> at[lo + k - 1]]])
  /\ snaps' = [snaps EXCEPT ![c] = DropAt(@, i)]
  /\ UNCHANGED countCache

(* Any of the requests fails: catch(() => {}), nothing is sent. *)
SnapFails(c, i) ==
  /\ SnapsFail
  /\ snaps' = [snaps EXCEPT ![c] = DropAt(@, i)]
  /\ UNCHANGED <<apiVars, wire>>

SnapProgress(c) ==
  /\ \E i \in DOMAIN snaps[c] : SnapCount(c, i) \/ SnapSend(c, i)
  /\ UNCHANGED <<feedVars, open, trackingTx, queueVars, uplink>>

SnapStep(c) ==
  \/ SnapProgress(c)
  \/ /\ \E i \in DOMAIN snaps[c] : SnapFails(c, i)
     /\ UNCHANGED <<feedVars, open, trackingTx, queueVars, uplink>>

-----------------------------------------------------------------------------
(* The jobs of the promise chain *)

NextJob == broadcastQueue' = Tail(broadcastQueue)

BroadcastDrops_Hangs ==  \* a bug: the early return leaves the chain's promise pending
  /\ broadcastQueue # <<>> /\ job = Idle
  /\ \/ open = {}
     \/ Height(Head(broadcastQueue)) <= lastBroadcastHeight
  /\ UNCHANGED <<broadcastQueue, job, lastBroadcastHeight, trackingTx, wire>>

(* broadcastNewBlock() returns at once: nobody listens, or the height is not new. *)
BroadcastDrops ==
  /\ broadcastQueue # <<>> /\ job = Idle
  /\ \/ open = {}
     \/ Height(Head(broadcastQueue)) <= lastBroadcastHeight
  /\ NextJob
  /\ UNCHANGED <<job, lastBroadcastHeight, trackingTx, wire>>

BroadcastStarts_Unguarded ==  \* a bug: the comparison with lastBroadcastHeight is missing
  /\ broadcastQueue # <<>> /\ job = Idle
  /\ open # {}
  /\ job' = [Idle EXCEPT !.at = "block"]
  /\ UNCHANGED <<broadcastQueue, lastBroadcastHeight, trackingTx, wire>>

BroadcastStarts ==
  /\ broadcastQueue # <<>> /\ job = Idle
  /\ open # {}
  /\ Height(Head(broadcastQueue)) > lastBroadcastHeight
  /\ job' = [Idle EXCEPT !.at = "block"]
  /\ UNCHANGED <<broadcastQueue, lastBroadcastHeight, trackingTx, wire>>

(* The full block arrives with its tx_hashes, or not (catch(() => null)).   *)
BlockFetched(mined) ==
  /\ job.at = "block"
  /\ mined \in {TxsOf[Head(broadcastQueue)], {}}
  /\ lastBroadcastHeight' = Height(Head(broadcastQueue))
  /\ job' = [at |-> "pool", mined |-> mined]
  /\ UNCHANGED <<broadcastQueue, trackingTx, wire>>

(* broadcastBlock(): every open socket, with txConfirmed where it is due.   *)
(* The cache entries of the two previous heights, read for the difficulty   *)
(* field before, come and go as RestBlock says.                             *)
BroadcastBlock ==
  LET block == Head(broadcastQueue)
      due == {c \in open : trackingTx[c] # None /\ trackingTx[c] \in job.mined}
  IN
  /\ job.at = "pool"
  /\ wire' = [c \in Clients |->
       IF c \in open
       THEN Append(wire[c], [type |-> "block", block |-> block,
                             txConfirmed |-> IF c \in due THEN trackingTx[c] ELSE None])
       ELSE wire[c]]
  /\ trackingTx' = [c \in Clients |-> IF c \in due THEN None ELSE trackingTx[c]]
  /\ job' = Idle
  /\ NextJob
  /\ UNCHANGED lastBroadcastHeight

QueueStep ==
  /\ \/ BroadcastDrops
     \/ BroadcastStarts
     \/ \E mined \in SUBSET Txs : BlockFetched(mined)
     \/ BroadcastBlock
  /\ UNCHANGED <<feedVars, open, apiVars, snaps, uplink>>

WsInit ==
  /\ open = {}
  /\ trackingTx = [c \in Clients |-> None]
  /\ broadcastQueue = <<>>
  /\ job = Idle
  /\ lastBroadcastHeight = -1
  /\ countCache = None
  /\ heightCache = [h \in CachedHeights |-> None]
  /\ snaps = [c \in Clients |-> <<>>]
  /\ wire = [c \in Clients |-> <<>>]
=============================================================================
