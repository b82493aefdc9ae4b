--------------------------- MODULE MoneroEventBus ---------------------------
(***************************************************************************)
(* backend/src/api/monero/monero-event-bus.ts: the poller that turns the   *)
(* daemon's get_info and get_transaction_pool into 'block' and             *)
(* 'mempool-delta' events.  Every await of poll() ends a step, so daemons  *)
(* move, fail and disagree between the steps of one poll.                  *)
(*                                                                         *)
(* The daemons are the environment.  With a fallback configured,           *)
(* MoneroRpcPool may answer each request from another daemon, so every     *)
(* request is answered by some member of Daemons.                          *)
(***************************************************************************)
EXTENDS Blockchain

CONSTANTS
  Daemons,  \* daemons behind the RPC pool
  Polls,    \* activations of poll(): timer ticks that may overlap
  PoolTxs   \* bound: the transactions that come and go in the daemons' pools

ASSUME PoolTxsAssumption == PoolTxs \subseteq Txs

VARIABLES
  tip,                \* tip[d]: top_block_hash of daemon d
  mempool,            \* mempool[d]: id_hash of the transactions in d's pool
  pc,                 \* pc[p]: the request poll p awaits, or "idle"
  info,               \* info[p]: the top_block_hash poll p holds across an await
  inflight,
  latestInfo,
  lastTipHash,        \* lastHeight is set with it and, like it, only tested for null
  lastMempoolHashes,
  event               \* what the last step of the bus emitted, None if nothing

daemonVars == <<tip, mempool>>
busVars == <<pc, info, inflight, latestInfo, lastTipHash, lastMempoolHashes, event>>

BlockEvent == [type : {"block"}, block : Blocks]
DeltaEvent == [type : {"mempool-delta"}, added : SUBSET Txs, removed : SUBSET Txs]
Event == BlockEvent \cup DeltaEvent

ASSUME NoneIsNoEvent == None \notin Event

(* Types of the daemons' and the bus's state. *)
BusTypeOK ==
  /\ tip \in [Daemons -> Blocks]
  /\ mempool \in [Daemons -> SUBSET Txs]
  /\ pc \in [Polls -> {"idle", "info", "header", "pool"}]
  /\ info \in [Polls -> Optional(Blocks)]
  /\ inflight \in BOOLEAN
  /\ latestInfo \in Optional(Blocks)
  /\ lastTipHash \in Optional(Blocks)
  /\ lastMempoolHashes \in SUBSET Txs
  /\ event \in Optional(Event)

-----------------------------------------------------------------------------
(* The daemons *)

(* The tip seen by the poll that is fetching its header, if one is. *)
pending == IF \E p \in Polls : pc[p] = "header"
           THEN info[CHOOSE p \in Polls : pc[p] = "header"]
           ELSE None

Feed == INSTANCE TipFeed WITH pending <- pending

DaemonInit ==
  /\ tip \in [Daemons -> Blocks]
  /\ mempool = [d \in Daemons |-> {}]

TipMoves(d, b) ==
  /\ Feed!TipMoves(d, b)
  /\ UNCHANGED mempool

PoolMoves(d, S) ==
  /\ S # mempool[d]
  /\ mempool' = [mempool EXCEPT ![d] = S]
  /\ UNCHANGED tip

-----------------------------------------------------------------------------
(* poll() *)

BusInit ==
  /\ pc = [p \in Polls |-> "idle"]
  /\ info = [p \in Polls |-> None]
  /\ inflight = FALSE
  /\ latestInfo = None
  /\ lastTipHash = None
  /\ lastMempoolHashes = {}
  /\ event = None

Await(p, request) == pc' = [pc EXCEPT ![p] = request]

PollStarts_Unguarded(p) ==  \* a bug: the inflight test is missing
  /\ pc[p] = "idle"
  /\ inflight' = TRUE
  /\ Await(p, "info")
  /\ event' = None
  /\ UNCHANGED <<info, latestInfo, lastTipHash, lastMempoolHashes>>

PollStarts(p) ==
  /\ ~inflight
  /\ pc[p] = "idle"
  /\ inflight' = TRUE
  /\ Await(p, "info")
  /\ event' = None
  /\ UNCHANGED <<info, latestInfo, lastTipHash, lastMempoolHashes>>

(* The first answer is recorded without an event. *)
FirstInfo(p, d) ==
  /\ pc[p] = "info" /\ lastTipHash = None
  /\ latestInfo' = tip[d]
  /\ lastTipHash' = tip[d]
  /\ Await(p, "pool")
  /\ event' = None
  /\ UNCHANGED <<info, inflight, lastMempoolHashes>>

SameTipInfo(p, d) ==
  /\ pc[p] = "info" /\ lastTipHash = tip[d]
  /\ latestInfo' = tip[d]
  /\ Await(p, "pool")
  /\ event' = None
  /\ UNCHANGED <<info, inflight, lastTipHash, lastMempoolHashes>>

NewTipInfo_LosesHash(p, d) ==  \* a bug: the hash is not kept for the header request
  /\ pc[p] = "info" /\ lastTipHash \notin {None, tip[d]}
  /\ latestInfo' = tip[d]
  /\ Await(p, "header")
  /\ event' = None
  /\ UNCHANGED <<info, inflight, lastTipHash, lastMempoolHashes>>

NewTipInfo(p, d) ==
  /\ pc[p] = "info" /\ lastTipHash \notin {None, tip[d]}
  /\ latestInfo' = tip[d]
  /\ info' = [info EXCEPT ![p] = tip[d]]
  /\ Await(p, "header")
  /\ event' = None
  /\ UNCHANGED <<inflight, lastTipHash, lastMempoolHashes>>

HeaderAnswered(p) ==
  /\ pc[p] = "header"
  /\ lastTipHash' = info[p]
  /\ event' = [type |-> "block", block |-> info[p]]
  /\ info' = [info EXCEPT ![p] = None]
  /\ Await(p, "pool")
  /\ UNCHANGED <<inflight, latestInfo, lastMempoolHashes>>

HeaderFails_TakesTip(p) ==  \* a bug: lastTipHash is assigned before the header arrives
  /\ pc[p] = "header"
  /\ lastTipHash' = info[p]
  /\ event' = None
  /\ info' = [info EXCEPT ![p] = None]
  /\ Await(p, "pool")
  /\ UNCHANGED <<inflight, latestInfo, lastMempoolHashes>>

(* The inner catch: the tip is kept, the next poll sees the change again. *)
HeaderFails(p) ==
  /\ pc[p] = "header"
  /\ event' = None
  /\ info' = [info EXCEPT ![p] = None]
  /\ Await(p, "pool")
  /\ UNCHANGED <<inflight, latestInfo, lastTipHash, lastMempoolHashes>>

PoolAnswered(p, d) ==
  LET added == mempool[d] \ lastMempoolHashes
      removed == lastMempoolHashes \ mempool[d]
  IN
  /\ pc[p] = "pool"
  /\ lastMempoolHashes' = mempool[d]
  /\ event' = IF added \cup removed = {} THEN None
              ELSE [type |-> "mempool-delta", added |-> added, removed |-> removed]
  /\ inflight' = FALSE
  /\ Await(p, "idle")
  /\ UNCHANGED <<info, latestInfo, lastTipHash>>

PollFails_KeepsInflight(p) ==  \* a bug: finally is missing, an error leaves inflight set
  /\ pc[p] \in {"info", "pool"}
  /\ Await(p, "idle")
  /\ event' = None
  /\ UNCHANGED <<info, inflight, latestInfo, lastTipHash, lastMempoolHashes>>

(* The outer catch, and finally. *)
PollFails(p) ==
  /\ pc[p] \in {"info", "pool"}
  /\ inflight' = FALSE
  /\ Await(p, "idle")
  /\ event' = None
  /\ UNCHANGED <<info, latestInfo, lastTipHash, lastMempoolHashes>>

InfoAnswered(p) ==
  \E d \in Daemons : FirstInfo(p, d) \/ SameTipInfo(p, d) \/ NewTipInfo(p, d)

PollStep(p) ==
  \/ PollStarts(p)
  \/ InfoAnswered(p)
  \/ HeaderAnswered(p)
  \/ HeaderFails(p)
  \/ \E d \in Daemons : PoolAnswered(p, d)
  \/ PollFails(p)

BusStep == /\ \E p \in Polls : PollStep(p)
           /\ UNCHANGED daemonVars

DaemonStep == /\ \E d \in Daemons : \/ \E b \in Blocks : TipMoves(d, b)
                                     \/ \E S \in SUBSET PoolTxs : PoolMoves(d, S)
              /\ UNCHANGED busVars

BusSpec ==
  /\ DaemonInit /\ BusInit
  /\ [][BusStep \/ DaemonStep]_<<daemonVars, busVars>>

(* The timer keeps ticking and each request ends in an answer or an error   *)
(* (WF); a daemon that is asked again and again does not fail for ever (SF). *)
BusFairness ==
  /\ WF_busVars(\E p \in Polls : PollStep(p))
  /\ SF_busVars(\E p \in Polls : InfoAnswered(p))
  /\ SF_busVars(\E p \in Polls : HeaderAnswered(p))
  /\ SF_busVars(\E p \in Polls : \E d \in Daemons : PoolAnswered(p, d))

-----------------------------------------------------------------------------
(* What the bus promises its listeners *)

Announces(e) == e # None /\ e.type = "block"

(* A 'block' event is emitted exactly when the tip changes from one block to *)
(* another, and names the new tip: no change is silent, none is announced    *)
(* twice ("if a previous poll is still in flight we skip"; poll() compares   *)
(* top_block_hash with lastTipHash one await before it assigns it).          *)
EventsAreTipChanges ==
  [][/\ Announces(event') <=> lastTipHash # None /\ lastTipHash' # lastTipHash
     /\ Announces(event') => event'.block = lastTipHash']_busVars

(* A tip the daemons stay at is recorded or announced in the end, however   *)
(* many polls failed before: no error stops the polling.                    *)
BusSettles == <>[](lastTipHash \in {tip[d] : d \in Daemons})

(* The bus implements the tip feed its listeners are specified against. *)
ImplementsFeed == Feed!FeedSpec

=============================================================================
