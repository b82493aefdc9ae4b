-------------------------- MODULE Dashboard_proofs --------------------------
(***************************************************************************)
(* Proofs about the block stream and the pages (monero-ws.ts,              *)
(* websocket.service.ts, state.service.ts), for any number of pages,       *)
(* blocks, daemons and snapshots under way: the blocks written to a socket *)
(* climb, a page's list descends, and a page that believes to be tracking  *)
(* a transaction is tracked.                                               *)
(***************************************************************************)
EXTENDS Dashboard, TLAPS

(* A list that a snapshot carries: oldest first, and short. *)
Lists == {s \in Seq(Blocks) :
            /\ Len(s) \in 1..RecentBlocks
            /\ \A i, j \in DOMAIN s : i < j => Height(s[i]) < Height(s[j])}
BlockMsg == [type : {"block"}, block : Blocks, txConfirmed : Optional(Txs)]
BlocksMsg == [type : {"blocks"}, blocks : Lists]
ClientMsg == [type : {"init", "refresh-blocks"}] \cup [type : {"track-tx"}, tx : Optional(Txs)]

ServerTypes ==
  /\ tip \in [Daemons -> Blocks]
  /\ lastTipHash \in Optional(Blocks) /\ pending \in Optional(Blocks)
  /\ open \in SUBSET Clients
  /\ broadcastQueue \in Seq(Blocks)
  /\ job \in [at : {"idle", "block", "pool"}, mined : SUBSET Txs]
  /\ lastBroadcastHeight \in Int
  /\ countCache \in Optional(Blocks)
  /\ heightCache \in [CachedHeights -> Optional(Blocks)]
SocketTypes ==
  /\ trackingTx \in [Clients -> Optional(Txs)]
  /\ snaps \in [Clients -> Seq(Optional(Blocks))]
  /\ wire \in [Clients -> Seq(BlockMsg \cup BlocksMsg)]
  /\ uplink \in [Clients -> Seq(ClientMsg)]
PageTypes ==
  /\ latestBlockHeight \in [Clients -> Int]
  /\ blocks \in [Clients -> Seq(Blocks)]
  /\ isTrackingTx \in [Clients -> BOOLEAN]
  /\ trackingTxId \in [Clients -> Optional(Txs)]
  /\ goneOffline \in [Clients -> BOOLEAN]

(* What is cached by height has that height. *)
CacheIsByHeight == \A h \in CachedHeights : heightCache[h] # None => Height(heightCache[h]) = h
(* A running job is the head of the chain. *)
JobHasBlock == job.at # "idle" => broadcastQueue # <<>>

Types == ServerTypes /\ SocketTypes /\ PageTypes /\ CacheIsByHeight /\ JobHasBlock

-----------------------------------------------------------------------------
LEMMA HeightTypes == \A b \in Blocks : Height(b) \in Nat /\ Height(b) + 1 = Len(Chain[b])
<1> SUFFICES ASSUME NEW b \in Blocks PROVE Height(b) \in Nat /\ Height(b) + 1 = Len(Chain[b])
  OBVIOUS
<1>1. Chain[b] \in Seq(Blocks) /\ Len(Chain[b]) > 0
  BY ChainAssumption
<1> QED BY <1>1 DEF Height

(* BlockAt() is a block of the height it is asked for. *)
LEMMA BlockAtHeight ==
  ASSUME NEW t \in Blocks, NEW h \in 0..Height(t)
  PROVE  BlockAt(t, h) \in Blocks /\ Height(BlockAt(t, h)) = h
<1>1. Chain[t] \in Seq(Blocks) /\ h + 1 \in 1..Len(Chain[t])
  <2>1. Height(t) \in Nat /\ Height(t) + 1 = Len(Chain[t])
    BY HeightTypes
  <2>2. Chain[t] \in Seq(Blocks)
    BY ChainAssumption
  <2> QED BY <2>1, <2>2
<1>2. Chain[t][h + 1] \in Blocks /\ Chain[Chain[t][h + 1]] = SubSeq(Chain[t], 1, h + 1)
  <2>1. \A i \in 1..Len(Chain[t]) : Chain[Chain[t][i]] = SubSeq(Chain[t], 1, i)
    BY ChainAssumption
  <2> QED BY <1>1, <2>1
<1>3. Len(SubSeq(Chain[t], 1, h + 1)) = h + 1
  BY <1>1
<1> QED BY <1>2, <1>3 DEF BlockAt, Height

LEMMA NoneIsNoBlock == None \notin Blocks /\ None \notin Txs
  BY NoneAssumption

(* A read through the cache gives a block of the height it was made for. *)
LEMMA CachedBlockHeight ==
  ASSUME Types, NEW h \in Nat, NEW b \in Blocks, CachedBlock(h, b)
  PROVE  Height(b) = h
<1>1. CASE h \in CachedHeights /\ heightCache[h] # None
  BY <1>1 DEF CachedBlock, Types, CacheIsByHeight
<1>2. CASE ~(h \in CachedHeights /\ heightCache[h] # None)
  <2> PICK d \in Daemons : h <= Height(tip[d]) /\ b = BlockAt(tip[d], h)
    BY <1>2 DEF CachedBlock
  <2>1. tip[d] \in Blocks /\ h \in 0..Height(tip[d])
    BY HeightTypes DEF Types, ServerTypes
  <2> QED BY <2>1, BlockAtHeight
<1> QED BY <1>1, <1>2

LEMMA Joining ==
  ASSUME NEW S, NEW s \in Seq(S), NEW t \in Seq(S)
  PROVE  /\ s \o t \in Seq(S)
         /\ Len(s \o t) = Len(s) + Len(t)
         /\ \A i \in 1..Len(s) : (s \o t)[i] = s[i]
         /\ \A i \in 1..Len(t) : (s \o t)[Len(s) + i] = t[i]
  OBVIOUS

LEMMA DropTypes ==
  ASSUME NEW S, NEW s \in Seq(S), NEW i \in DOMAIN s
  PROVE  DropAt(s, i) \in Seq(S)
  BY DEF DropAt

-----------------------------------------------------------------------------
LEMMA InitTypes == Init => Types
  BY NoneIsNoBlock DEF Init, FeedInit, WsInit, Types, ServerTypes, SocketTypes, PageTypes,
     CacheIsByHeight, JobHasBlock, Idle, Wanted, ClientMsg, Optional

LEMMA FeedStepTypes ==
  ASSUME Types, FeedStep \/ Move
  PROVE  tip' \in [Daemons -> Blocks] /\ lastTipHash' \in Optional(Blocks) /\ pending' \in Optional(Blocks)
  BY DEF Types, ServerTypes, FeedStep, Look, Record, See, Announce, Forget, Move, TipMoves, Optional

LEMMA EmitTypes == Types /\ Emit /\ UNCHANGED clientVars => Types'
<1> SUFFICES ASSUME Types, Emit, UNCHANGED clientVars PROVE Types'
  OBVIOUS
<1>1. broadcastQueue' \in Seq(Blocks) /\ (broadcastQueue # <<>> => broadcastQueue' # <<>>)
  <2>1. lastTipHash' \in Optional(Blocks) /\ broadcastQueue \in Seq(Blocks)
    BY FeedStepTypes DEF Emit, Types, ServerTypes
  <2>2. CASE lastTipHash \in {None, lastTipHash'}
    BY <2>1, <2>2 DEF Emit
  <2>3. CASE lastTipHash \notin {None, lastTipHash'} /\ lastTipHash' \in Blocks
    <3>1. broadcastQueue' = Append(broadcastQueue, lastTipHash')
      BY <2>3 DEF Emit
    <3> QED BY <2>1, <2>3, <3>1
  <2>4. CASE lastTipHash # None /\ lastTipHash' = None
    BY <2>4 DEF Emit, FeedStep, Look, Record, See, Announce, Forget
  <2> QED BY <2>1, <2>2, <2>3, <2>4 DEF Optional
<1>2. ServerTypes' /\ JobHasBlock'
  BY <1>1, FeedStepTypes DEF Emit, apiVars, Types, ServerTypes, JobHasBlock
<1> QED BY <1>2 DEF Emit, apiVars, clientVars, Types, SocketTypes, PageTypes, CacheIsByHeight

LEMMA MoveTypes == Types /\ Move /\ UNCHANGED <<wsVars, clientVars>> => Types'
  BY FeedStepTypes DEF wsVars, queueVars, apiVars, clientVars, Types, ServerTypes, SocketTypes, PageTypes,
     CacheIsByHeight, JobHasBlock

LEMMA ApiStepTypes == Types /\ ApiStep /\ UNCHANGED clientVars => Types'
<1> SUFFICES ASSUME Types, ApiStep, UNCHANGED clientVars PROVE Types'
  OBVIOUS
<1>1. CASE CountExpires \/ RestCount
  BY <1>1 DEF CountExpires, RestCount, ApiStep, feedVars, queueVars, clientVars, Optional,
     Types, ServerTypes, SocketTypes, PageTypes, CacheIsByHeight, JobHasBlock
<1>2. ASSUME NEW h \in CachedHeights, HeightExpires(h)
      PROVE  Types'
  BY <1>2 DEF HeightExpires, ApiStep, feedVars, queueVars, clientVars, Optional,
     Types, ServerTypes, SocketTypes, PageTypes, CacheIsByHeight, JobHasBlock
<1>3. ASSUME NEW h \in CachedHeights, RestBlock(h)
      PROVE  Types'
  <2> PICK b \in Blocks : CachedBlock(h, b) /\ heightCache' = [heightCache EXCEPT ![h] = b]
    BY <1>3 DEF RestBlock
  <2>1. Height(b) = h
    BY CachedBlockHeight, WsAssumption
  <2> QED
    BY <1>3, <2>1 DEF RestBlock, ApiStep, feedVars, queueVars, clientVars, Optional,
       Types, ServerTypes, SocketTypes, PageTypes, CacheIsByHeight, JobHasBlock
<1> QED BY <1>1, <1>2, <1>3 DEF ApiStep

LEMMA NextJobTypes ==
  ASSUME Types, broadcastQueue # <<>>, NextJob
  PROVE  broadcastQueue' \in Seq(Blocks)
  BY DEF NextJob, Types, ServerTypes

(* What broadcastBlock() writes to a socket. *)
LEMMA BroadcastBlockWrites ==
  ASSUME Types, BroadcastBlock, NEW c \in Clients
  PROVE  /\ Head(broadcastQueue) \in Blocks
         /\ \/ /\ wire'[c] = wire[c]
               /\ trackingTx'[c] = trackingTx[c]
               /\ c \notin open
            \/ \E confirmed \in Optional(Txs) :
                 /\ wire'[c] = Append(wire[c], [type |-> "block", block |-> Head(broadcastQueue), txConfirmed |-> confirmed])
                 /\ trackingTx'[c] = IF confirmed = None THEN trackingTx[c] ELSE None
<1>1. Head(broadcastQueue) \in Blocks
  BY DEF BroadcastBlock, Types, ServerTypes, JobHasBlock
<1> DEFINE due == c \in open /\ trackingTx[c] # None /\ trackingTx[c] \in job.mined
           confirmed == IF due THEN trackingTx[c] ELSE None
<1>2. CASE c \in open
  <2>1. wire'[c] = Append(wire[c], [type |-> "block", block |-> Head(broadcastQueue), txConfirmed |-> confirmed])
    BY <1>2 DEF BroadcastBlock
  <2>2. trackingTx'[c] = IF due THEN None ELSE trackingTx[c]
    BY DEF BroadcastBlock
  <2>3. confirmed \in Optional(Txs) /\ (confirmed = None <=> ~due)
    BY DEF Types, SocketTypes, Optional
  <2> HIDE DEF due, confirmed
  <2> QED BY <1>1, <2>1, <2>2, <2>3
<1>3. CASE c \notin open
  BY <1>1, <1>3 DEF BroadcastBlock
<1> QED BY <1>2, <1>3

LEMMA BroadcastBlockTypes ==
  ASSUME Types, BroadcastBlock
  PROVE  /\ wire' \in [Clients -> Seq(BlockMsg \cup BlocksMsg)]
         /\ trackingTx' \in [Clients -> Optional(Txs)]
<1>1. ASSUME NEW c \in Clients
      PROVE  wire'[c] \in Seq(BlockMsg \cup BlocksMsg) /\ trackingTx'[c] \in Optional(Txs)
  <2>1. wire[c] \in Seq(BlockMsg \cup BlocksMsg) /\ trackingTx[c] \in Optional(Txs) /\ None \in Optional(Txs)
    BY DEF Types, SocketTypes, Optional
  <2>2. CASE wire'[c] = wire[c] /\ trackingTx'[c] = trackingTx[c]
    BY <2>1, <2>2
  <2>3. ASSUME NEW confirmed \in Optional(Txs),
               wire'[c] = Append(wire[c], [type |-> "block", block |-> Head(broadcastQueue), txConfirmed |-> confirmed]),
               trackingTx'[c] = IF confirmed = None THEN trackingTx[c] ELSE None
        PROVE  wire'[c] \in Seq(BlockMsg \cup BlocksMsg) /\ trackingTx'[c] \in Optional(Txs)
    <3>1. [type |-> "block", block |-> Head(broadcastQueue), txConfirmed |-> confirmed] \in BlockMsg \cup BlocksMsg
      BY BroadcastBlockWrites DEF BlockMsg
    <3> QED BY <2>1, <2>3, <3>1
  <2> QED BY <2>2, <2>3, BroadcastBlockWrites
<1>2. /\ wire' = [c \in Clients |-> wire'[c]]
      /\ trackingTx' = [c \in Clients |-> trackingTx'[c]]
  <2> DEFINE due == {c \in open : trackingTx[c] # None /\ trackingTx[c] \in job.mined}
             message(c) == Append(wire[c], [type |-> "block", block |-> Head(broadcastQueue),
                                            txConfirmed |-> IF c \in due THEN trackingTx[c] ELSE None])
  <2>1. wire' = [c \in Clients |-> IF c \in open THEN message(c) ELSE wire[c]]
    BY DEF BroadcastBlock
  <2>2. trackingTx' = [c \in Clients |-> IF c \in due THEN None ELSE trackingTx[c]]
    BY DEF BroadcastBlock
  <2> HIDE DEF due, message
  <2> QED BY <2>1, <2>2
<1>3. wire' \in [Clients -> Seq(BlockMsg \cup BlocksMsg)]
  BY <1>1, <1>2
<1>4. trackingTx' \in [Clients -> Optional(Txs)]
  BY <1>1, <1>2
<1> QED BY <1>3, <1>4

LEMMA QueueStepTypes == Types /\ QueueStep /\ UNCHANGED clientVars => Types'
<1> SUFFICES ASSUME Types, QueueStep, UNCHANGED clientVars PROVE Types'
  OBVIOUS
<1>1. CASE BroadcastDrops
  <2>1. broadcastQueue' \in Seq(Blocks) /\ job.at = "idle"
    BY <1>1, NextJobTypes DEF BroadcastDrops, Idle
  <2> QED
    BY <1>1, <2>1 DEF BroadcastDrops, QueueStep, feedVars, apiVars, clientVars,
       Types, ServerTypes, SocketTypes, PageTypes, CacheIsByHeight, JobHasBlock
<1>4. CASE BroadcastStarts
  BY <1>4 DEF BroadcastStarts, QueueStep, Idle, feedVars, apiVars, clientVars,
     Types, ServerTypes, SocketTypes, PageTypes, CacheIsByHeight, JobHasBlock
<1>2. ASSUME NEW mined \in SUBSET Txs, BlockFetched(mined)
      PROVE  Types'
  <2>1. Head(broadcastQueue) \in Blocks
    BY <1>2 DEF BlockFetched, Types, ServerTypes, JobHasBlock
  <2> QED
    BY <1>2, <2>1, HeightTypes DEF BlockFetched, QueueStep, feedVars, apiVars, clientVars,
       Types, ServerTypes, SocketTypes, PageTypes, CacheIsByHeight, JobHasBlock
<1>3. CASE BroadcastBlock
  <2>1. broadcastQueue' \in Seq(Blocks) /\ job' = Idle
    BY <1>3, NextJobTypes DEF BroadcastBlock, Types, JobHasBlock
  <2>2. ServerTypes' /\ JobHasBlock'
    BY <1>3, <2>1 DEF BroadcastBlock, QueueStep, feedVars, apiVars, Idle, Types, ServerTypes, JobHasBlock
  <2> QED
    BY <1>3, <2>2, BroadcastBlockTypes DEF QueueStep, apiVars, clientVars,
       Types, SocketTypes, PageTypes, CacheIsByHeight
<1> QED BY <1>1, <1>2, <1>3, <1>4 DEF QueueStep

(* The list of a snapshot is as long as it should be and ascends. *)
LEMMA SnapshotList ==
  ASSUME Types, NEW b \in Blocks,
         NEW at \in [FirstHeight(b)..Height(b) -> Blocks],
         \A h \in FirstHeight(b)..Height(b) : CachedBlock(h, at[h])
  PROVE  /\ FirstHeight(b) \in Nat
         /\ [k \in 1..(Height(b) - FirstHeight(b) + 1) |-> at[FirstHeight(b) + k - 1]] \in Lists
<1> DEFINE lo == FirstHeight(b)
           list == [k \in 1..(Height(b) - lo + 1) |-> at[lo + k - 1]]
<1>1. /\ lo \in Nat /\ Height(b) \in Nat /\ lo <= Height(b)
      /\ Height(b) - lo + 1 \in 1..RecentBlocks
  BY HeightTypes, WsAssumption DEF FirstHeight
<1> HIDE DEF lo
<1>2. \A h \in lo..Height(b) : Height(at[h]) = h
  BY <1>1, CachedBlockHeight DEF lo
<1>3. \A k \in 1..(Height(b) - lo + 1) : lo + k - 1 \in lo..Height(b)
  BY <1>1
<1>4. list \in Seq(Blocks) /\ Len(list) = Height(b) - lo + 1 /\ DOMAIN list = 1..(Height(b) - lo + 1)
  <2> DEFINE n == Height(b) - lo + 1
  <2>1. n \in Nat
    BY <1>1
  <2>2. \A k \in 1..n : at[lo + k - 1] \in Blocks
    BY <1>3 DEF lo
  <2>3. list \in [1..n -> Blocks]
    BY <2>2
  <2> HIDE DEF n, list
  <2>4. list \in Seq(Blocks) /\ Len(list) = n /\ DOMAIN list = 1..n
    BY <2>1, <2>3
  <2> QED BY <2>4 DEF n
<1>5. \A i, j \in DOMAIN list : i < j => Height(list[i]) < Height(list[j])
  BY <1>1, <1>2, <1>3, <1>4
<1> QED BY <1>1, <1>4, <1>5 DEF Lists, lo

(* A step of a snapshot drops it or learns its height, and may write a list. *)
LEMMA SnapStepEffects ==
  ASSUME Types, NEW c \in Clients, SnapStep(c)
  PROVE  /\ snaps' \in [Clients -> Seq(Optional(Blocks))]
         /\ \/ wire' = wire
            \/ \E list \in Lists : wire' = [wire EXCEPT ![c] = Append(@, [type |-> "blocks", blocks |-> list])]
         /\ countCache' \in Optional(Blocks)
         /\ heightCache' \in [CachedHeights -> Optional(Blocks)]
         /\ \A h \in CachedHeights : heightCache'[h] # None => Height(heightCache'[h]) = h
         /\ UNCHANGED <<feedVars, open, trackingTx, queueVars, uplink>>
<1>1. PICK i \in DOMAIN snaps[c] : SnapCount(c, i) \/ SnapSend(c, i) \/ SnapFails(c, i)
  BY DEF SnapStep, SnapProgress
<1>2. UNCHANGED <<feedVars, open, trackingTx, queueVars, uplink>>
  BY DEF SnapStep, SnapProgress
<1>3. /\ snaps \in [Clients -> Seq(Optional(Blocks))] /\ DropAt(snaps[c], i) \in Seq(Optional(Blocks))
  BY DropTypes DEF Types, SocketTypes
<1>4. CASE SnapCount(c, i)
  <2> PICK b \in Blocks : countCache' = b /\ snaps' = [snaps EXCEPT ![c][i] = b]
    BY <1>4 DEF SnapCount
  <2>1. [snaps[c] EXCEPT ![i] = b] \in Seq(Optional(Blocks))
    BY <1>3 DEF Optional
  <2> QED
    BY <1>2, <1>3, <1>4, <2>1 DEF SnapCount, Types, ServerTypes, CacheIsByHeight, Optional
<1>5. CASE SnapSend(c, i)
  <2>1. snaps[c][i] \in Blocks
    BY <1>3, <1>5 DEF SnapSend, Optional
  <2> DEFINE b == snaps[c][i]
  <2>2. PICK at \in [FirstHeight(b)..Height(b) -> Blocks] :
          /\ \A h \in FirstHeight(b)..Height(b) : CachedBlock(h, at[h])
          /\ heightCache' = [h \in CachedHeights |-> IF h \in FirstHeight(b)..Height(b) THEN at[h] ELSE heightCache[h]]
          /\ Write(c, [type |-> "blocks",
                       blocks |-> [k \in 1..(Height(b) - FirstHeight(b) + 1) |-> at[FirstHeight(b) + k - 1]]])
    BY <1>5 DEF SnapSend
  <2> DEFINE list == [k \in 1..(Height(b) - FirstHeight(b) + 1) |-> at[FirstHeight(b) + k - 1]]
  <2>3. list \in Lists /\ FirstHeight(b) \in Nat
    BY <2>1, <2>2, SnapshotList
  <2>4. \A h \in FirstHeight(b)..Height(b) : Height(at[h]) = h
    BY <2>1, <2>2, <2>3, CachedBlockHeight, HeightTypes
  <2>5. wire' = [wire EXCEPT ![c] = Append(@, [type |-> "blocks", blocks |-> list])]
    BY <2>2 DEF Write
  <2>6. snaps' = [snaps EXCEPT ![c] = DropAt(@, i)] /\ countCache' = countCache
    BY <1>5 DEF SnapSend
  <2> HIDE DEF b, list
  <2>7. /\ heightCache' \in [CachedHeights -> Optional(Blocks)]
        /\ \A h \in CachedHeights : heightCache'[h] # None => Height(heightCache'[h]) = h
    BY <2>2, <2>4 DEF Types, ServerTypes, CacheIsByHeight, Optional
  <2>8. snaps' \in [Clients -> Seq(Optional(Blocks))]
    BY <1>3, <2>6
  <2> QED BY <1>2, <2>3, <2>5, <2>6, <2>7, <2>8 DEF Types, ServerTypes
<1>6. CASE SnapFails(c, i)
  BY <1>2, <1>3, <1>6 DEF SnapFails, apiVars, Types, ServerTypes, CacheIsByHeight
<1> QED BY <1>1, <1>4, <1>5, <1>6

LEMMA SnapStepTypes ==
  ASSUME Types, NEW c \in Clients, SnapStep(c), UNCHANGED clientVars
  PROVE  Types'
<1>1. wire' \in [Clients -> Seq(BlockMsg \cup BlocksMsg)]
  <2>1. wire \in [Clients -> Seq(BlockMsg \cup BlocksMsg)]
    BY DEF Types, SocketTypes
  <2>2. ASSUME NEW list \in Lists, wire' = [wire EXCEPT ![c] = Append(@, [type |-> "blocks", blocks |-> list])]
        PROVE  wire' \in [Clients -> Seq(BlockMsg \cup BlocksMsg)]
    <3>1. [type |-> "blocks", blocks |-> list] \in BlockMsg \cup BlocksMsg
      BY DEF BlocksMsg
    <3> QED BY <2>1, <2>2, <3>1
  <2> QED BY <2>1, <2>2, SnapStepEffects
<1>2. ServerTypes' /\ CacheIsByHeight' /\ JobHasBlock'
  BY SnapStepEffects DEF Types, ServerTypes, CacheIsByHeight, JobHasBlock, feedVars, queueVars
<1>3. SocketTypes'
  BY <1>1, SnapStepEffects DEF Types, SocketTypes
<1> QED BY <1>2, <1>3 DEF Types, PageTypes, clientVars

LEMMA MessageTypes ==
  ASSUME Types, NEW c \in Clients, Message(c), UNCHANGED clientVars
  PROVE  Types'
<1>1. uplink[c] \in Seq(ClientMsg) /\ uplink[c] # <<>>
  BY DEF Message, Types, SocketTypes
<1>2. Head(uplink[c]) \in ClientMsg /\ Tail(uplink[c]) \in Seq(ClientMsg)
  BY <1>1
<1>3. uplink' \in [Clients -> Seq(ClientMsg)]
  BY <1>2 DEF Message, Types, SocketTypes
<1>4. trackingTx' \in [Clients -> Optional(Txs)] /\ snaps' \in [Clients -> Seq(Optional(Blocks))]
  <2>1. CASE Head(uplink[c]).type = "track-tx" /\ UNCHANGED snaps
             /\ trackingTx' = [trackingTx EXCEPT ![c] = Head(uplink[c]).tx]
    BY <1>2, <2>1 DEF Types, SocketTypes, ClientMsg
  <2>2. CASE snaps' = [snaps EXCEPT ![c] = Append(@, None)] /\ UNCHANGED trackingTx
    BY <2>2 DEF Types, SocketTypes, Optional
  <2> QED BY <2>1, <2>2 DEF Message
<1> QED
  BY <1>3, <1>4 DEF Message, feedVars, queueVars, apiVars, clientVars,
     Types, ServerTypes, SocketTypes, PageTypes, CacheIsByHeight, JobHasBlock

LEMMA ConnectsTypes ==
  ASSUME Types, NEW c \in Clients, Connects(c)
  PROVE  Types'
<1>1. Wanted \in Seq(ClientMsg) /\ <<None>> \in Seq(Optional(Blocks)) /\ None \in Optional(Txs)
  BY DEF Wanted, ClientMsg, Optional
<1>2. SocketTypes'
  BY <1>1 DEF Connects, Connection, Types, SocketTypes
<1> QED
  BY <1>2 DEF Connects, Connection, feedVars, queueVars, apiVars, clientVars,
     Types, ServerTypes, PageTypes, CacheIsByHeight, JobHasBlock

LEMMA GoesOfflineTypes ==
  ASSUME Types, NEW c \in Clients, GoesOffline(c)
  PROVE  Types'
<1>1. SocketTypes' /\ PageTypes'
  BY DEF GoesOffline, Cleanup, Types, SocketTypes, PageTypes, Optional
<1> QED
  BY <1>1 DEF GoesOffline, Cleanup, feedVars, queueVars, apiVars,
     Types, ServerTypes, CacheIsByHeight, JobHasBlock

LEMMA RequestTypes ==
  /\ <<>> \in Seq(ClientMsg) /\ Wanted \in Seq(ClientMsg) /\ Refresh \in Seq(ClientMsg)
  /\ \A t \in Optional(Txs) : Tracked(t) \in Seq(ClientMsg)
  BY DEF Wanted, Refresh, Tracked, ClientMsg

LEMMA SendsTypes ==
  ASSUME Types, NEW c \in Clients, NEW ms \in Seq(ClientMsg), Sends(c, ms)
  PROVE  /\ uplink' \in [Clients -> Seq(ClientMsg)]
         /\ \A d \in Clients \ {c} : uplink'[d] = uplink[d]
         /\ (c \in open \/ ~goneOffline[c]) => uplink'[c] = uplink[c] \o ms
  BY DEF Sends, Types, SocketTypes

LEMMA PageStepTypes ==
  ASSUME Types, NEW c \in Clients, PageStep(c)
  PROVE  Types'
<1>1. uplink' \in [Clients -> Seq(ClientMsg)] /\ PageTypes'
  <2>1. CASE Want(c)
    BY <2>1, RequestTypes, SendsTypes DEF Want, clientVars, Types, PageTypes
  <2>2. ASSUME NEW t \in Txs, StartTrackTransaction(c, t)
        PROVE  uplink' \in [Clients -> Seq(ClientMsg)] /\ PageTypes'
    <3>1. t \in Optional(Txs)
      BY DEF Optional
    <3>2. uplink' \in [Clients -> Seq(ClientMsg)]
      BY <2>2, <3>1, RequestTypes, SendsTypes DEF StartTrackTransaction
    <3> QED BY <2>2, <3>1, <3>2 DEF StartTrackTransaction, Types, PageTypes
  <2>3. CASE StopTrackingTransaction(c)
    <3>1. None \in Optional(Txs)
      BY DEF Optional
    <3>2. uplink' \in [Clients -> Seq(ClientMsg)]
      BY <2>3, <3>1, RequestTypes, SendsTypes DEF StopTrackingTransaction
    <3> QED BY <2>3, <3>2 DEF StopTrackingTransaction, Types, PageTypes
  <2> QED BY <2>1, <2>2, <2>3 DEF PageStep
<1> QED
  BY <1>1 DEF PageStep, feedVars, queueVars, apiVars,
     Types, ServerTypes, SocketTypes, CacheIsByHeight, JobHasBlock

-----------------------------------------------------------------------------
(* What a page receives. *)

LEMMA MaxOfList ==
  ASSUME NEW n \in Int, NEW list \in Lists
  PROVE  Max({n} \cup {Height(list[k]) : k \in DOMAIN list}) = Larger(n, Height(list[Len(list)]))
<1> DEFINE S == {n} \cup {Height(list[k]) : k \in DOMAIN list}
           m == Larger(n, Height(list[Len(list)]))
<1>1. list \in Seq(Blocks) /\ Len(list) \in Nat /\ Len(list) > 0 /\ DOMAIN list = 1..Len(list)
  BY WsAssumption DEF Lists
<1>2. \A k \in DOMAIN list : Height(list[k]) \in Nat /\ Height(list[k]) <= Height(list[Len(list)])
  <2> SUFFICES ASSUME NEW k \in DOMAIN list
               PROVE  Height(list[k]) \in Nat /\ Height(list[k]) <= Height(list[Len(list)])
    OBVIOUS
  <2>1. Height(list[k]) \in Nat /\ Height(list[Len(list)]) \in Nat
    BY <1>1, HeightTypes
  <2>2. k < Len(list) => Height(list[k]) < Height(list[Len(list)])
    BY <1>1 DEF Lists
  <2> QED BY <1>1, <2>1, <2>2
<1>3. S \subseteq Int /\ m \in S /\ \A y \in S : m >= y
  BY <1>1, <1>2 DEF Larger
<1> HIDE DEF S, m
<1>4. (CHOOSE x \in S : \A y \in S : x >= y) \in S /\ \A z \in S : (CHOOSE x \in S : \A y \in S : x >= y) >= z
  BY <1>3
<1>5. Max(S) \in S /\ \A y \in S : Max(S) >= y
  BY <1>4 DEF Max
<1>6. Max(S) \in Int /\ m \in Int /\ m >= Max(S) /\ Max(S) >= m
  BY <1>3, <1>5
<1>7. Max(S) = m
  BY <1>6
<1> QED BY <1>7 DEF S, m

LEMMA ReceiveBlocksEffects ==
  ASSUME Types, NEW c \in Clients, ReceiveBlocks(c)
  PROVE  /\ wire[c] # <<>> /\ Head(wire[c]).type = "blocks"
         /\ \E list \in Lists :
              /\ blocks' = [blocks EXCEPT ![c] = Reverse(list)]
              /\ latestBlockHeight' = [latestBlockHeight EXCEPT ![c] = Larger(@, Height(list[Len(list)]))]
         /\ Sends(c, Resubscription(c, isTrackingTx[c]))
         /\ isTrackingTx' = isTrackingTx
<1> DEFINE list == Head(wire[c]).blocks
<1>1. wire[c] # <<>> /\ Head(wire[c]).type = "blocks"
  BY DEF ReceiveBlocks
<1>2. Head(wire[c]) \in BlockMsg \cup BlocksMsg
  BY <1>1 DEF Types, SocketTypes
<1>3. list \in Lists
  BY <1>1, <1>2 DEF BlockMsg, BlocksMsg
<1>4. latestBlockHeight[c] \in Int
  BY DEF Types, PageTypes
<1>5. /\ blocks' = [blocks EXCEPT ![c] = Reverse(list)]
      /\ latestBlockHeight' = [latestBlockHeight EXCEPT ![c] =
                                 Max({latestBlockHeight[c]} \cup {Height(list[k]) : k \in DOMAIN list})]
      /\ Sends(c, Resubscription(c, isTrackingTx[c]))
      /\ isTrackingTx' = isTrackingTx
  BY DEF ReceiveBlocks
<1> HIDE DEF list
<1>6. Max({latestBlockHeight[c]} \cup {Height(list[k]) : k \in DOMAIN list})
        = Larger(latestBlockHeight[c], Height(list[Len(list)]))
  BY <1>3, <1>4, MaxOfList
<1> QED BY <1>1, <1>3, <1>5, <1>6

LEMMA ReceiveBlockEffects ==
  ASSUME Types, NEW c \in Clients, ReceiveBlock(c)
  PROVE  /\ wire[c] # <<>> /\ Head(wire[c]) \in BlockMsg
         /\ \/ UNCHANGED <<blocks, latestBlockHeight>>
            \/ /\ Height(Head(wire[c]).block) = latestBlockHeight[c] + 1
               /\ blocks' = [blocks EXCEPT ![c] = Prepend(Head(wire[c]).block, @)]
               /\ latestBlockHeight' = [latestBlockHeight EXCEPT ![c] = @ + 1]
         /\ \E ms \in {<<>>, Refresh} :
              Sends(c, ms \o Resubscription(c, isTrackingTx[c] /\ Head(wire[c]).txConfirmed = None))
         /\ isTrackingTx' = [isTrackingTx EXCEPT ![c] = @ /\ Head(wire[c]).txConfirmed = None]
<1>1. wire[c] # <<>> /\ Head(wire[c]) \in BlockMsg \cup BlocksMsg
  BY DEF ReceiveBlock, Types, SocketTypes
<1>2. Head(wire[c]) \in BlockMsg
  BY <1>1 DEF ReceiveBlock, BlockMsg, BlocksMsg
<1>3. latestBlockHeight[c] \in Int
  BY DEF Types, PageTypes
<1>4. \/ UNCHANGED <<blocks, latestBlockHeight>>
      \/ /\ Height(Head(wire[c]).block) = latestBlockHeight[c] + 1
         /\ blocks' = [blocks EXCEPT ![c] = Prepend(Head(wire[c]).block, @)]
         /\ latestBlockHeight' = [latestBlockHeight EXCEPT ![c] = @ + 1]
  <2>1. CASE ~IsNext(c, Head(wire[c]).block)
    BY <2>1 DEF ReceiveBlock
  <2>2. CASE IsNext(c, Head(wire[c]).block)
    <3>1. Height(Head(wire[c]).block) = latestBlockHeight[c] + 1
      BY <2>2 DEF IsNext
    <3>2. /\ blocks' = [blocks EXCEPT ![c] = Prepend(Head(wire[c]).block, @)]
          /\ latestBlockHeight' = [latestBlockHeight EXCEPT ![c] = Larger(@, Height(Head(wire[c]).block))]
      BY <2>2 DEF ReceiveBlock
    <3>3. Larger(latestBlockHeight[c], Height(Head(wire[c]).block)) = latestBlockHeight[c] + 1
      BY <1>3, <3>1 DEF Larger
    <3> QED BY <3>1, <3>2, <3>3
  <2> QED BY <2>1, <2>2
<1>5. \E ms \in {<<>>, Refresh} :
        Sends(c, ms \o Resubscription(c, isTrackingTx[c] /\ Head(wire[c]).txConfirmed = None))
  BY DEF ReceiveBlock
<1>6. isTrackingTx' = [isTrackingTx EXCEPT ![c] = @ /\ Head(wire[c]).txConfirmed = None]
  BY DEF ReceiveBlock
<1> QED BY <1>1, <1>2, <1>4, <1>5, <1>6

Descends(list, top) ==
  /\ \A i, j \in DOMAIN list : i < j => Height(list[i]) > Height(list[j])
  /\ \A i \in DOMAIN list : Height(list[i]) <= top

(* resetBlocks() turns an ascending list into a descending one. *)
LEMMA ReverseDescends ==
  ASSUME NEW list \in Lists, NEW n \in Int
  PROVE  /\ Reverse(list) \in Seq(Blocks)
         /\ Descends(Reverse(list), Larger(n, Height(list[Len(list)])))
         /\ Len(Reverse(list)) <= RecentBlocks
<1>1. list \in Seq(Blocks) /\ Len(list) \in Nat /\ Len(list) > 0 /\ Len(list) <= RecentBlocks
  BY WsAssumption DEF Lists
<1>2. /\ Reverse(list) \in Seq(Blocks) /\ Len(Reverse(list)) = Len(list)
      /\ \A i \in 1..Len(list) : Reverse(list)[i] = list[Len(list) - i + 1]
  BY <1>1 DEF Reverse
<1>3. \A i \in 1..Len(list) : Height(list[i]) \in Nat
  BY <1>1, HeightTypes
<1>4. \A i, j \in 1..Len(list) : i < j => Height(list[i]) < Height(list[j])
  BY <1>1 DEF Lists
<1>5. ASSUME NEW i \in 1..Len(list), NEW j \in 1..Len(list), i < j
      PROVE  Height(Reverse(list)[i]) > Height(Reverse(list)[j])
  <2>1. /\ Len(list) - i + 1 \in 1..Len(list) /\ Len(list) - j + 1 \in 1..Len(list)
        /\ Len(list) - j + 1 < Len(list) - i + 1
    BY <1>1, <1>5
  <2> QED BY <1>2, <1>3, <1>4, <2>1
<1>6. ASSUME NEW i \in 1..Len(list)
      PROVE  Height(Reverse(list)[i]) <= Larger(n, Height(list[Len(list)]))
  <2>1. Len(list) - i + 1 \in 1..Len(list)
    BY <1>1
  <2>2. Height(list[Len(list) - i + 1]) <= Height(list[Len(list)])
    BY <1>1, <1>3, <1>4, <2>1
  <2>3. Height(list[Len(list)]) \in Nat /\ Height(list[Len(list) - i + 1]) \in Nat
    BY <1>1, <1>3, <2>1
  <2>4. Height(Reverse(list)[i]) <= Height(list[Len(list)])
    BY <1>2, <2>2
  <2>5. Height(list[Len(list)]) <= Larger(n, Height(list[Len(list)]))
    BY <2>3 DEF Larger
  <2>6. Larger(n, Height(list[Len(list)])) \in Int /\ Height(Reverse(list)[i]) \in Nat
    BY <1>2, <2>3 DEF Larger
  <2> QED BY <2>3, <2>4, <2>5, <2>6
<1> QED BY <1>1, <1>2, <1>5, <1>6 DEF Descends

LEMMA PrependTypes ==
  ASSUME NEW list \in Seq(Blocks), NEW b \in Blocks
  PROVE  \E n \in 1..KeepBlocks :
           /\ n <= Len(list) + 1
           /\ Prepend(b, list) \in Seq(Blocks) /\ Len(Prepend(b, list)) = n
           /\ Prepend(b, list)[1] = b
           /\ \A i \in 2..n : Prepend(b, list)[i] = list[i - 1]
<1> DEFINE n == IF Len(list) < KeepBlocks THEN Len(list) + 1 ELSE KeepBlocks
<1>1. n \in 1..KeepBlocks /\ n <= Len(list) + 1
  BY KeepBlocksAssumption
<1>2. Prepend(b, list) = SubSeq(<<b>> \o list, 1, n)
  BY DEF Prepend
<1> HIDE DEF n
<1> QED BY <1>1, <1>2, KeepBlocksAssumption

(* addBlock() puts a block above all others and keeps a part of the list. *)
LEMMA PrependDescends ==
  ASSUME NEW list \in Seq(Blocks), NEW top \in Int, Descends(list, top),
         NEW b \in Blocks, Height(b) = top + 1
  PROVE  /\ Descends(Prepend(b, list), top + 1)
         /\ Len(Prepend(b, list)) <= KeepBlocks
<1>1. PICK n \in 1..KeepBlocks :
        /\ n <= Len(list) + 1
        /\ Prepend(b, list) \in Seq(Blocks) /\ Len(Prepend(b, list)) = n
        /\ Prepend(b, list)[1] = b
        /\ \A i \in 2..n : Prepend(b, list)[i] = list[i - 1]
  BY PrependTypes
<1>2. n \in Nat /\ n > 0 /\ Len(list) \in Nat
  BY KeepBlocksAssumption
<1>3. /\ Prepend(b, list)[1] = b
      /\ \A i \in 2..n : Prepend(b, list)[i] = list[i - 1]
  BY <1>1
<1>4. \A i \in 1..Len(list) : Height(list[i]) \in Nat /\ Height(list[i]) <= top
  BY HeightTypes DEF Descends
<1>5. \A i \in 2..n : i - 1 \in 1..Len(list)
  BY <1>1, <1>2
<1>6. ASSUME NEW i \in 1..n, NEW j \in 1..n, i < j
      PROVE  Height(Prepend(b, list)[i]) > Height(Prepend(b, list)[j])
  <2>1. j \in 2..n /\ j - 1 \in 1..Len(list)
    BY <1>2, <1>5, <1>6
  <2>2. CASE i = 1
    BY <1>3, <1>4, <2>1, <2>2
  <2>3. CASE i # 1
    <3>1. i \in 2..n /\ i - 1 \in 1..Len(list) /\ i - 1 < j - 1
      BY <1>2, <1>5, <1>6, <2>3
    <3>2. Height(list[i - 1]) > Height(list[j - 1])
      BY <2>1, <3>1 DEF Descends
    <3> QED BY <1>3, <2>1, <3>1, <3>2
  <2> QED BY <2>2, <2>3
<1>7. ASSUME NEW i \in 1..n
      PROVE  Height(Prepend(b, list)[i]) <= top + 1
  <2>1. CASE i = 1
    BY <1>3, <2>1
  <2>2. CASE i # 1
    <3>1. i \in 2..n /\ i - 1 \in 1..Len(list)
      BY <1>2, <1>5, <2>2
    <3>2. Height(list[i - 1]) \in Nat /\ Height(list[i - 1]) <= top
      BY <1>4, <3>1
    <3>3. Prepend(b, list)[i] = list[i - 1]
      BY <1>3, <3>1
    <3> QED BY <3>2, <3>3
  <2> QED BY <2>1, <2>2
<1> QED BY <1>1, <1>2, <1>6, <1>7 DEF Descends

LEMMA ResubscriptionTypes ==
  ASSUME Types, NEW c \in Clients, NEW tracking \in BOOLEAN
  PROVE  Resubscription(c, tracking) \in Seq(ClientMsg)
<1>1. trackingTxId[c] \in Optional(Txs)
  BY DEF Types, PageTypes
<1>2. Wanted \in Seq(ClientMsg) /\ Tracked(trackingTxId[c]) \in Seq(ClientMsg) /\ <<>> \in Seq(ClientMsg)
  BY <1>1, RequestTypes
<1> QED BY <1>2 DEF Resubscription

LEMMA ReceiveTypes ==
  ASSUME Types, NEW c \in Clients, Receive(c)
  PROVE  Types'
<1>1. wire' \in [Clients -> Seq(BlockMsg \cup BlocksMsg)]
  <2>1. wire[c] \in Seq(BlockMsg \cup BlocksMsg) /\ wire[c] # <<>>
    BY ReceiveBlocksEffects, ReceiveBlockEffects DEF Receive, Types, SocketTypes
  <2>2. Tail(wire[c]) \in Seq(BlockMsg \cup BlocksMsg)
    BY <2>1
  <2> QED BY <2>2 DEF Receive, Types, SocketTypes
<1>2. uplink' \in [Clients -> Seq(ClientMsg)] /\ isTrackingTx' \in [Clients -> BOOLEAN]
  <2>1. CASE ReceiveBlocks(c)
    <3>1. isTrackingTx[c] \in BOOLEAN
      BY DEF Types, PageTypes
    <3>2. Resubscription(c, isTrackingTx[c]) \in Seq(ClientMsg)
      BY <3>1, ResubscriptionTypes
    <3> QED BY <2>1, <3>2, ReceiveBlocksEffects, SendsTypes DEF Types, PageTypes
  <2>2. CASE ReceiveBlock(c)
    <3> DEFINE tracking == isTrackingTx[c] /\ Head(wire[c]).txConfirmed = None
    <3>1. tracking \in BOOLEAN
      OBVIOUS
    <3>2. Resubscription(c, tracking) \in Seq(ClientMsg)
      BY <3>1, ResubscriptionTypes
    <3>3. isTrackingTx' = [isTrackingTx EXCEPT ![c] = tracking]
      BY <2>2 DEF ReceiveBlock
    <3>4. PICK ms \in {<<>>, Refresh} : Sends(c, ms \o Resubscription(c, tracking))
      BY <2>2, ReceiveBlockEffects
    <3> HIDE DEF tracking
    <3>5. ms \o Resubscription(c, tracking) \in Seq(ClientMsg)
      <4>1. ms \in Seq(ClientMsg)
        BY RequestTypes
      <4> QED BY <3>2, <4>1, Joining
    <3>6. uplink' \in [Clients -> Seq(ClientMsg)]
      BY <3>4, <3>5, SendsTypes
    <3> QED BY <3>1, <3>3, <3>6 DEF Types, PageTypes
  <2> QED BY <2>1, <2>2 DEF Receive
<1>3. blocks' \in [Clients -> Seq(Blocks)] /\ latestBlockHeight' \in [Clients -> Int]
  <2>1. CASE ReceiveBlocks(c)
    <3> PICK list \in Lists :
          /\ blocks' = [blocks EXCEPT ![c] = Reverse(list)]
          /\ latestBlockHeight' = [latestBlockHeight EXCEPT ![c] = Larger(@, Height(list[Len(list)]))]
      BY <2>1, ReceiveBlocksEffects
    <3>1. list \in Seq(Blocks) /\ Len(list) \in Nat /\ Len(list) > 0
      BY WsAssumption DEF Lists
    <3>2. Height(list[Len(list)]) \in Nat /\ Reverse(list) \in Seq(Blocks)
      BY <3>1, HeightTypes DEF Reverse
    <3> QED BY <3>2 DEF Larger, Types, PageTypes
  <2>2. CASE ReceiveBlock(c)
    <3>1. Prepend(Head(wire[c]).block, blocks[c]) \in Seq(Blocks)
      <4>1. Head(wire[c]).block \in Blocks /\ blocks[c] \in Seq(Blocks)
        BY <2>2, ReceiveBlockEffects DEF BlockMsg, Types, PageTypes
      <4>2. \A b \in Blocks, list \in Seq(Blocks) : Prepend(b, list) \in Seq(Blocks)
        BY PrependTypes
      <4> QED BY <4>1, <4>2
    <3>2. blocks \in [Clients -> Seq(Blocks)] /\ latestBlockHeight \in [Clients -> Int]
      BY DEF Types, PageTypes
    <3>3. CASE UNCHANGED <<blocks, latestBlockHeight>>
      BY <3>2, <3>3
    <3>4. CASE /\ blocks' = [blocks EXCEPT ![c] = Prepend(Head(wire[c]).block, @)]
               /\ latestBlockHeight' = [latestBlockHeight EXCEPT ![c] = @ + 1]
      BY <3>1, <3>2, <3>4
    <3> QED BY <2>2, <3>3, <3>4, ReceiveBlockEffects
  <2> QED BY <2>1, <2>2 DEF Receive
<1> QED
  BY <1>1, <1>2, <1>3 DEF Receive, feedVars, queueVars, apiVars,
     Types, ServerTypes, SocketTypes, PageTypes, CacheIsByHeight, JobHasBlock

LEMMA StepTypes == Types /\ [Next]_vars => Types'
<1> SUFFICES ASSUME Types, [Next]_vars PROVE Types'
  OBVIOUS
<1>1. CASE Move /\ UNCHANGED <<wsVars, clientVars>>
  BY <1>1, MoveTypes
<1>2. CASE ServerStep /\ UNCHANGED clientVars
  BY <1>2, EmitTypes, ApiStepTypes, QueueStepTypes DEF ServerStep
<1>3. ASSUME NEW c \in Clients, (Message(c) \/ SnapStep(c)) /\ UNCHANGED clientVars
      PROVE  Types'
  BY <1>3, MessageTypes, SnapStepTypes
<1>4. ASSUME NEW c \in Clients, Connects(c) \/ GoesOffline(c) \/ PageStep(c) \/ Receive(c)
      PROVE  Types'
  BY <1>4, ConnectsTypes, GoesOfflineTypes, PageStepTypes, ReceiveTypes
<1>5. CASE UNCHANGED vars
  BY <1>5 DEF vars, feedVars, wsVars, queueVars, apiVars, clientVars,
     Types, ServerTypes, SocketTypes, PageTypes, CacheIsByHeight, JobHasBlock
<1> QED BY <1>1, <1>2, <1>3, <1>4, <1>5 DEF Next

(* The types of the composition and the heights of the cached blocks. *)
THEOREM DashboardTypes == Spec => []Types
<1> QED BY InitTypes, StepTypes, PTL DEF Spec

-----------------------------------------------------------------------------
(* The list of a page. *)

ListsDescend ==
  \A c \in Clients : /\ Descends(blocks[c], latestBlockHeight[c])
                     /\ Len(blocks[c]) <= Larger(KeepBlocks, RecentBlocks)

LEMMA ReceiveDescends ==
  ASSUME Types, ListsDescend, NEW c \in Clients, Receive(c)
  PROVE  ListsDescend'
<1>1. ASSUME NEW d \in Clients, blocks'[d] = blocks[d], latestBlockHeight'[d] = latestBlockHeight[d]
      PROVE  /\ Descends(blocks'[d], latestBlockHeight'[d])
             /\ Len(blocks'[d]) <= Larger(KeepBlocks, RecentBlocks)
  BY <1>1 DEF ListsDescend
<1>2. KeepBlocks <= Larger(KeepBlocks, RecentBlocks) /\ RecentBlocks <= Larger(KeepBlocks, RecentBlocks)
      /\ Larger(KeepBlocks, RecentBlocks) \in Nat /\ KeepBlocks \in Nat /\ RecentBlocks \in Nat
  BY KeepBlocksAssumption, WsAssumption DEF Larger
<1>3. blocks \in [Clients -> Seq(Blocks)] /\ latestBlockHeight \in [Clients -> Int]
  BY DEF Types, PageTypes
<1>4. CASE ReceiveBlocks(c)
  <2> PICK list \in Lists :
        /\ blocks' = [blocks EXCEPT ![c] = Reverse(list)]
        /\ latestBlockHeight' = [latestBlockHeight EXCEPT ![c] = Larger(@, Height(list[Len(list)]))]
    BY <1>4, ReceiveBlocksEffects
  <2>1. /\ blocks'[c] = Reverse(list)
        /\ latestBlockHeight'[c] = Larger(latestBlockHeight[c], Height(list[Len(list)]))
        /\ \A d \in Clients \ {c} : blocks'[d] = blocks[d] /\ latestBlockHeight'[d] = latestBlockHeight[d]
    BY <1>3
  <2>2. Descends(blocks'[c], latestBlockHeight'[c]) /\ blocks'[c] \in Seq(Blocks) /\ Len(blocks'[c]) <= RecentBlocks
    BY <1>3, <2>1, ReverseDescends
  <2>3. Len(blocks'[c]) <= Larger(KeepBlocks, RecentBlocks)
    BY <1>2, <2>2
  <2> QED BY <1>1, <2>1, <2>2, <2>3 DEF ListsDescend
<1>5. CASE ReceiveBlock(c)
  <2>1. CASE UNCHANGED <<blocks, latestBlockHeight>>
    BY <1>1, <2>1 DEF ListsDescend
  <2>2. CASE /\ Height(Head(wire[c]).block) = latestBlockHeight[c] + 1
             /\ blocks' = [blocks EXCEPT ![c] = Prepend(Head(wire[c]).block, @)]
             /\ latestBlockHeight' = [latestBlockHeight EXCEPT ![c] = @ + 1]
    <3> DEFINE b == Head(wire[c]).block
    <3>1. b \in Blocks
      BY <1>5, ReceiveBlockEffects DEF BlockMsg
    <3>2. /\ Height(b) = latestBlockHeight[c] + 1
          /\ blocks'[c] = Prepend(b, blocks[c])
          /\ latestBlockHeight'[c] = latestBlockHeight[c] + 1
          /\ \A d \in Clients \ {c} : blocks'[d] = blocks[d] /\ latestBlockHeight'[d] = latestBlockHeight[d]
      BY <1>3, <2>2
    <3> HIDE DEF b
    <3>3. blocks[c] \in Seq(Blocks) /\ latestBlockHeight[c] \in Int /\ Descends(blocks[c], latestBlockHeight[c])
      BY <1>3 DEF ListsDescend
    <3>4. Descends(blocks'[c], latestBlockHeight'[c]) /\ Len(blocks'[c]) <= KeepBlocks
      BY <3>1, <3>2, <3>3, PrependDescends
    <3>5. Len(blocks'[c]) \in Nat
      <4>1. \A x \in Blocks, list \in Seq(Blocks) : Len(Prepend(x, list)) \in Nat
        <5> SUFFICES ASSUME NEW x \in Blocks, NEW list \in Seq(Blocks) PROVE Len(Prepend(x, list)) \in Nat
          OBVIOUS
        <5>1. Prepend(x, list) \in Seq(Blocks)
          BY PrependTypes
        <5> QED BY <5>1
      <4> QED BY <3>1, <3>2, <3>3, <4>1
    <3> QED BY <1>1, <1>2, <3>2, <3>4, <3>5 DEF ListsDescend
  <2> QED BY <1>5, <2>1, <2>2, ReceiveBlockEffects
<1> QED BY <1>4, <1>5 DEF Receive

LEMMA InitDescends == Init => ListsDescend
<1> SUFFICES ASSUME Init, NEW c \in Clients
             PROVE  Descends(blocks[c], latestBlockHeight[c]) /\ Len(blocks[c]) <= Larger(KeepBlocks, RecentBlocks)
  BY DEF ListsDescend
<1>1. blocks[c] = <<>>
  BY DEF Init
<1> QED BY <1>1, KeepBlocksAssumption, WsAssumption DEF Descends, Larger

LEMMA StepDescends == Types /\ ListsDescend /\ [Next]_vars => ListsDescend'
<1> SUFFICES ASSUME Types, ListsDescend, [Next]_vars PROVE ListsDescend'
  OBVIOUS
<1>1. CASE UNCHANGED <<blocks, latestBlockHeight>>
  BY <1>1 DEF ListsDescend
<1>2. ASSUME NEW c \in Clients, Receive(c)
      PROVE  ListsDescend'
  BY <1>2, ReceiveDescends
<1>3. ASSUME NEW c \in Clients, PageStep(c)
      PROVE  UNCHANGED <<blocks, latestBlockHeight>>
  BY <1>3 DEF PageStep, Want, StartTrackTransaction, StopTrackingTransaction, clientVars
<1> QED BY <1>1, <1>2, <1>3 DEF Next, Connects, GoesOffline, clientVars, vars

(* The dashboard's list never comes out in chaotic order and stays short,    *)
(* whatever snapshots, refreshes and broadcasts overlap, for any number of   *)
(* pages, blocks and reorganisations.                                        *)
THEOREM ListsAreOrdered == Spec => []ListDescends
<1>1. ListsDescend => ListDescends
  BY DEF ListsDescend, ListDescends, Descends
<1> QED BY <1>1, DashboardTypes, InitDescends, StepDescends, PTL DEF Spec

-----------------------------------------------------------------------------
(* The blocks written to a socket. *)

IsBlock(m) == m.type = "block"
Below(s, n) == \A i \in DOMAIN s : IsBlock(s[i]) => Height(s[i].block) < n
Climbs(s) == \A i, j \in DOMAIN s : i < j /\ IsBlock(s[i]) /\ IsBlock(s[j]) => Height(s[i].block) < Height(s[j].block)

(* The block of the running job is above lastBroadcastHeight until that is    *)
(* assigned, and above all that was written until it is written itself.       *)
JobIsNews ==
  /\ job.at = "block" => Height(Head(broadcastQueue)) > lastBroadcastHeight
  /\ job.at = "pool" => /\ Height(Head(broadcastQueue)) = lastBroadcastHeight
                        /\ \A c \in Clients : Below(wire[c], lastBroadcastHeight)
WiresClimb == \A c \in Clients : Climbs(wire[c]) /\ Below(wire[c], lastBroadcastHeight + 1)
StreamInv == JobIsNews /\ WiresClimb

Messages == BlockMsg \cup BlocksMsg

LEMMA ClimbsOn ==
  ASSUME NEW s \in Seq(Messages), NEW b \in Blocks, NEW x \in Optional(Txs),
         Climbs(s), Below(s, Height(b))
  PROVE  LET t == Append(s, [type |-> "block", block |-> b, txConfirmed |-> x])
         IN Climbs(t) /\ Below(t, Height(b) + 1)
<1> DEFINE m == [type |-> "block", block |-> b, txConfirmed |-> x]
           t == Append(s, m)
<1>1. /\ DOMAIN t = 1..(Len(s) + 1) /\ Len(s) \in Nat /\ DOMAIN s = 1..Len(s)
      /\ t[Len(s) + 1] = m
      /\ \A i \in 1..Len(s) : t[i] = s[i]
  OBVIOUS
<1>2. m.block = b /\ Height(b) \in Nat
  BY HeightTypes
<1>3. \A i \in 1..Len(s) : IsBlock(s[i]) => Height(s[i].block) \in Nat
  BY HeightTypes DEF Messages, BlockMsg, BlocksMsg, IsBlock
<1> HIDE DEF m, t
<1>4. Climbs(t)
  <2> SUFFICES ASSUME NEW i \in 1..(Len(s) + 1), NEW j \in 1..(Len(s) + 1), i < j, IsBlock(t[i]), IsBlock(t[j])
               PROVE  Height(t[i].block) < Height(t[j].block)
    BY <1>1 DEF Climbs
  <2>1. i \in 1..Len(s) /\ t[i] = s[i] /\ Height(s[i].block) < Height(b)
    BY <1>1 DEF Below
  <2>2. CASE j \in 1..Len(s)
    BY <1>1, <2>1, <2>2 DEF Climbs
  <2>3. CASE j = Len(s) + 1
    BY <1>1, <1>2, <2>1, <2>3
  <2> QED BY <1>1, <2>2, <2>3
<1>5. Below(t, Height(b) + 1)
  <2> SUFFICES ASSUME NEW i \in 1..(Len(s) + 1), IsBlock(t[i])
               PROVE  Height(t[i].block) < Height(b) + 1
    BY <1>1 DEF Below
  <2>1. CASE i \in 1..Len(s)
    <3>1. t[i] = s[i] /\ Height(s[i].block) < Height(b) /\ Height(s[i].block) \in Nat
      BY <1>1, <1>3, <2>1 DEF Below
    <3> QED BY <1>2, <3>1
  <2>2. CASE i = Len(s) + 1
    BY <1>1, <1>2, <2>2
  <2> QED BY <1>1, <2>1, <2>2
<1> QED BY <1>4, <1>5 DEF m, t

LEMMA ListChangesNothing ==
  ASSUME NEW s \in Seq(Messages), NEW list \in Lists
  PROVE  LET t == Append(s, [type |-> "blocks", blocks |-> list])
         IN (Climbs(s) => Climbs(t)) /\ \A n : Below(s, n) => Below(t, n)
<1> DEFINE m == [type |-> "blocks", blocks |-> list]
           t == Append(s, m)
<1>1. /\ DOMAIN t = 1..(Len(s) + 1) /\ Len(s) \in Nat /\ DOMAIN s = 1..Len(s)
      /\ t[Len(s) + 1] = m /\ ~IsBlock(m)
      /\ \A i \in 1..Len(s) : t[i] = s[i]
  BY DEF IsBlock
<1> HIDE DEF m, t
<1>2. \A i \in 1..(Len(s) + 1) : IsBlock(t[i]) => i \in 1..Len(s)
  BY <1>1
<1> QED BY <1>1, <1>2 DEF Climbs, Below, m, t

LEMMA TailClimbs ==
  ASSUME NEW s \in Seq(Messages), s # <<>>
  PROVE  (Climbs(s) => Climbs(Tail(s))) /\ \A n : Below(s, n) => Below(Tail(s), n)
<1>1. /\ DOMAIN Tail(s) = 1..(Len(s) - 1) /\ Len(s) \in Nat /\ DOMAIN s = 1..Len(s)
      /\ \A i \in 1..(Len(s) - 1) : Tail(s)[i] = s[i + 1]
  OBVIOUS
<1>2. \A i \in 1..(Len(s) - 1) : i + 1 \in 1..Len(s)
  BY <1>1
<1> QED BY <1>1, <1>2 DEF Climbs, Below

LEMMA RaisedBelow ==
  ASSUME Types, WiresClimb, NEW n \in Int, n > lastBroadcastHeight, NEW c \in Clients
  PROVE  Below(wire[c], n)
<1> SUFFICES ASSUME NEW i \in DOMAIN wire[c], IsBlock(wire[c][i])
             PROVE  Height(wire[c][i].block) < n
  BY DEF Below
<1>1. wire[c][i] \in BlockMsg \cup BlocksMsg /\ lastBroadcastHeight \in Int
  BY DEF Types, SocketTypes, ServerTypes
<1>2. Height(wire[c][i].block) \in Nat
  BY <1>1, HeightTypes DEF BlockMsg, BlocksMsg, IsBlock
<1>3. Height(wire[c][i].block) < lastBroadcastHeight + 1
  BY DEF WiresClimb, Below
<1> QED BY <1>1, <1>2, <1>3

(* A step that leaves the running job alone and puts no block on a socket. *)
LEMMA SocketStep ==
  ASSUME StreamInv, UNCHANGED <<job, lastBroadcastHeight>>,
         job.at # "idle" => Head(broadcastQueue') = Head(broadcastQueue),
         \A c \in Clients : /\ Climbs(wire[c]) => Climbs(wire'[c])
                            /\ \A n : Below(wire[c], n) => Below(wire'[c], n)
  PROVE  StreamInv'
<1>1. JobIsNews'
  BY DEF StreamInv, JobIsNews
<1>2. WiresClimb'
  BY DEF StreamInv, WiresClimb
<1> QED BY <1>1, <1>2 DEF StreamInv

LEMMA QueueStepClimbs ==
  ASSUME Types, StreamInv, QueueStep
  PROVE  StreamInv'
<1>1. CASE BroadcastDrops
  BY <1>1 DEF BroadcastDrops, Idle, StreamInv, JobIsNews, WiresClimb
<1>2. CASE BroadcastStarts
  BY <1>2 DEF BroadcastStarts, Idle, StreamInv, JobIsNews, WiresClimb
<1>3. ASSUME NEW mined \in SUBSET Txs, BlockFetched(mined)
      PROVE  StreamInv'
  <2>1. /\ Head(broadcastQueue) \in Blocks /\ Height(Head(broadcastQueue)) > lastBroadcastHeight
        /\ lastBroadcastHeight' = Height(Head(broadcastQueue)) /\ job'.at = "pool"
        /\ UNCHANGED <<broadcastQueue, wire>>
    BY <1>3 DEF BlockFetched, Types, ServerTypes, JobHasBlock, StreamInv, JobIsNews
  <2>2. lastBroadcastHeight' \in Int /\ lastBroadcastHeight \in Int
        /\ lastBroadcastHeight' > lastBroadcastHeight /\ lastBroadcastHeight' + 1 > lastBroadcastHeight
    BY <2>1, HeightTypes DEF Types, ServerTypes
  <2>3. \A c \in Clients : Below(wire[c], lastBroadcastHeight') /\ Below(wire[c], lastBroadcastHeight' + 1)
    BY <2>2, RaisedBelow DEF StreamInv
  <2> QED BY <2>1, <2>3 DEF StreamInv, JobIsNews, WiresClimb
<1>4. CASE BroadcastBlock
  <2>1. /\ Height(Head(broadcastQueue)) = lastBroadcastHeight
        /\ lastBroadcastHeight' = lastBroadcastHeight /\ job'.at = "idle"
        /\ \A c \in Clients : Below(wire[c], lastBroadcastHeight)
    BY <1>4 DEF BroadcastBlock, Idle, StreamInv, JobIsNews
  <2>2. ASSUME NEW c \in Clients
        PROVE  Climbs(wire'[c]) /\ Below(wire'[c], lastBroadcastHeight + 1)
    <3>1. Climbs(wire[c]) /\ Below(wire[c], lastBroadcastHeight + 1) /\ wire[c] \in Seq(Messages)
      BY DEF StreamInv, WiresClimb, Types, SocketTypes, Messages
    <3>2. CASE wire'[c] = wire[c]
      BY <3>1, <3>2
    <3>3. ASSUME NEW x \in Optional(Txs),
                 wire'[c] = Append(wire[c], [type |-> "block", block |-> Head(broadcastQueue), txConfirmed |-> x])
          PROVE  Climbs(wire'[c]) /\ Below(wire'[c], lastBroadcastHeight + 1)
      <4>1. Head(broadcastQueue) \in Blocks
        BY <1>4, BroadcastBlockWrites
      <4> QED BY <2>1, <3>1, <3>3, <4>1, ClimbsOn
    <3> QED BY <1>4, <3>2, <3>3, BroadcastBlockWrites
  <2> QED BY <2>1, <2>2 DEF StreamInv, JobIsNews, WiresClimb
<1> QED BY <1>1, <1>2, <1>3, <1>4 DEF QueueStep

LEMMA EmitClimbs ==
  ASSUME Types, StreamInv, Emit
  PROVE  StreamInv'
<1>1. job.at # "idle" => Head(broadcastQueue') = Head(broadcastQueue)
  <2> SUFFICES ASSUME job.at # "idle" PROVE Head(broadcastQueue') = Head(broadcastQueue)
    OBVIOUS
  <2>1. broadcastQueue \in Seq(Blocks) /\ broadcastQueue # <<>>
    BY DEF Types, ServerTypes, JobHasBlock
  <2>2. \A x : Head(Append(broadcastQueue, x)) = Head(broadcastQueue)
    BY <2>1
  <2> QED BY <2>2 DEF Emit
<1> QED BY <1>1, SocketStep DEF Emit

LEMMA SnapStepClimbs ==
  ASSUME Types, StreamInv, NEW c \in Clients, SnapStep(c)
  PROVE  StreamInv'
<1>1. /\ UNCHANGED <<broadcastQueue, job, lastBroadcastHeight>>
      /\ wire \in [Clients -> Seq(Messages)]
  BY SnapStepEffects DEF queueVars, Types, SocketTypes, Messages
<1>2. CASE wire' = wire
  BY <1>1, <1>2, SocketStep
<1>3. ASSUME NEW list \in Lists, wire' = [wire EXCEPT ![c] = Append(@, [type |-> "blocks", blocks |-> list])]
      PROVE  StreamInv'
  <2>1. \A d \in Clients : /\ Climbs(wire[d]) => Climbs(wire'[d])
                           /\ \A n : Below(wire[d], n) => Below(wire'[d], n)
    BY <1>1, <1>3, ListChangesNothing
  <2> QED BY <1>1, <2>1, SocketStep
<1> QED BY <1>2, <1>3, SnapStepEffects

LEMMA SocketClimbs ==
  ASSUME Types, StreamInv, NEW c \in Clients, GoesOffline(c) \/ Receive(c)
  PROVE  StreamInv'
<1>1. /\ UNCHANGED <<broadcastQueue, job, lastBroadcastHeight>>
      /\ wire \in [Clients -> Seq(Messages)]
  BY DEF GoesOffline, Cleanup, Receive, queueVars, Types, SocketTypes, Messages
<1>2. CASE GoesOffline(c)
  <2>1. wire' = [wire EXCEPT ![c] = <<>>]
    BY <1>2 DEF GoesOffline, Cleanup
  <2>2. Climbs(<<>>) /\ \A n : Below(<<>>, n)
    BY DEF Climbs, Below
  <2> QED BY <1>1, <2>1, <2>2, SocketStep
<1>3. CASE Receive(c)
  <2>1. wire' = [wire EXCEPT ![c] = Tail(@)] /\ wire[c] # <<>>
    BY <1>3, ReceiveBlocksEffects, ReceiveBlockEffects DEF Receive
  <2>2. \A d \in Clients : /\ Climbs(wire[d]) => Climbs(wire'[d])
                           /\ \A n : Below(wire[d], n) => Below(wire'[d], n)
    BY <1>1, <2>1, TailClimbs
  <2> QED BY <1>1, <2>2, SocketStep
<1> QED BY <1>2, <1>3

LEMMA StepClimbs == Types /\ StreamInv /\ [Next]_vars => StreamInv'
<1> SUFFICES ASSUME Types, StreamInv, [Next]_vars PROVE StreamInv'
  OBVIOUS
<1>1. CASE UNCHANGED <<broadcastQueue, job, lastBroadcastHeight, wire>>
  BY <1>1, SocketStep
<1>2. CASE ServerStep
  BY <1>1, <1>2, EmitClimbs, QueueStepClimbs DEF ServerStep, ApiStep, queueVars
<1>3. ASSUME NEW c \in Clients, SnapStep(c) \/ GoesOffline(c) \/ Receive(c)
      PROVE  StreamInv'
  BY <1>3, SnapStepClimbs, SocketClimbs
<1>4. ASSUME NEW c \in Clients, Message(c) \/ Connects(c) \/ PageStep(c)
      PROVE  UNCHANGED <<broadcastQueue, job, lastBroadcastHeight, wire>>
  BY <1>4 DEF Message, Connects, Connection, PageStep, queueVars
<1>5. CASE Move /\ UNCHANGED <<wsVars, clientVars>>
  BY <1>1, <1>5 DEF wsVars, queueVars
<1>6. CASE UNCHANGED vars
  BY <1>1, <1>6 DEF vars, wsVars, queueVars
<1> QED BY <1>1, <1>2, <1>3, <1>4, <1>5, <1>6 DEF Next

LEMMA InitClimbs == Init => StreamInv
  BY DEF Init, WsInit, Idle, StreamInv, JobIsNews, WiresClimb, Climbs, Below

LEMMA StreamInvAscends == Types /\ StreamInv => BroadcastsAscend
<1> SUFFICES ASSUME Types, StreamInv, NEW c \in Clients
             PROVE  /\ \A i, j \in DOMAIN wire[c] :
                         i < j /\ wire[c][i].type = "block" /\ wire[c][j].type = "block"
                           => Height(wire[c][i].block) < Height(wire[c][j].block)
                    /\ \A h \in HeightsOn(wire[c]) : h <= lastBroadcastHeight
  BY DEF BroadcastsAscend
<1>1. ASSUME NEW i \in DOMAIN wire[c], wire[c][i].type = "block"
      PROVE  Height(wire[c][i].block) <= lastBroadcastHeight
  <2>1. wire[c][i] \in BlockMsg \cup BlocksMsg /\ lastBroadcastHeight \in Int
    BY DEF Types, SocketTypes, ServerTypes
  <2>2. Height(wire[c][i].block) \in Nat
    BY <1>1, <2>1, HeightTypes DEF BlockMsg, BlocksMsg
  <2>3. Height(wire[c][i].block) < lastBroadcastHeight + 1
    BY <1>1 DEF StreamInv, WiresClimb, Below, IsBlock
  <2> QED BY <2>1, <2>2, <2>3
<1> QED BY <1>1 DEF StreamInv, WiresClimb, Climbs, IsBlock, HeightsOn

(* The blocks of a socket climb, for any number of pages, reorganisations    *)
(* and failed requests (broadcastQueue, broadcastNewBlock): what is compared *)
(* before the requests of a job still holds when it writes, because no other *)
(* job runs meanwhile.                                                       *)
THEOREM BroadcastsClimb == Spec => []BroadcastsAscend
<1> QED BY DashboardTypes, InitClimbs, StepClimbs, StreamInvAscends, PTL DEF Spec

(***************************************************************************)
(* The subscription of a transaction page (startTrackTransaction(),        *)
(* handleResponse(), trackedTxPayload()): a page that believes to be       *)
(* tracking is tracked, for any number of pages, transactions and blocks.  *)
(***************************************************************************)
IsTrack(m) == m.type = "track-tx"

(* The last track-tx under way asks for t. *)
AsksFor(u, t) ==
  \E i \in DOMAIN u : /\ IsTrack(u[i]) /\ u[i].tx = t
                      /\ \A j \in DOMAIN u : j > i => ~IsTrack(u[j])
Quiet(u) == \A i \in DOMAIN u : ~IsTrack(u[i])
Confirms(w) == \E i \in DOMAIN w : IsBlock(w[i]) /\ w[i].txConfirmed # None

(* TrackingAgrees as it is kept: once no request is under way the server     *)
(* knows the txid or has confirmed it, and what is under way ends in it.     *)
Followed(u, w, tracked, t) == AsksFor(u, t) \/ (Quiet(u) /\ (tracked = t \/ Confirms(w)))

ClosedIsForgotten == \A c \in Clients : c \notin open => trackingTx[c] = None /\ wire[c] = <<>>
PagesFollowed ==
  \A c \in Clients : isTrackingTx[c] /\ ~goneOffline[c] =>
    Followed(uplink[c], wire[c], trackingTx[c], trackingTxId[c])
TrackInv == ClosedIsForgotten /\ PagesFollowed

-----------------------------------------------------------------------------
LEMMA QuietAppended ==
  ASSUME NEW u \in Seq(ClientMsg), NEW ms \in Seq(ClientMsg), Quiet(ms)
  PROVE  /\ Quiet(u) => Quiet(u \o ms)
         /\ \A t : AsksFor(u, t) => AsksFor(u \o ms, t)
<1> DEFINE v == u \o ms
<1>1. /\ DOMAIN v = 1..(Len(u) + Len(ms)) /\ DOMAIN u = 1..Len(u) /\ DOMAIN ms = 1..Len(ms)
      /\ Len(u) \in Nat /\ Len(ms) \in Nat
      /\ \A i \in 1..Len(u) : v[i] = u[i]
      /\ \A i \in 1..(Len(u) + Len(ms)) : i > Len(u) => v[i] = ms[i - Len(u)] /\ i - Len(u) \in 1..Len(ms)
  OBVIOUS
<1> HIDE DEF v
<1>2. \A i \in DOMAIN v : i \in DOMAIN u \/ ~IsTrack(v[i])
  BY <1>1 DEF Quiet
<1>3. Quiet(u) => Quiet(v)
  BY <1>1, <1>2 DEF Quiet
<1>4. ASSUME NEW t, AsksFor(u, t) PROVE AsksFor(v, t)
  <2> PICK i \in DOMAIN u : /\ IsTrack(u[i]) /\ u[i].tx = t
                            /\ \A j \in DOMAIN u : j > i => ~IsTrack(u[j])
    BY <1>4 DEF AsksFor
  <2>1. i \in DOMAIN v /\ v[i] = u[i]
    BY <1>1
  <2>2. \A j \in DOMAIN v : j > i => ~IsTrack(v[j])
    BY <1>1, <1>2
  <2> QED BY <2>1, <2>2 DEF AsksFor
<1> QED BY <1>3, <1>4 DEF v

LEMMA AskAppended ==
  ASSUME NEW u \in Seq(ClientMsg), NEW ms \in Seq(ClientMsg), NEW t, AsksFor(ms, t)
  PROVE  AsksFor(u \o ms, t)
<1> DEFINE v == u \o ms
<1>1. /\ DOMAIN v = 1..(Len(u) + Len(ms)) /\ DOMAIN ms = 1..Len(ms)
      /\ Len(u) \in Nat /\ Len(ms) \in Nat
      /\ \A i \in 1..Len(ms) : v[Len(u) + i] = ms[i]
  OBVIOUS
<1> HIDE DEF v
<1> PICK i \in DOMAIN ms : /\ IsTrack(ms[i]) /\ ms[i].tx = t
                           /\ \A j \in DOMAIN ms : j > i => ~IsTrack(ms[j])
  BY DEF AsksFor
<1>2. Len(u) + i \in DOMAIN v /\ v[Len(u) + i] = ms[i]
  BY <1>1
<1>3. ASSUME NEW j \in DOMAIN v, j > Len(u) + i
      PROVE  ~IsTrack(v[j])
  <2>1. j - Len(u) \in DOMAIN ms /\ j - Len(u) > i /\ v[j] = ms[j - Len(u)]
    <3>1. j - Len(u) \in 1..Len(ms) /\ j = Len(u) + (j - Len(u))
      BY <1>1, <1>3
    <3> QED BY <1>1, <1>3, <3>1
  <2> QED BY <2>1
<1>4. AsksFor(v, t)
  BY <1>2, <1>3 DEF AsksFor
<1> QED BY <1>4 DEF v

(* The requests of a page. *)
LEMMA Requests ==
  /\ Quiet(<<>>) /\ Quiet(Wanted) /\ Quiet(Refresh)
  /\ \A t : AsksFor(Tracked(t), t)
  BY DEF Quiet, AsksFor, IsTrack, Wanted, Refresh, Tracked

(* The server handles the oldest request. *)
LEMMA AnswersHead ==
  ASSUME NEW u \in Seq(ClientMsg), u # <<>>, NEW w, NEW tracked, NEW t, Followed(u, w, tracked, t)
  PROVE  Followed(Tail(u), w, IF IsTrack(Head(u)) THEN Head(u).tx ELSE tracked, t)
<1> DEFINE v == Tail(u)
<1>1. /\ DOMAIN u = 1..Len(u) /\ Len(u) \in Nat /\ Len(u) > 0 /\ Head(u) = u[1]
      /\ DOMAIN v = 1..(Len(u) - 1)
      /\ \A i \in 1..(Len(u) - 1) : v[i] = u[i + 1] /\ i + 1 \in 1..Len(u) /\ i + 1 > 1
  OBVIOUS
<1> HIDE DEF v
<1>2. CASE Quiet(u) /\ (tracked = t \/ Confirms(w))
  <2>1. Quiet(v) /\ ~IsTrack(Head(u))
    BY <1>1, <1>2 DEF Quiet
  <2> QED BY <1>2, <2>1 DEF Followed, v
<1>3. CASE AsksFor(u, t)
  <2> PICK i \in DOMAIN u : /\ IsTrack(u[i]) /\ u[i].tx = t
                            /\ \A j \in DOMAIN u : j > i => ~IsTrack(u[j])
    BY <1>3 DEF AsksFor
  <2>1. CASE i = 1
    <3>1. Quiet(v)
      BY <1>1, <2>1 DEF Quiet
    <3> QED BY <1>1, <2>1, <3>1 DEF Followed, v
  <2>2. CASE i # 1
    <3>1. i - 1 \in DOMAIN v /\ v[i - 1] = u[i]
      <4>1. i - 1 \in 1..(Len(u) - 1) /\ (i - 1) + 1 = i
        BY <1>1, <2>2
      <4> QED BY <1>1, <4>1
    <3>2. \A j \in DOMAIN v : j > i - 1 => ~IsTrack(v[j])
      <4> SUFFICES ASSUME NEW j \in DOMAIN v, j > i - 1 PROVE ~IsTrack(v[j])
        OBVIOUS
      <4>1. j + 1 \in DOMAIN u /\ j + 1 > i /\ v[j] = u[j + 1]
        BY <1>1
      <4> QED BY <4>1
    <3>3. AsksFor(v, t)
      BY <3>1, <3>2 DEF AsksFor
    <3> QED BY <3>3 DEF Followed, v
  <2> QED BY <2>1, <2>2
<1> QED BY <1>2, <1>3 DEF Followed

(* A message without a confirmation changes nothing, in front or behind. *)
LEMMA ConfirmsTail ==
  ASSUME NEW w \in Seq(Messages), w # <<>>, ~(IsBlock(Head(w)) /\ Head(w).txConfirmed # None), Confirms(w)
  PROVE  Confirms(Tail(w))
<1> PICK i \in DOMAIN w : IsBlock(w[i]) /\ w[i].txConfirmed # None
  BY DEF Confirms
<1>1. i # 1
  BY DEF IsBlock
<1>2. i - 1 \in DOMAIN Tail(w) /\ Tail(w)[i - 1] = w[i]
  BY <1>1
<1> QED BY <1>2 DEF Confirms

LEMMA ConfirmsAppended ==
  ASSUME NEW w \in Seq(Messages), NEW m
  PROVE  /\ Confirms(w) => Confirms(Append(w, m))
         /\ IsBlock(m) /\ m.txConfirmed # None => Confirms(Append(w, m))
<1> DEFINE v == Append(w, m)
<1>1. /\ DOMAIN v = 1..(Len(w) + 1) /\ DOMAIN w = 1..Len(w) /\ Len(w) \in Nat
      /\ v[Len(w) + 1] = m
      /\ \A i \in 1..Len(w) : v[i] = w[i]
  OBVIOUS
<1> HIDE DEF v
<1>2. (Confirms(w) => Confirms(v)) /\ (IsBlock(m) /\ m.txConfirmed # None => Confirms(v))
  BY <1>1 DEF Confirms
<1> QED BY <1>2 DEF v

-----------------------------------------------------------------------------
(* A step that touches at most what belongs to one page. *)
LEMMA OnePage ==
  ASSUME TrackInv, NEW c \in Clients,
         \A d \in Clients \ {c} :
           /\ d \in open' <=> d \in open
           /\ trackingTx'[d] = trackingTx[d] /\ wire'[d] = wire[d] /\ uplink'[d] = uplink[d]
           /\ isTrackingTx'[d] = isTrackingTx[d] /\ trackingTxId'[d] = trackingTxId[d]
           /\ goneOffline'[d] = goneOffline[d],
         c \notin open' => trackingTx'[c] = None /\ wire'[c] = <<>>,
         isTrackingTx'[c] /\ ~goneOffline'[c] =>
           Followed(uplink'[c], wire'[c], trackingTx'[c], trackingTxId'[c])
  PROVE  TrackInv'
<1>1. ASSUME NEW d \in Clients
      PROVE  /\ d \notin open' => trackingTx'[d] = None /\ wire'[d] = <<>>
             /\ isTrackingTx'[d] /\ ~goneOffline'[d] =>
                  Followed(uplink'[d], wire'[d], trackingTx'[d], trackingTxId'[d])
  <2>1. CASE d = c
    BY <2>1
  <2>2. CASE d # c
    BY <2>2 DEF TrackInv, ClosedIsForgotten, PagesFollowed
  <2> QED BY <2>1, <2>2
<1> QED BY <1>1 DEF TrackInv, ClosedIsForgotten, PagesFollowed

LEMMA MessageTracks ==
  ASSUME Types, TrackInv, NEW c \in Clients, Message(c), UNCHANGED clientVars
  PROVE  TrackInv'
<1>1. /\ uplink[c] \in Seq(ClientMsg) /\ uplink[c] # <<>> /\ c \in open
      /\ UNCHANGED <<open, wire, isTrackingTx, trackingTxId, goneOffline>>
      /\ uplink' = [uplink EXCEPT ![c] = Tail(@)]
  BY DEF Message, Types, SocketTypes, clientVars
<1>2. /\ trackingTx'[c] = IF IsTrack(Head(uplink[c])) THEN Head(uplink[c]).tx ELSE trackingTx[c]
      /\ \A d \in Clients \ {c} : trackingTx'[d] = trackingTx[d]
  BY DEF Message, IsTrack, Types, SocketTypes
<1>3. uplink'[c] = Tail(uplink[c]) /\ \A d \in Clients \ {c} : uplink'[d] = uplink[d]
  BY <1>1 DEF Types, SocketTypes
<1>4. isTrackingTx'[c] /\ ~goneOffline'[c] =>
        Followed(uplink'[c], wire'[c], trackingTx'[c], trackingTxId'[c])
  BY <1>1, <1>2, <1>3, AnswersHead DEF TrackInv, PagesFollowed
<1> QED BY <1>1, <1>2, <1>3, <1>4, OnePage

LEMMA SocketTracks ==
  ASSUME Types, TrackInv, NEW c \in Clients, Connects(c) \/ GoesOffline(c)
  PROVE  TrackInv'
<1>1. CASE Connects(c)
  <2>1. /\ c \notin open /\ open' = open \cup {c}
        /\ UNCHANGED <<wire, isTrackingTx, trackingTxId, goneOffline>>
        /\ trackingTx' = [trackingTx EXCEPT ![c] = None]
        /\ uplink' = IF goneOffline[c] THEN [uplink EXCEPT ![c] = Wanted] ELSE uplink
    BY <1>1 DEF Connects, Connection, clientVars
  <2>2. /\ trackingTx'[c] = None /\ \A d \in Clients \ {c} : trackingTx'[d] = trackingTx[d]
        /\ ~goneOffline[c] => uplink'[c] = uplink[c]
        /\ \A d \in Clients \ {c} : uplink'[d] = uplink[d]
    BY <2>1 DEF Types, SocketTypes
  <2>3. trackingTx[c] = None
    BY <2>1 DEF TrackInv, ClosedIsForgotten
  <2>4. isTrackingTx'[c] /\ ~goneOffline'[c] =>
          Followed(uplink'[c], wire'[c], trackingTx'[c], trackingTxId'[c])
    BY <2>1, <2>2, <2>3 DEF TrackInv, PagesFollowed
  <2> QED BY <2>1, <2>2, <2>4, OnePage
<1>2. CASE GoesOffline(c)
  <2>1. /\ open' = open \ {c}
        /\ UNCHANGED <<isTrackingTx, trackingTxId>>
        /\ trackingTx' = [trackingTx EXCEPT ![c] = None]
        /\ wire' = [wire EXCEPT ![c] = <<>>]
        /\ uplink' = [uplink EXCEPT ![c] = <<>>]
        /\ goneOffline' = [goneOffline EXCEPT ![c] = TRUE]
    BY <1>2 DEF GoesOffline, Cleanup
  <2>2. /\ trackingTx'[c] = None /\ wire'[c] = <<>> /\ goneOffline'[c]
        /\ \A d \in Clients \ {c} :
             /\ trackingTx'[d] = trackingTx[d] /\ wire'[d] = wire[d] /\ uplink'[d] = uplink[d]
             /\ goneOffline'[d] = goneOffline[d]
    BY <2>1 DEF Types, SocketTypes, PageTypes
  <2> QED BY <2>1, <2>2, OnePage
<1> QED BY <1>1, <1>2

LEMMA PageTracks ==
  ASSUME Types, TrackInv, NEW c \in Clients, PageStep(c)
  PROVE  TrackInv'
<1>1. UNCHANGED <<open, trackingTx, wire, goneOffline>> /\ uplink[c] \in Seq(ClientMsg)
  BY DEF PageStep, Want, StartTrackTransaction, StopTrackingTransaction, clientVars, Types, SocketTypes
<1>2. ClosedIsForgotten'
  BY <1>1 DEF TrackInv, ClosedIsForgotten
<1>3. CASE Want(c)
  <2>1. /\ UNCHANGED <<isTrackingTx, trackingTxId>>
        /\ \A d \in Clients \ {c} : uplink'[d] = uplink[d]
        /\ ~goneOffline[c] => uplink'[c] = uplink[c] \o Wanted
    BY <1>3, RequestTypes, SendsTypes DEF Want, clientVars
  <2>2. isTrackingTx'[c] /\ ~goneOffline'[c] =>
          Followed(uplink'[c], wire'[c], trackingTx'[c], trackingTxId'[c])
    <3> SUFFICES ASSUME isTrackingTx'[c], ~goneOffline'[c]
                 PROVE  Followed(uplink'[c], wire'[c], trackingTx'[c], trackingTxId'[c])
      OBVIOUS
    <3>1. Followed(uplink[c], wire[c], trackingTx[c], trackingTxId[c])
      BY <1>1, <2>1 DEF TrackInv, PagesFollowed
    <3>2. /\ Quiet(uplink[c]) => Quiet(uplink'[c])
          /\ \A t : AsksFor(uplink[c], t) => AsksFor(uplink'[c], t)
      <4>1. Wanted \in Seq(ClientMsg) /\ Quiet(Wanted)
        BY Requests, RequestTypes
      <4> QED BY <1>1, <2>1, <4>1, QuietAppended
    <3> QED BY <1>1, <2>1, <3>1, <3>2 DEF Followed
  <2> QED BY <1>1, <1>2, <2>1, <2>2, OnePage DEF ClosedIsForgotten
<1>4. ASSUME NEW t \in Txs, StartTrackTransaction(c, t)
      PROVE  TrackInv'
  <2>1. Tracked(t) \in Seq(ClientMsg)
    BY RequestTypes DEF Optional
  <2>2. /\ \A d \in Clients \ {c} : uplink'[d] = uplink[d]
        /\ ~goneOffline[c] => uplink'[c] = uplink[c] \o Tracked(t)
    BY <1>4, <2>1, SendsTypes DEF StartTrackTransaction
  <2>3. /\ trackingTxId'[c] = t
        /\ \A d \in Clients \ {c} : isTrackingTx'[d] = isTrackingTx[d] /\ trackingTxId'[d] = trackingTxId[d]
    BY <1>4 DEF StartTrackTransaction, Types, PageTypes
  <2>4. ~goneOffline[c] => AsksFor(uplink'[c], t)
    <3>1. AsksFor(Tracked(t), t)
      BY Requests
    <3>2. AsksFor(uplink[c] \o Tracked(t), t)
      BY <1>1, <2>1, <3>1, AskAppended
    <3> QED BY <2>2, <3>2
  <2>5. isTrackingTx'[c] /\ ~goneOffline'[c] =>
          Followed(uplink'[c], wire'[c], trackingTx'[c], trackingTxId'[c])
    BY <1>1, <2>3, <2>4 DEF Followed
  <2> QED BY <1>1, <1>2, <2>2, <2>3, <2>5, OnePage DEF ClosedIsForgotten
<1>5. CASE StopTrackingTransaction(c)
  <2>1. Tracked(None) \in Seq(ClientMsg)
    BY RequestTypes DEF Optional
  <2>2. \A d \in Clients \ {c} : uplink'[d] = uplink[d]
    BY <1>5, <2>1, SendsTypes DEF StopTrackingTransaction
  <2>3. ~isTrackingTx'[c] /\ trackingTxId' = trackingTxId
        /\ \A d \in Clients \ {c} : isTrackingTx'[d] = isTrackingTx[d]
    BY <1>5 DEF StopTrackingTransaction, Types, PageTypes
  <2> QED BY <1>1, <1>2, <2>2, <2>3, OnePage DEF ClosedIsForgotten
<1> QED BY <1>3, <1>4, <1>5 DEF PageStep

(* What a message makes the page write: the resubscription ends in the      *)
(* track-tx of the page, if it still tracks.                                 *)
LEMMA ResubscriptionAsks ==
  ASSUME Types, NEW c \in Clients, NEW tracking \in BOOLEAN, NEW ms \in {<<>>, Refresh}
  PROVE  /\ ms \o Resubscription(c, tracking) \in Seq(ClientMsg)
         /\ goneOffline[c] /\ tracking => AsksFor(ms \o Resubscription(c, tracking), trackingTxId[c])
         /\ ~goneOffline[c] => Quiet(ms \o Resubscription(c, tracking))
<1>1. /\ ms \in Seq(ClientMsg) /\ Resubscription(c, tracking) \in Seq(ClientMsg)
      /\ trackingTxId[c] \in Optional(Txs)
  BY RequestTypes, ResubscriptionTypes DEF Types, PageTypes
<1>2. ms \o Resubscription(c, tracking) \in Seq(ClientMsg)
  BY <1>1, Joining
<1>3. ASSUME goneOffline[c], tracking
      PROVE  AsksFor(ms \o Resubscription(c, tracking), trackingTxId[c])
  <2>1. Resubscription(c, tracking) = Wanted \o Tracked(trackingTxId[c])
    BY <1>3 DEF Resubscription
  <2>2. AsksFor(Wanted \o Tracked(trackingTxId[c]), trackingTxId[c])
    BY <1>1, AskAppended, Requests, RequestTypes
  <2> QED BY <1>1, <2>1, <2>2, AskAppended
<1>4. ASSUME ~goneOffline[c]
      PROVE  Quiet(ms \o Resubscription(c, tracking))
  <2>1. Resubscription(c, tracking) = <<>>
    BY <1>4 DEF Resubscription
  <2> QED BY <1>1, <2>1, QuietAppended, Requests
<1> QED BY <1>2, <1>3, <1>4

LEMMA ReceiveTracks ==
  ASSUME Types, TrackInv, NEW c \in Clients, Receive(c)
  PROVE  TrackInv'
<1> DEFINE head == Head(wire[c])
           confirming == IsBlock(head) /\ head.txConfirmed # None
           tracking == isTrackingTx[c] /\ ~confirming
<1>1. /\ UNCHANGED <<trackingTxId, open, trackingTx>>
      /\ wire' = [wire EXCEPT ![c] = Tail(@)]
      /\ goneOffline' = [goneOffline EXCEPT ![c] = FALSE]
      /\ wire \in [Clients -> Seq(Messages)] /\ uplink[c] \in Seq(ClientMsg)
      /\ goneOffline \in [Clients -> BOOLEAN] /\ isTrackingTx \in [Clients -> BOOLEAN]
  BY DEF Receive, Types, SocketTypes, PageTypes, Messages
<1>2. /\ wire[c] # <<>>
      /\ isTrackingTx' = [isTrackingTx EXCEPT ![c] = tracking]
      /\ \E ms \in {<<>>, Refresh} : Sends(c, ms \o Resubscription(c, tracking))
  <2>1. CASE ReceiveBlocks(c)
    <3>1. wire[c] # <<>> /\ ~confirming /\ isTrackingTx' = isTrackingTx /\ isTrackingTx[c] \in BOOLEAN
      BY <2>1, ReceiveBlocksEffects DEF IsBlock, Types, PageTypes
    <3>2. Sends(c, Resubscription(c, isTrackingTx[c]))
      BY <2>1, ReceiveBlocksEffects
    <3>3. tracking = isTrackingTx[c]
      BY <3>1
    <3>4. Resubscription(c, tracking) \in Seq(ClientMsg)
      BY <3>1, <3>3, ResubscriptionTypes
    <3> HIDE DEF tracking
    <3>5. <<>> \o Resubscription(c, tracking) = Resubscription(c, tracking)
      BY <3>4
    <3> QED BY <1>1, <3>1, <3>2, <3>3, <3>5
  <2>2. CASE ReceiveBlock(c)
    <3>1. wire[c] # <<>> /\ head \in BlockMsg
      BY <2>2, ReceiveBlockEffects
    <3>2. tracking = (isTrackingTx[c] /\ head.txConfirmed = None)
      BY <3>1 DEF IsBlock, BlockMsg
    <3> QED BY <2>2, <3>1, <3>2, ReceiveBlockEffects
  <2> QED BY <2>1, <2>2 DEF Receive
<1>3. tracking \in BOOLEAN
  BY <1>1
<1>4. tracking => isTrackingTx[c] /\ ~confirming
  OBVIOUS
<1>5. c \in open /\ wire[c] \in Seq(Messages)
  BY <1>1, <1>2 DEF TrackInv, ClosedIsForgotten
<1> HIDE DEF head, confirming, tracking
<1>6. PICK ms \in {<<>>, Refresh} : Sends(c, ms \o Resubscription(c, tracking))
  BY <1>2
<1>7. ms \o Resubscription(c, tracking) \in Seq(ClientMsg)
  BY <1>3, ResubscriptionAsks
<1>8. /\ \A d \in Clients \ {c} : uplink'[d] = uplink[d]
      /\ uplink'[c] = uplink[c] \o (ms \o Resubscription(c, tracking))
  BY <1>5, <1>6, <1>7, SendsTypes
<1>9. ASSUME tracking
      PROVE  Followed(uplink'[c], Tail(wire[c]), trackingTx[c], trackingTxId[c])
  <2>1. CASE goneOffline[c]
    BY <1>1, <1>3, <1>7, <1>8, <1>9, <2>1, ResubscriptionAsks, AskAppended DEF Followed
  <2>2. CASE ~goneOffline[c]
    <3>1. Quiet(ms \o Resubscription(c, tracking))
      BY <1>3, <2>2, ResubscriptionAsks
    <3>2. Followed(uplink[c], wire[c], trackingTx[c], trackingTxId[c])
      BY <1>4, <1>9, <2>2 DEF TrackInv, PagesFollowed
    <3>3. Confirms(wire[c]) => Confirms(Tail(wire[c]))
      BY <1>2, <1>4, <1>5, <1>9, ConfirmsTail DEF confirming, head
    <3> QED BY <1>1, <1>7, <1>8, <3>1, <3>2, <3>3, QuietAppended DEF Followed
  <2> QED BY <2>1, <2>2
<1>10. /\ isTrackingTx'[c] = tracking
       /\ \A d \in Clients \ {c} : isTrackingTx'[d] = isTrackingTx[d] /\ wire'[d] = wire[d]
                                   /\ goneOffline'[d] = goneOffline[d]
       /\ wire'[c] = Tail(wire[c])
  BY <1>1, <1>2
<1> QED BY <1>1, <1>5, <1>8, <1>9, <1>10, OnePage

-----------------------------------------------------------------------------
LEMMA BroadcastTracks ==
  ASSUME Types, TrackInv, BroadcastBlock, UNCHANGED <<open, uplink, clientVars>>
  PROVE  TrackInv'
<1>1. ASSUME NEW c \in Clients
      PROVE  /\ c \notin open' => trackingTx'[c] = None /\ wire'[c] = <<>>
             /\ isTrackingTx'[c] /\ ~goneOffline'[c] =>
                  Followed(uplink'[c], wire'[c], trackingTx'[c], trackingTxId'[c])
  <2>1. /\ c \notin open => trackingTx[c] = None /\ wire[c] = <<>>
        /\ isTrackingTx[c] /\ ~goneOffline[c] => Followed(uplink[c], wire[c], trackingTx[c], trackingTxId[c])
        /\ UNCHANGED <<isTrackingTx, goneOffline, trackingTxId, uplink, open>>
        /\ wire[c] \in Seq(Messages)
    BY DEF TrackInv, ClosedIsForgotten, PagesFollowed, clientVars, Types, SocketTypes, Messages
  <2>2. CASE c \notin open
    BY <2>1, <2>2 DEF BroadcastBlock
  <2>3. CASE c \in open
    <3> PICK confirmed \in Optional(Txs) :
          /\ wire'[c] = Append(wire[c], [type |-> "block", block |-> Head(broadcastQueue), txConfirmed |-> confirmed])
          /\ trackingTx'[c] = IF confirmed = None THEN trackingTx[c] ELSE None
      BY <2>3, BroadcastBlockWrites
    <3> DEFINE m == [type |-> "block", block |-> Head(broadcastQueue), txConfirmed |-> confirmed]
    <3>1. IsBlock(m) /\ m.txConfirmed = confirmed /\ wire'[c] = Append(wire[c], m)
      BY DEF IsBlock
    <3> HIDE DEF m
    <3>2. CASE confirmed = None
      BY <2>1, <2>3, <3>1, <3>2, ConfirmsAppended DEF Followed
    <3>3. CASE confirmed # None
      <4>1. Confirms(wire'[c])
        BY <2>1, <3>1, <3>3, ConfirmsAppended
      <4> QED BY <2>1, <2>3, <4>1 DEF Followed
    <3> QED BY <3>2, <3>3
  <2> QED BY <2>2, <2>3
<1> QED BY <1>1 DEF TrackInv, ClosedIsForgotten, PagesFollowed

LEMMA SnapTracks ==
  ASSUME Types, TrackInv, NEW c \in Clients, c \in open, SnapStep(c), UNCHANGED clientVars
  PROVE  TrackInv'
<1>1. /\ UNCHANGED <<open, trackingTx, uplink, isTrackingTx, trackingTxId, goneOffline>>
      /\ wire \in [Clients -> Seq(Messages)]
  BY SnapStepEffects DEF clientVars, Types, SocketTypes, Messages
<1>2. CASE wire' = wire
  BY <1>1, <1>2 DEF TrackInv, ClosedIsForgotten, PagesFollowed
<1>3. ASSUME NEW list \in Lists, wire' = [wire EXCEPT ![c] = Append(@, [type |-> "blocks", blocks |-> list])]
      PROVE  TrackInv'
  <2>1. /\ wire'[c] = Append(wire[c], [type |-> "blocks", blocks |-> list])
        /\ \A d \in Clients \ {c} : wire'[d] = wire[d]
    BY <1>1, <1>3
  <2>2. Confirms(wire[c]) => Confirms(wire'[c])
    BY <1>1, <2>1, ConfirmsAppended
  <2>3. isTrackingTx'[c] /\ ~goneOffline'[c] =>
          Followed(uplink'[c], wire'[c], trackingTx'[c], trackingTxId'[c])
    BY <1>1, <2>2 DEF TrackInv, PagesFollowed, Followed
  <2> QED BY <1>1, <2>1, <2>3, OnePage
<1> QED BY <1>2, <1>3, SnapStepEffects

(* Only an open socket has snapshots under way. *)
SnapsOfOpen == \A c \in Clients : c \notin open => snaps[c] = <<>>

LEMMA StepSnaps == Types /\ SnapsOfOpen /\ [Next]_vars => SnapsOfOpen'
<1> SUFFICES ASSUME Types, SnapsOfOpen, [Next]_vars PROVE SnapsOfOpen'
  OBVIOUS
<1>1. CASE UNCHANGED <<open, snaps>>
  BY <1>1 DEF SnapsOfOpen
<1>2. CASE ServerStep \/ (Move /\ UNCHANGED <<wsVars, clientVars>>)
  BY <1>1, <1>2 DEF ServerStep, Emit, ApiStep, QueueStep, wsVars
<1>3. ASSUME NEW c \in Clients, SnapStep(c)
      PROVE  SnapsOfOpen'
  <2>1. c \in open /\ open' = open
    BY <1>3 DEF SnapStep, SnapProgress, SnapsOfOpen
  <2>2. \A d \in Clients \ {c} : snaps'[d] = snaps[d]
    BY <1>3 DEF SnapStep, SnapProgress, SnapCount, SnapSend, SnapFails, Types, SocketTypes
  <2> QED BY <2>1, <2>2 DEF SnapsOfOpen
<1>4. ASSUME NEW c \in Clients, Message(c) \/ Connects(c) \/ GoesOffline(c)
      PROVE  SnapsOfOpen'
  BY <1>4 DEF Message, Connects, Connection, GoesOffline, Cleanup, SnapsOfOpen, Types, SocketTypes
<1>5. ASSUME NEW c \in Clients, PageStep(c) \/ Receive(c)
      PROVE  SnapsOfOpen'
  BY <1>1, <1>5 DEF PageStep, Receive
<1>6. CASE UNCHANGED vars
  BY <1>1, <1>6 DEF vars, wsVars
<1> QED BY <1>2, <1>3, <1>4, <1>5, <1>6 DEF Next

LEMMA InitTracks == Init => TrackInv /\ SnapsOfOpen
<1> SUFFICES ASSUME Init PROVE TrackInv /\ SnapsOfOpen
  OBVIOUS
<1>1. ClosedIsForgotten /\ SnapsOfOpen
  BY DEF Init, WsInit, ClosedIsForgotten, SnapsOfOpen
<1>2. PagesFollowed
  BY DEF Init, PagesFollowed
<1> QED BY <1>1, <1>2 DEF TrackInv

LEMMA StepTracks == Types /\ SnapsOfOpen /\ TrackInv /\ [Next]_vars => TrackInv'
<1> SUFFICES ASSUME Types, SnapsOfOpen, TrackInv, [Next]_vars PROVE TrackInv'
  OBVIOUS
<1>1. CASE UNCHANGED <<open, trackingTx, wire, uplink, isTrackingTx, trackingTxId, goneOffline>>
  BY <1>1 DEF TrackInv, ClosedIsForgotten, PagesFollowed
<1>2. CASE (Move /\ UNCHANGED <<wsVars, clientVars>>) \/ UNCHANGED vars
  BY <1>1, <1>2 DEF wsVars, clientVars, vars
<1>3. CASE ServerStep /\ UNCHANGED clientVars
  <2>1. CASE Emit \/ ApiStep
    BY <1>1, <1>3, <2>1 DEF Emit, ApiStep, clientVars
  <2>2. CASE BroadcastBlock /\ UNCHANGED <<open, uplink>>
    BY <1>3, <2>2, BroadcastTracks
  <2>3. CASE QueueStep /\ ~BroadcastBlock
    BY <1>1, <1>3, <2>3 DEF QueueStep, BroadcastDrops, BroadcastStarts, BlockFetched, clientVars
  <2> QED BY <1>3, <2>1, <2>2, <2>3 DEF ServerStep, QueueStep
<1>4. ASSUME NEW c \in Clients, SnapStep(c), UNCHANGED clientVars
      PROVE  TrackInv'
  <2>1. c \in open
    BY <1>4 DEF SnapStep, SnapProgress, SnapsOfOpen
  <2> QED BY <1>4, <2>1, SnapTracks
<1>5. ASSUME NEW c \in Clients, (Message(c) /\ UNCHANGED clientVars) \/ Connects(c) \/ GoesOffline(c)
      PROVE  TrackInv'
  BY <1>5, MessageTracks, SocketTracks
<1>6. ASSUME NEW c \in Clients, PageStep(c) \/ Receive(c)
      PROVE  TrackInv'
  BY <1>6, PageTracks, ReceiveTracks
<1> QED BY <1>2, <1>3, <1>4, <1>5, <1>6 DEF Next

LEMMA FollowedIsTracked == Types /\ TrackInv => TrackingAgrees
<1> SUFFICES ASSUME Types, TrackInv, NEW c \in open, isTrackingTx[c], ~goneOffline[c]
             PROVE  trackingTx[c] = trackingTxId[c] \/ Carries(c, trackingTxId[c])
  BY DEF TrackingAgrees
<1>1. c \in Clients
  BY DEF Types, ServerTypes
<1>2. Followed(uplink[c], wire[c], trackingTx[c], trackingTxId[c])
  BY <1>1 DEF TrackInv, PagesFollowed
<1> QED BY <1>2 DEF Followed, AsksFor, Confirms, IsTrack, IsBlock, Carries

(* A page that believes it is tracking a transaction is tracked, across      *)
(* confirmations, page changes and outages (startTrackTransaction() and      *)
(* handleResponse() against trackingTx of the connection): what is asked     *)
(* last is what the server ends up with, and a socket that closes is         *)
(* forgotten on both ends before it is opened again.                         *)
THEOREM TrackedPagesAgree == Spec => []TrackingAgrees
<1> QED
  BY DashboardTypes, InitTracks, StepSnaps, StepTracks, FollowedIsTracked, PTL DEF Spec
=============================================================================
