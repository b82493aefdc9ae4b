----------------------------- MODULE Dashboard ------------------------------
(***************************************************************************)
(* frontend/src/app/services/websocket.service.ts and state.service.ts at  *)
(* the far end of the block stream: bus, adapter and browsers composed.    *)
(***************************************************************************)
EXTENDS MoneroWs, SequencesExt

CONSTANTS
  KeepBlocks,  \* KEEP_BLOCKS_AMOUNT
  MaxPending   \* bound: messages and snapshots under way when a page asks for more

ASSUME KeepBlocksAssumption == KeepBlocks \in Nat \ {0} /\ MaxPending \in Nat

VARIABLES
  latestBlockHeight,  \* per client, as the variables below
  blocks,             \* newest first
  isTrackingTx,
  trackingTxId,
  goneOffline

clientVars == <<latestBlockHeight, blocks, isTrackingTx, trackingTxId, goneOffline>>
vars == <<feedVars, wsVars, clientVars>>

Larger(a, b) == IF a > b THEN a ELSE b

-----------------------------------------------------------------------------
(* init and want are answered alike. *)
Wanted == <<[type |-> "init"]>>
Tracked(t) == <<[type |-> "track-tx", tx |-> t]>>
Refresh == <<[type |-> "refresh-blocks"]>>

(* The socket opens.  On the first load the messages written so far, 'init' *)
(* first, were buffered; reconnectWebsocket() starts again from 'init'.      *)
Connects(c) ==
  /\ Connection(c)
  /\ uplink' = IF goneOffline[c] THEN [uplink EXCEPT ![c] = Wanted] ELSE uplink
  /\ UNCHANGED clientVars

(* The socket fails, or a ping stays unanswered: goOffline(). *)
GoesOffline(c) ==
  /\ Cleanup(c)
  /\ uplink' = [uplink EXCEPT ![c] = <<>>]
  /\ goneOffline' = [goneOffline EXCEPT ![c] = TRUE]
  /\ UNCHANGED <<latestBlockHeight, blocks, isTrackingTx, trackingTxId>>

-----------------------------------------------------------------------------
(* What the page asks for.  A dead socket swallows what is written to it.   *)

Sends(c, ms) ==
  uplink' = IF c \notin open /\ goneOffline[c] THEN uplink ELSE [uplink EXCEPT ![c] = @ \o ms]

HasRoom(c) == Len(uplink[c]) + Len(snaps[c]) + Len(wire[c]) < MaxPending

(* want(): the server answers as it answers init. *)
Want(c) ==
  /\ HasRoom(c)
  /\ Sends(c, Wanted)
  /\ UNCHANGED clientVars

StartTrackTransaction(c, t) ==
  /\ HasRoom(c)
  /\ ~isTrackingTx[c]
  /\ Sends(c, Tracked(t))
  /\ isTrackingTx' = [isTrackingTx EXCEPT ![c] = TRUE]
  /\ trackingTxId' = [trackingTxId EXCEPT ![c] = t]
  /\ UNCHANGED <<latestBlockHeight, blocks, goneOffline>>

StopTrackingTransaction(c) ==
  /\ HasRoom(c)
  /\ isTrackingTx[c]
  /\ Sends(c, Tracked(None))
  /\ isTrackingTx' = [isTrackingTx EXCEPT ![c] = FALSE]
  /\ UNCHANGED <<latestBlockHeight, blocks, trackingTxId, goneOffline>>

-----------------------------------------------------------------------------
(* handleResponse(), and the end of an outage at the first message after it *)

Resubscription_Untracked(c, tracking) ==  \* a bug: track-tx is not sent again
  IF goneOffline[c] THEN Wanted ELSE <<>>

(* The first message after an outage asks again for what was subscribed.   *)
Resubscription(c, tracking) ==
  IF goneOffline[c] THEN Wanted \o (IF tracking THEN Tracked(trackingTxId[c]) ELSE <<>>)
  ELSE <<>>

(* resetBlocks() reverses the list; the chain tip only moves up. *)
ReceiveBlocks(c) ==
  LET list == Head(wire[c]).blocks
      maxHeight == Max({latestBlockHeight[c]} \cup {Height(list[k]) : k \in DOMAIN list})
  IN
  /\ wire[c] # <<>> /\ Head(wire[c]).type = "blocks"
  /\ blocks' = [blocks EXCEPT ![c] = Reverse(list)]
  /\ latestBlockHeight' = [latestBlockHeight EXCEPT ![c] = maxHeight]
  /\ Sends(c, Resubscription(c, isTrackingTx[c]))
  /\ UNCHANGED isTrackingTx

(* addBlock() *)
Prepend(b, list) == SubSeq(<<b>> \o list, 1, IF Len(list) < KeepBlocks THEN Len(list) + 1 ELSE KeepBlocks)

IsNext_OrSame(c, b) == Height(b) \in {latestBlockHeight[c], latestBlockHeight[c] + 1}  \* a bug

IsNext(c, b) == Height(b) = latestBlockHeight[c] + 1

ReceiveBlock(c) ==
  LET m == Head(wire[c])
      next == IsNext(c, m.block)
      skips == Height(m.block) > latestBlockHeight[c] + 1
      tracking == isTrackingTx[c] /\ m.txConfirmed = None
  IN
  /\ wire[c] # <<>> /\ Head(wire[c]).type = "block"
  /\ blocks' = IF next THEN [blocks EXCEPT ![c] = Prepend(m.block, @)] ELSE blocks
  /\ latestBlockHeight' = IF next THEN [latestBlockHeight EXCEPT ![c] = Larger(@, Height(m.block))] ELSE latestBlockHeight
  /\ isTrackingTx' = [isTrackingTx EXCEPT ![c] = tracking]
  /\ Sends(c, (IF skips THEN Refresh ELSE <<>>) \o Resubscription(c, tracking))

Receive(c) ==
  /\ ReceiveBlocks(c) \/ ReceiveBlock(c)
  /\ wire' = [wire EXCEPT ![c] = Tail(@)]
  /\ goneOffline' = [goneOffline EXCEPT ![c] = FALSE]
  /\ UNCHANGED <<trackingTxId, feedVars, open, trackingTx, queueVars, apiVars, snaps>>

PageStep(c) ==
  /\ Want(c) \/ (\E t \in Txs : StartTrackTransaction(c, t)) \/ StopTrackingTransaction(c)
  /\ UNCHANGED <<feedVars, open, trackingTx, queueVars, apiVars, snaps, wire>>

-----------------------------------------------------------------------------
ServerStep == Emit \/ ApiStep \/ QueueStep

Init ==
  /\ FeedInit /\ WsInit
  /\ uplink = [c \in Clients |-> Wanted \o Wanted]  \* init, and the want() of the page that opens
  /\ latestBlockHeight = [c \in Clients |-> -1]
  /\ blocks = [c \in Clients |-> <<>>]
  /\ isTrackingTx = [c \in Clients |-> FALSE]
  /\ trackingTxId = [c \in Clients |-> None]
  /\ goneOffline = [c \in Clients |-> FALSE]

Next ==
  \/ Move /\ UNCHANGED <<wsVars, clientVars>>
  \/ ServerStep /\ UNCHANGED clientVars
  \/ \E c \in Clients :
       \/ (Message(c) \/ SnapStep(c)) /\ UNCHANGED clientVars
       \/ Connects(c)
       \/ GoesOffline(c)
       \/ PageStep(c)
       \/ Receive(c)

Spec == Init /\ [][Next]_vars

(* The event loop runs every continuation whose request has ended, and       *)
(* sockets deliver; a request ends in an answer or an error.                 *)
FairSpec ==
  /\ Spec
  /\ FeedFairness
  /\ WF_vars(QueueStep /\ UNCHANGED clientVars)
  /\ \A c \in Clients : /\ WF_vars(Message(c) /\ UNCHANGED clientVars)
                        /\ WF_vars(SnapProgress(c) /\ UNCHANGED clientVars)
                        /\ WF_vars(Receive(c))

-----------------------------------------------------------------------------
(* Safety *)

HeightsOn(s) == {Height(s[i].block) : i \in {j \in DOMAIN s : s[j].type = "block"}}

(* The 'block' messages of a socket climb: a later one is always higher,     *)
(* whatever the bus announces (reorganisations, daemons that disagree), and  *)
(* lastBroadcastHeight is the height of the newest one (broadcastQueue,      *)
(* broadcastNewBlock).                                                       *)
BroadcastsAscend ==
  \A c \in Clients :
    /\ \A i, j \in DOMAIN wire[c] :
         i < j /\ wire[c][i].type = "block" /\ wire[c][j].type = "block"
           => Height(wire[c][i].block) < Height(wire[c][j].block)
    /\ \A h \in HeightsOn(wire[c]) : h <= lastBroadcastHeight

(* The dashboard's list never comes out "in chaotic order": heights strictly *)
(* fall from the front, none is above the chain tip and the list stays       *)
(* short, whichever snapshots and broadcasts overlap.                        *)
ListDescends ==
  \A c \in Clients :
    /\ \A i, j \in DOMAIN blocks[c] : i < j => Height(blocks[c][i]) > Height(blocks[c][j])
    /\ \A i \in DOMAIN blocks[c] : Height(blocks[c][i]) <= latestBlockHeight[c]
    /\ Len(blocks[c]) <= Larger(KeepBlocks, RecentBlocks)

Carries(c, t) ==
  \/ \E i \in DOMAIN uplink[c] : uplink[c][i].type = "track-tx" /\ uplink[c][i].tx = t
  \/ \E i \in DOMAIN wire[c] : wire[c][i].type = "block" /\ wire[c][i].txConfirmed # None

(* A transaction page that believes it is tracking is tracked: the server    *)
(* knows the txid, or the request or a confirmation is on its way, across    *)
(* confirmations, page changes and reconnects.                               *)
TrackingAgrees ==
  \A c \in open : isTrackingTx[c] /\ ~goneOffline[c] =>
    trackingTx[c] = trackingTxId[c] \/ Carries(c, trackingTxId[c])

-----------------------------------------------------------------------------
(* Liveness *)

(* Once the daemons are quiet the bus is at one of their tips and every job   *)
(* of the promise chain has run, whatever failed and whoever disconnected.   *)
StreamSettles ==
  <>[](/\ lastTipHash \in {tip[d] : d \in Daemons}
       /\ broadcastQueue = <<>>)

-----------------------------------------------------------------------------
(* What the comments say and the code does not do *)

(* "Drop stale events": while somebody listens, no event is dropped that     *)
(* names the block the daemon has for its tip (the guard of                  *)
(* broadcastNewBlock, against the bus's "reorgs can land at the same         *)
(* height").                                                                 *)
OnlyStaleEventsDrop ==
  [][BroadcastDrops /\ open # {} => Head(broadcastQueue) \notin {tip[d] : d \in Daemons}]_vars

(* "it detects a height skip in the block stream": no list keeps a hole.     *)
NoHeightSkip ==
  \A c \in Clients : \A i \in 1..(Len(blocks[c]) - 1) :
    Height(blocks[c][i]) = Height(blocks[c][i + 1]) + 1
=============================================================================
