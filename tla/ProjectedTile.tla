---------------------------- MODULE ProjectedTile ----------------------------
(***************************************************************************)
(* The tile of a projected block on one page: the subscription that        *)
(* monero-ws.ts keeps for a connection, what websocket.service.ts believes *)
(* of it, and the component that shows the tile                            *)
(* (mempool-block-overview.component.ts), which may be left and opened     *)
(* again.  A message with a tile is its index: what the tile contains, and *)
(* the sequence numbers that nothing compares, are left out.               *)
(***************************************************************************)
EXTENDS Integers, Sequences

CONSTANTS
  Indexes,     \* of projected blocks
  MaxVisits,   \* bound: times a tile is opened or its index changes
  MaxOutages   \* bound

None == -1

VARIABLES
  open,        \* the server has the connection
  tracked,     \* state.trackingMempoolBlock of the server
  answering,   \* indexes of sendProjectedBlockTransactions() under way
  snapshots,   \* snapshots under way
  uplink, wire,
  isTrackingMempoolBlock, trackingMempoolBlock,
  stopping,    \* stoppingTrackMempoolBlock has not fired
  mempoolBlockState,  \* index of the last tile received, None
  goneOffline,
  visible,     \* index of the tile on the screen, None
  visits, outages

serverVars == <<open, tracked, answering, snapshots>>
serviceVars == <<isTrackingMempoolBlock, trackingMempoolBlock, stopping, mempoolBlockState, goneOffline>>
bounds == <<visits, outages>>
vars == <<serverVars, uplink, wire, serviceVars, visible, bounds>>

Other == -2  \* any message without a tile

Init ==
  /\ open = FALSE /\ tracked = None /\ answering = {} /\ snapshots = 0
  /\ uplink = <<>> /\ wire = <<>>
  /\ isTrackingMempoolBlock = FALSE /\ trackingMempoolBlock = None
  /\ stopping = FALSE /\ mempoolBlockState = None /\ goneOffline = FALSE
  /\ visible = None /\ visits = 0 /\ outages = 0

-----------------------------------------------------------------------------
(* The server. *)
HandleConnection ==
  /\ ~open
  /\ open' = TRUE /\ tracked' = None /\ answering' = {} /\ snapshots' = 1
  /\ UNCHANGED <<uplink, wire, serviceVars, visible, bounds>>

TrackMempoolBlock ==
  /\ open /\ uplink # <<>>
  /\ tracked' = Head(uplink)
  /\ answering' = answering \cup ({Head(uplink)} \ {None})
  /\ uplink' = Tail(uplink)
  /\ UNCHANGED <<open, snapshots, wire, serviceVars, visible, bounds>>

(* The pool is there, or the request for it fails. *)
SendProjectedBlockTransactions(i) ==
  /\ open /\ i \in answering
  /\ answering' = answering \ {i}
  /\ wire' \in {wire, Append(wire, i)}
  /\ UNCHANGED <<open, tracked, snapshots, uplink, serviceVars, visible, bounds>>

SendSnapshot ==
  /\ open /\ snapshots > 0
  /\ snapshots' = snapshots - 1
  /\ wire' \in {wire, Append(wire, Other)}
  /\ UNCHANGED <<open, tracked, answering, uplink, serviceVars, visible, bounds>>

(* A broadcast and the tile that follows it; here one at a time. *)
RefreshTrackedProjectedBlocks ==
  /\ open /\ wire = <<>>
  /\ wire' = IF tracked = None THEN <<Other>> ELSE <<Other, tracked>>
  /\ UNCHANGED <<serverVars, uplink, serviceVars, visible, bounds>>

-----------------------------------------------------------------------------
(* The service of the page.  A dead socket swallows what is written to it. *)
Sends(ms) == uplink' = IF ~open /\ goneOffline THEN uplink ELSE uplink \o ms

StartTrackMempoolBlock(i, requests) ==
  /\ stopping' = FALSE
  /\ Sends(requests)
  /\ isTrackingMempoolBlock' = (isTrackingMempoolBlock \/ requests # <<>>)
  /\ trackingMempoolBlock' = i
(* Duplicate requests are skipped unless forced. *)
Unless(duplicate, i) == IF duplicate THEN <<>> ELSE <<i>>

StopTimerFires ==
  /\ stopping
  /\ stopping' = FALSE
  /\ Sends(<<None>>)
  /\ trackingMempoolBlock' = None
  /\ mempoolBlockState' = None
  /\ UNCHANGED <<serverVars, wire, isTrackingMempoolBlock, goneOffline, visible, bounds>>

Resubscribes_Never == FALSE  \* a bug
Resubscribes == goneOffline /\ isTrackingMempoolBlock
(* handleResponse(), and what the first message after an outage sets off. *)
Receive ==
  /\ wire # <<>>
  /\ wire' = Tail(wire)
  /\ mempoolBlockState' = IF Head(wire) = trackingMempoolBlock THEN Head(wire) ELSE mempoolBlockState
  /\ goneOffline' = FALSE
  /\ IF Resubscribes
     THEN StartTrackMempoolBlock(trackingMempoolBlock, <<trackingMempoolBlock>>)
     ELSE UNCHANGED <<uplink, isTrackingMempoolBlock, trackingMempoolBlock, stopping>>
  /\ UNCHANGED <<serverVars, visible, bounds>>

GoesOffline ==
  /\ open /\ outages < MaxOutages
  /\ outages' = outages + 1
  /\ open' = FALSE /\ tracked' = None /\ answering' = {} /\ snapshots' = 0
  /\ uplink' = <<>> /\ wire' = <<>>
  /\ goneOffline' = TRUE
  /\ UNCHANGED <<isTrackingMempoolBlock, trackingMempoolBlock, stopping, mempoolBlockState, visible, visits>>

-----------------------------------------------------------------------------
(* The component. *)
Visits(i) ==
  /\ visits < MaxVisits
  /\ visits' = visits + 1
  /\ visible' = i
  /\ UNCHANGED <<serverVars, wire, mempoolBlockState, goneOffline, outages>>

(* ngAfterViewInit: the tile of the last visit is resumed if it is there,
   else the block is tracked in any case. *)
Opens(i) ==
  /\ visible = None
  /\ Visits(i)
  /\ IF mempoolBlockState = i
     THEN UNCHANGED <<uplink, isTrackingMempoolBlock, trackingMempoolBlock, stopping>>
     ELSE StartTrackMempoolBlock(i, <<i>>)
(* The page of a mempool block tracks its block before its tile is made. *)
OpensPage(i) ==
  /\ visible = None
  /\ Visits(i)
  /\ StartTrackMempoolBlock(i, Unless(trackingMempoolBlock = i, i) \o Unless(mempoolBlockState = i, i))
(* ngOnChanges *)
ChangesIndex(i) ==
  /\ visible \notin {None, i}
  /\ Visits(i)
  /\ StartTrackMempoolBlock(i, Unless(trackingMempoolBlock = i, i))

(* ngOnDestroy, stopTrackMempoolBlock *)
Closes ==
  /\ visible # None
  /\ visible' = None
  /\ isTrackingMempoolBlock' = FALSE
  /\ stopping' = TRUE
  /\ UNCHANGED <<serverVars, uplink, wire, trackingMempoolBlock, mempoolBlockState, goneOffline, bounds>>

Next ==
  \/ HandleConnection \/ TrackMempoolBlock \/ SendSnapshot \/ RefreshTrackedProjectedBlocks
  \/ StopTimerFires \/ Receive \/ GoesOffline \/ Closes
  \/ \E i \in Indexes : \/ SendProjectedBlockTransactions(i)
                        \/ Opens(i) \/ OpensPage(i) \/ ChangesIndex(i)
Spec == Init /\ [][Next]_vars

-----------------------------------------------------------------------------
(* What the server tracks once it has read what is on its way. *)
Requested == IF uplink = <<>> THEN tracked ELSE uplink[Len(uplink)]

(* A page that believes it tracks a block is subscribed to that block, or its
   request is on its way, across outages, changes of the block and a stop
   that is delayed by two seconds. *)
SubscriptionAgrees ==
  isTrackingMempoolBlock /\ ~goneOffline => Requested = trackingMempoolBlock

(* monero-ws.ts, line 512: the refresh "Keeps the WebGL next-block tile live".
   A tile on the screen is subscribed to, or its request is on its way. *)
VisibleTilesAreTracked ==
  visible # None /\ ~goneOffline => Requested = visible
=============================================================================
