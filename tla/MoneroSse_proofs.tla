-------------------------- MODULE MoneroSse_proofs --------------------------
(***************************************************************************)
(* The event bus announces every change of tip once and implements the tip *)
(* feed, and what a reader of the event stream has seen of the pool is what*)
(* the bus holds, for any number of clients, daemons, overlapping ticks,   *)
(* blocks and transactions.                                                *)
(***************************************************************************)
EXTENDS MoneroSse, TLAPS

(* The event bus. *)
(* At most one poll is between its first request and its last answer. *)
OnePoll ==
  /\ \A p, q \in Polls : pc[p] # "idle" /\ pc[q] # "idle" => p = q
  /\ \A p \in Polls : pc[p] # "idle" => inflight

(* What a poll fetches a header for is still news: lastTipHash has not      *)
(* changed since the poll compared it.                                      *)
HeaderIsNews ==
  \A p \in Polls : pc[p] = "header" =>
    info[p] \in Blocks /\ lastTipHash # None /\ lastTipHash # info[p]

BusInv == BusTypeOK /\ OnePoll /\ HeaderIsNews

allVars == <<daemonVars, busVars>>

-----------------------------------------------------------------------------
LEMMA BusInvInit == DaemonInit /\ BusInit => BusInv
  BY DEF DaemonInit, BusInit, BusInv, BusTypeOK, OnePoll, HeaderIsNews, Optional

(* A 'block' event and a 'mempool-delta' event are events. *)
LEMMA EventTypes ==
  ASSUME NEW b \in Blocks, NEW S \in SUBSET Txs, NEW T \in SUBSET Txs
  PROVE  /\ [type |-> "block", block |-> b] \in Event
         /\ [type |-> "mempool-delta", added |-> S, removed |-> T] \in Event
  BY DEF Event, BlockEvent, DeltaEvent

(* Each step of poll() keeps the invariant. *)
LEMMA BusInvStep == BusInv /\ BusStep => BusInv'
<1> SUFFICES ASSUME BusInv, NEW p \in Polls, PollStep(p), UNCHANGED daemonVars
             PROVE  BusInv'
  BY DEF BusStep
<1> USE DEF BusInv, BusTypeOK, OnePoll, HeaderIsNews, Optional, Await, daemonVars
<1>1. CASE PollStarts(p)
  BY <1>1 DEF PollStarts
<1>2. CASE InfoAnswered(p)
  <2> PICK d \in Daemons : FirstInfo(p, d) \/ SameTipInfo(p, d) \/ NewTipInfo(p, d)
    BY <1>2 DEF InfoAnswered
  <2>1. CASE FirstInfo(p, d)
    BY <2>1 DEF FirstInfo
  <2>2. CASE SameTipInfo(p, d)
    BY <2>2 DEF SameTipInfo
  <2>3. CASE NewTipInfo(p, d)
    BY <2>3, NoneAssumption DEF NewTipInfo
  <2> QED BY <2>1, <2>2, <2>3
<1>3. CASE HeaderAnswered(p)
  BY <1>3, EventTypes DEF HeaderAnswered
<1>4. CASE HeaderFails(p)
  BY <1>4 DEF HeaderFails
<1>5. CASE \E d \in Daemons : PoolAnswered(p, d)
  <2> PICK d \in Daemons : PoolAnswered(p, d)
    BY <1>5
  <2>1. event' \in Optional(Event)
    <3> DEFINE added == mempool[d] \ lastMempoolHashes
               removed == lastMempoolHashes \ mempool[d]
    <3>1. added \in SUBSET Txs /\ removed \in SUBSET Txs
      OBVIOUS
    <3> QED BY <3>1, EventTypes DEF PoolAnswered
  <2> QED BY <2>1 DEF PoolAnswered
<1>6. CASE PollFails(p)
  BY <1>6 DEF PollFails
<1> QED BY <1>1, <1>2, <1>3, <1>4, <1>5, <1>6 DEF PollStep

LEMMA BusInvDaemon == BusInv /\ DaemonStep => BusInv'
<1> SUFFICES ASSUME BusInv, DaemonStep PROVE BusInv'
  OBVIOUS
<1>1. tip' \in [Daemons -> Blocks] /\ mempool' \in [Daemons -> SUBSET Txs]
  BY PoolTxsAssumption
  DEF DaemonStep, TipMoves, Feed!TipMoves, PoolMoves, BusInv, BusTypeOK
<1> QED BY <1>1 DEF DaemonStep, busVars, BusInv, BusTypeOK, OnePoll, HeaderIsNews

(* The types hold, polls never overlap, and a header is only fetched for a  *)
(* tip that differs from the last one announced.                            *)
THEOREM BusInvariant == BusSpec => []BusInv
<1>1. BusInv /\ UNCHANGED allVars => BusInv'
  BY DEF allVars, daemonVars, busVars, BusInv, BusTypeOK, OnePoll, HeaderIsNews
<1> QED BY <1>1, BusInvInit, BusInvStep, BusInvDaemon, PTL DEF BusSpec, allVars

-----------------------------------------------------------------------------
(* One step emits a 'block' event exactly when it changes the tip. *)
LEMMA StepAnnounces ==
  ASSUME BusInv, BusStep
  PROVE  /\ Announces(event') <=> lastTipHash # None /\ lastTipHash' # lastTipHash
         /\ Announces(event') => event'.block = lastTipHash'
<1> PICK p \in Polls : PollStep(p)
  BY DEF BusStep
<1>1. CASE HeaderAnswered(p)
  <2>1. info[p] \in Blocks /\ lastTipHash # None /\ lastTipHash # info[p]
    BY <1>1 DEF HeaderAnswered, BusInv, HeaderIsNews
  <2>2. event' # None
    BY <1>1, <2>1, EventTypes, NoneIsNoEvent DEF HeaderAnswered
  <2> QED BY <1>1, <2>1, <2>2 DEF HeaderAnswered, Announces
<1>2. CASE \E d \in Daemons : PoolAnswered(p, d)
  BY <1>2 DEF PoolAnswered, Announces
<1>3. CASE PollStarts(p) \/ HeaderFails(p) \/ PollFails(p)
  BY <1>3 DEF PollStarts, HeaderFails, PollFails, Announces
<1>4. CASE InfoAnswered(p)
  BY <1>4 DEF InfoAnswered, FirstInfo, SameTipInfo, NewTipInfo, Announces
<1> QED BY <1>1, <1>2, <1>3, <1>4 DEF PollStep

(* No tip change is silent, none is announced twice. *)
THEOREM AnnouncesEachTipOnce == BusSpec => EventsAreTipChanges
<1> DEFINE A == /\ Announces(event') <=> lastTipHash # None /\ lastTipHash' # lastTipHash
                /\ Announces(event') => event'.block = lastTipHash'
<1>1. BusInv /\ [BusStep \/ DaemonStep]_allVars => [A]_busVars
  BY StepAnnounces DEF allVars, DaemonStep
<1> QED BY <1>1, BusInvariant, PTL DEF BusSpec, EventsAreTipChanges, allVars

-----------------------------------------------------------------------------
(* The tip the feed holds pending, before and after a step in which at most *)
(* poll p is running.                                                       *)
Alone(p) == \A q \in Polls : q # p => pc[q] # "header"

LEMMA PendingBefore ==
  ASSUME NEW p \in Polls, Alone(p)
  PROVE  pending = IF pc[p] = "header" THEN info[p] ELSE None
  BY DEF pending, Alone

LEMMA PendingAfter ==
  ASSUME NEW p \in Polls, Alone(p)'
  PROVE  pending' = IF pc'[p] = "header" THEN info'[p] ELSE None
  BY DEF pending, Alone

(* A poll that takes a step is alone before and after it. *)
LEMMA StepIsAlone ==
  ASSUME BusInv, NEW p \in Polls, PollStep(p)
  PROVE  Alone(p) /\ Alone(p)'
<1>1. \E request : Await(p, request)
  BY DEF PollStep, PollStarts, InfoAnswered, FirstInfo, SameTipInfo, NewTipInfo,
         HeaderAnswered, HeaderFails, PoolAnswered, PollFails
<1>2. pc[p] # "idle" \/ ~inflight
  BY DEF PollStep, PollStarts, InfoAnswered, FirstInfo, SameTipInfo, NewTipInfo,
         HeaderAnswered, HeaderFails, PoolAnswered, PollFails
<1>3. Alone(p)
  BY <1>2 DEF BusInv, OnePoll, Alone
<1> QED BY <1>1, <1>3 DEF Alone, Await, BusInv, BusTypeOK

(* A step of a poll is a step of the feed, or leaves the feed alone. *)
LEMMA PollStepRefines ==
  ASSUME BusInv, BusStep
  PROVE  Feed!FeedStep \/ UNCHANGED Feed!feedVars
<1> PICK p \in Polls : PollStep(p)
  BY DEF BusStep
<1>1. /\ pending = IF pc[p] = "header" THEN info[p] ELSE None
      /\ pending' = IF pc'[p] = "header" THEN info'[p] ELSE None
  BY StepIsAlone, PendingBefore, PendingAfter
<1>2. UNCHANGED tip
  BY DEF BusStep, daemonVars
<1> USE DEF BusInv, BusTypeOK, Await
<1>3. CASE PollStarts(p)
  BY <1>1, <1>2, <1>3 DEF PollStarts, Feed!feedVars
<1>4. CASE InfoAnswered(p)
  <2> PICK d \in Daemons : FirstInfo(p, d) \/ SameTipInfo(p, d) \/ NewTipInfo(p, d)
    BY <1>4 DEF InfoAnswered
  <2>1. CASE FirstInfo(p, d)
    <3>1. Feed!Record(d)
      BY <1>1, <1>2, <2>1 DEF FirstInfo, Feed!Record
    <3> QED BY <3>1 DEF Feed!FeedStep, Feed!Look
  <2>2. CASE SameTipInfo(p, d)
    BY <1>1, <1>2, <2>2 DEF SameTipInfo, Feed!feedVars
  <2>3. CASE NewTipInfo(p, d)
    <3>1. Feed!See(d)
      BY <1>1, <1>2, <2>3 DEF NewTipInfo, Feed!See
    <3> QED BY <3>1 DEF Feed!FeedStep, Feed!Look
  <2> QED BY <2>1, <2>2, <2>3
<1>5. CASE HeaderAnswered(p)
  <2>1. info[p] # None
    BY <1>5, NoneAssumption DEF HeaderAnswered, HeaderIsNews
  <2>2. Feed!Announce
    BY <1>1, <1>2, <1>5, <2>1 DEF HeaderAnswered, Feed!Announce
  <2> QED BY <2>2 DEF Feed!FeedStep
<1>6. CASE HeaderFails(p)
  <2>1. info[p] # None
    BY <1>6, NoneAssumption DEF HeaderFails, HeaderIsNews
  <2>2. Feed!Forget
    BY <1>1, <1>2, <1>6, <2>1 DEF HeaderFails, Feed!Forget
  <2> QED BY <2>2 DEF Feed!FeedStep
<1>7. CASE (\E d \in Daemons : PoolAnswered(p, d)) \/ PollFails(p)
  BY <1>1, <1>2, <1>7 DEF PoolAnswered, PollFails, Feed!feedVars
<1> QED BY <1>3, <1>4, <1>5, <1>6, <1>7 DEF PollStep

LEMMA DaemonStepRefines ==
  ASSUME DaemonStep
  PROVE  Feed!Move \/ UNCHANGED Feed!feedVars
<1>1. UNCHANGED <<lastTipHash, pending>>
  BY DEF DaemonStep, busVars, pending
<1>2. CASE \E d \in Daemons, b \in Blocks : TipMoves(d, b)
  BY <1>1, <1>2 DEF TipMoves, Feed!Move
<1>3. CASE \E d \in Daemons : \E S \in SUBSET PoolTxs : PoolMoves(d, S)
  BY <1>1, <1>3 DEF PoolMoves, Feed!feedVars
<1> QED BY <1>2, <1>3 DEF DaemonStep

(* The poller implements the tip feed: what the WebSocket adapter is        *)
(* specified against is what the code of the bus gives it.                  *)
THEOREM BusImplementsFeed == BusSpec => ImplementsFeed
<1>1. DaemonInit /\ BusInit => Feed!FeedInit
  BY DEF DaemonInit, BusInit, pending, Feed!FeedInit
<1>2. BusInv /\ [BusStep \/ DaemonStep]_allVars => [Feed!Move \/ Feed!FeedStep]_(Feed!feedVars)
  <2>1. UNCHANGED allVars => UNCHANGED Feed!feedVars
    BY DEF allVars, daemonVars, busVars, pending, Feed!feedVars
  <2> QED BY <2>1, PollStepRefines, DaemonStepRefines
<1> QED BY <1>1, <1>2, BusInvariant, PTL DEF BusSpec, ImplementsFeed, Feed!FeedSpec, allVars

-----------------------------------------------------------------------------
(* The event stream. *)
LEMMA SseStep == [Next]_vars => [BusStep \/ DaemonStep]_allVars
  BY DEF Next, vars, allVars, Emit, Stream, Cleanup

(* The streams change nothing about the bus. *)
THEOREM SseRunsTheBus == Spec => BusSpec
<1>1. Init => DaemonInit /\ BusInit
  BY DEF Init
<1> QED BY <1>1, SseStep, PTL DEF Spec, BusSpec, allVars

SseInv ==
  /\ connected \in SUBSET Clients
  /\ shown \in [Clients -> View]
  /\ MempoolViewAgrees

LEMMA TypesOfEvents ==
  ASSUME NEW e \in Event
  PROVE  \/ e = [type |-> "block", block |-> e.block] /\ e.block \in Blocks
         \/ /\ e = [type |-> "mempool-delta", added |-> e.added, removed |-> e.removed]
            /\ e.added \in SUBSET Txs /\ e.removed \in SUBSET Txs
  BY DEF Event, BlockEvent, DeltaEvent

(* Folding an event into a view gives a view. *)
LEMMA ApplyType ==
  ASSUME NEW v \in View, NEW e \in Optional(Event)
  PROVE  Apply(v, e) \in View
<1>1. CASE e = None
  BY <1>1 DEF Apply
<1>2. CASE e # None
  <2>1. e \in Event
    BY <1>2 DEF Optional
  <2>2. CASE e.type = "block"
    BY <1>2, <2>1, <2>2, TypesOfEvents DEF Apply, Announces, View, Optional
  <2>3. CASE e.type # "block"
    BY <1>2, <2>1, <2>3, TypesOfEvents DEF Apply, Announces, View
  <2> QED BY <2>2, <2>3
<1> QED BY <1>1, <1>2

(* What one poll step emits turns the old pool into the new one. *)
LEMMA EventIsTheDifference ==
  ASSUME BusInv, BusStep, NEW v \in View, v.mempool = lastMempoolHashes
  PROVE  Apply(v, event').mempool = lastMempoolHashes'
<1> PICK p \in Polls : PollStep(p)
  BY DEF BusStep
<1>1. CASE \E d \in Daemons : PoolAnswered(p, d)
  <2> PICK d \in Daemons : PoolAnswered(p, d)
    BY <1>1
  <2> DEFINE added == mempool[d] \ lastMempoolHashes
             removed == lastMempoolHashes \ mempool[d]
  <2>1. lastMempoolHashes' = mempool[d]
    BY DEF PoolAnswered
  <2>2. CASE added \cup removed = {}
    BY <2>1, <2>2 DEF PoolAnswered, Apply
  <2>3. CASE added \cup removed # {}
    <3>1. event' = [type |-> "mempool-delta", added |-> added, removed |-> removed]
      BY <2>3 DEF PoolAnswered
    <3>2. event' # None
      <4>1. added \in SUBSET Txs /\ removed \in SUBSET Txs
        BY DEF BusInv, BusTypeOK
      <4> QED BY <3>1, <4>1, NoneIsNoEvent DEF Event, DeltaEvent
    <3>3. ~Announces(event')
      BY <3>1 DEF Announces
    <3>4. Apply(v, event') = [v EXCEPT !.mempool = (@ \ removed) \cup added]
      BY <3>1, <3>2, <3>3 DEF Apply
    <3> QED BY <2>1, <3>4 DEF View
  <2> QED BY <2>2, <2>3
<1>2. CASE HeaderAnswered(p)
  <2>1. lastMempoolHashes' = lastMempoolHashes
    BY <1>2 DEF HeaderAnswered
  <2>2. Announces(event') /\ event' # None
    BY <1>2, EventTypes, NoneIsNoEvent DEF HeaderAnswered, Announces, BusInv, HeaderIsNews
  <2> QED BY <2>1, <2>2 DEF Apply, View
<1>3. CASE PollStarts(p) \/ HeaderFails(p) \/ PollFails(p) \/ InfoAnswered(p)
  <2>1. event' = None /\ lastMempoolHashes' = lastMempoolHashes
    BY <1>3 DEF PollStarts, HeaderFails, PollFails, InfoAnswered, FirstInfo, SameTipInfo, NewTipInfo
  <2> QED BY <2>1 DEF Apply
<1> QED BY <1>1, <1>2, <1>3 DEF PollStep

LEMMA SseInvStep == SseInv /\ BusInv /\ BusInv' /\ [Next]_vars => SseInv'
<1> SUFFICES ASSUME SseInv, BusInv, BusInv', [Next]_vars PROVE SseInv'
  OBVIOUS
<1> USE DEF SseInv, MempoolViewAgrees
<1>1. CASE Emit
  <2>1. event' \in Optional(Event)
    BY DEF BusInv, BusTypeOK
  <2>2. shown' \in [Clients -> View]
    BY <1>1, <2>1, ApplyType DEF Emit
  <2>3. ASSUME NEW c \in connected' PROVE shown'[c].mempool = lastMempoolHashes'
    <3>1. c \in connected /\ c \in Clients /\ shown'[c] = Apply(shown[c], event')
      BY <1>1, <2>3 DEF Emit
    <3>2. shown[c] \in View /\ shown[c].mempool = lastMempoolHashes
      BY <3>1
    <3> QED BY <1>1, <3>1, <3>2, EventIsTheDifference DEF Emit
  <2> QED BY <1>1, <2>2, <2>3 DEF Emit
<1>2. CASE DaemonStep /\ UNCHANGED sseVars
  BY <1>2 DEF DaemonStep, busVars, sseVars
<1>3. ASSUME NEW c \in Clients, Stream(c) PROVE SseInv'
  BY <1>3 DEF Stream, Snapshot, View, busVars, BusInv, BusTypeOK
<1>4. ASSUME NEW c \in Clients, Cleanup(c) PROVE SseInv'
  BY <1>4 DEF Cleanup, Blank, View, busVars, Optional
<1>5. CASE UNCHANGED vars
  BY <1>5 DEF vars, busVars, sseVars
<1> QED BY <1>1, <1>2, <1>3, <1>4, <1>5 DEF Next

LEMMA SseInvariant == Spec => [](SseInv /\ BusInv)
<1>1. Init => SseInv
  BY DEF Init, SseInv, MempoolViewAgrees, View, Blank, Optional
<1>2. Spec => []BusInv
  BY SseRunsTheBus, BusInvariant, PTL
<1> QED BY <1>1, <1>2, SseInvStep, PTL DEF Spec

(* The types of the bus and of the streams, always. *)
THEOREM SseTypes == Spec => []TypeOK
<1>1. SseInv /\ BusInv => TypeOK
  BY DEF SseInv, BusInv, TypeOK
<1> QED BY <1>1, SseInvariant, PTL

(* No transaction is missed or kept by a reader of the stream. *)
THEOREM ViewsOfThePoolAgree == Spec => []MempoolViewAgrees
<1>1. SseInv => MempoolViewAgrees
  BY DEF SseInv
<1> QED BY <1>1, SseInvariant, PTL

(* With listeners too, every change of tip is announced once. *)
THEOREM SseAnnouncesEachTipOnce == Spec => EventsAreTipChanges
  BY SseRunsTheBus, AnnouncesEachTipOnce, PTL
=============================================================================
