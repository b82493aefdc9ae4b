----------------------------- MODULE MoneroSse ------------------------------
(***************************************************************************)
(* backend/src/api/monero/monero-sse.routes.ts beside the event bus: each  *)
(* connection is sent a snapshot and then every bus event, in the tick the *)
(* bus emits it.  TCP keeps the order, so shown[c] is what a reader that   *)
(* folds connection c's stream has once it has read what was written.      *)
(***************************************************************************)
EXTENDS MoneroEventBus

CONSTANT Clients  \* responses of GET /api/v1/events

VARIABLES
  connected,  \* clients whose listeners are registered on the bus
  shown       \* shown[c]: the tip and the pool that c's stream describes

sseVars == <<connected, shown>>
vars == <<daemonVars, busVars, sseVars>>

View == [tip : Optional(Blocks), mempool : SUBSET Txs]
Blank == [tip |-> None, mempool |-> {}]

(* Types of the bus and of the streams. *)
TypeOK ==
  /\ BusTypeOK
  /\ connected \in SUBSET Clients
  /\ shown \in [Clients -> View]

Snapshot_WithoutPool == [tip |-> latestInfo, mempool |-> {}]  \* a bug: an incomplete snapshot

(* bus.snapshot() *)
Snapshot == [tip |-> latestInfo, mempool |-> lastMempoolHashes]

(* A reader of the stream meets event e. *)
Apply(v, e) ==
  IF e = None THEN v
  ELSE IF Announces(e) THEN [v EXCEPT !.tip = e.block]
  ELSE [v EXCEPT !.mempool = (@ \ e.removed) \cup e.added]

Stream(c) ==
  /\ c \notin connected
  /\ connected' = connected \cup {c}
  /\ shown' = [shown EXCEPT ![c] = Snapshot]
  /\ UNCHANGED <<daemonVars, busVars>>

Cleanup(c) ==
  /\ c \in connected
  /\ connected' = connected \ {c}
  /\ shown' = [shown EXCEPT ![c] = Blank]
  /\ UNCHANGED <<daemonVars, busVars>>

Emit ==
  /\ BusStep
  /\ shown' = [c \in Clients |-> IF c \in connected THEN Apply(shown[c], event') ELSE shown[c]]
  /\ UNCHANGED connected

Init ==
  /\ DaemonInit
  /\ BusInit
  /\ connected = {}
  /\ shown = [c \in Clients |-> Blank]

Next ==
  \/ Emit
  \/ DaemonStep /\ UNCHANGED sseVars
  \/ \E c \in Clients : Stream(c) \/ Cleanup(c)

Spec == Init /\ [][Next]_vars

FairSpec == Spec /\ BusFairness

-----------------------------------------------------------------------------
(* A client that replays the mempool-delta events on top of its snapshot    *)
(* holds exactly the pool the bus holds: no transaction is missed or kept,   *)
(* whenever the client connects and whatever the daemons answer.            *)
MempoolViewAgrees == \A c \in connected : shown[c].mempool = lastMempoolHashes
=============================================================================
