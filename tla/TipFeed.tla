------------------------------ MODULE TipFeed -------------------------------
(***************************************************************************)
(* What the event bus promises about the chain tip: it looks at a daemon's *)
(* tip, and either announces what it saw or forgets it.  An announcement   *)
(* is a change of lastTipHash from one block to another.  MoneroEventBus   *)
(* implements this; the listeners are specified against it.                *)
(***************************************************************************)
EXTENDS Blockchain

CONSTANT Daemons  \* daemons behind the RPC pool

VARIABLES
  tip,          \* tip[d]: top_block_hash of daemon d
  lastTipHash,  \* the tip recorded or announced last
  pending       \* the tip that was seen and is not announced yet

feedVars == <<tip, lastTipHash, pending>>

FeedInit ==
  /\ tip \in [Daemons -> Blocks]
  /\ lastTipHash = None
  /\ pending = None

(* A daemon adopts a chain with more cumulative difficulty: the next block, *)
(* several blocks, or a reorganisation, at the same height included.        *)
TipMoves(d, b) ==
  /\ Work[b] > Work[tip[d]]
  /\ tip' = [tip EXCEPT ![d] = b]

(* The first tip is recorded, not announced. *)
Record(d) ==
  /\ lastTipHash = None
  /\ lastTipHash' = tip[d]
  /\ UNCHANGED <<tip, pending>>

See(d) ==
  /\ pending = None
  /\ lastTipHash \notin {None, tip[d]}
  /\ pending' = tip[d]
  /\ UNCHANGED <<tip, lastTipHash>>

Announce ==
  /\ pending # None
  /\ lastTipHash' = pending
  /\ pending' = None
  /\ UNCHANGED tip

Forget ==
  /\ pending # None
  /\ pending' = None
  /\ UNCHANGED <<tip, lastTipHash>>

Look == \E d \in Daemons : Record(d) \/ See(d)

Move == \E d \in Daemons, b \in Blocks : TipMoves(d, b) /\ UNCHANGED <<lastTipHash, pending>>

FeedStep == Look \/ Announce \/ Forget

FeedSpec == FeedInit /\ [][Move \/ FeedStep]_feedVars

(* Polling never stops, and a daemon that is asked again and again answers. *)
FeedFairness ==
  /\ WF_feedVars(FeedStep)
  /\ SF_feedVars(Look)
  /\ SF_feedVars(Announce)
=============================================================================
