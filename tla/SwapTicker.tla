----------------------------- MODULE SwapTicker -----------------------------
(***************************************************************************)
(* getXmrSwapTicker() of backend/src/api/monero/xmr-swap-ticker.ts: one    *)
(* cached ticker for all networks and periods, whose requests may overlap  *)
(* and have no timeout.  A ticker stands for the time it was asked for.    *)
(***************************************************************************)
EXTENDS Integers

CONSTANTS
  Callers,
  Questions,  \* pairs of a network and a period
  Ttl,        \* CACHE_MS
  MaxTime     \* bound: the clock

VARIABLES
  now,
  kept,       \* cache
  asked,      \* asked[c]: what caller c asks the markets, and since when
  given       \* what the last step returned, with the question

None == -1
vars == <<now, kept, asked, given>>
Nobody == [key |-> None, since |-> None]
NoTicker == [key |-> None, since |-> None, expires |-> 0]

Init ==
  /\ now = 0
  /\ kept = NoTicker
  /\ asked = [c \in Callers |-> Nobody]
  /\ given = {}

-----------------------------------------------------------------------------
Holds(key) == kept.key = key /\ kept.expires > now

Serve(c, key) ==
  /\ asked[c] = Nobody
  /\ Holds(key)
  /\ given' = {[question |-> key, ticker |-> kept]}
  /\ UNCHANGED <<now, kept, asked>>

Ask(c, key) ==
  /\ asked[c] = Nobody
  /\ ~Holds(key)
  /\ asked' = [asked EXCEPT ![c] = [key |-> key, since |-> now]]
  /\ given' = {}
  /\ UNCHANGED <<now, kept>>

Ticker_FromNow(request) == [key |-> request.key, since |-> request.since, expires |-> now + Ttl]
Ticker(request) == [key |-> request.key, since |-> request.since, expires |-> request.since + Ttl]
Answered(c) ==
  /\ asked[c] # Nobody
  /\ kept' = Ticker(asked[c])
  /\ given' = {}
  /\ asked' = [asked EXCEPT ![c] = Nobody]
  /\ UNCHANGED now

Fails(c) ==
  /\ asked[c] # Nobody
  /\ asked' = [asked EXCEPT ![c] = Nobody]
  /\ given' = {}
  /\ UNCHANGED <<now, kept>>

Tick ==
  /\ now < MaxTime
  /\ now' = now + 1
  /\ given' = {}
  /\ UNCHANGED <<kept, asked>>

Next == Tick \/ \E c \in Callers : \/ Answered(c) \/ Fails(c)
                                   \/ \E key \in Questions : Serve(c, key) \/ Ask(c, key)
Spec == Init /\ [][Next]_vars

-----------------------------------------------------------------------------
(* Answers of any delay overwrite each other in one slot: a ticker served
   from it still answers the question, and was asked for less than the time
   to live ago. *)
TickerIsRecent ==
  \A g \in given : g.ticker.key = g.question /\ now - g.ticker.since < Ttl
=============================================================================
