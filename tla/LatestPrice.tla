----------------------------- MODULE LatestPrice -----------------------------
(***************************************************************************)
(* getLatestXmrPrice() of backend/src/api/monero/xmr-price.ts over the     *)
(* memory cache: a price is read from the exchange, kept for Ttl, and kept *)
(* a second time for the outages of the exchange.  The callers are pages   *)
(* that connect.  A price stands for the time at which the exchange gave   *)
(* it.  That the price is also saved is the subject of PriceHistory.       *)
(***************************************************************************)
EXTENDS MemoryCache

CONSTANTS
  Callers,
  Ttl, StaleTtl,  \* lifetimes of the entries "latest" and "latest-stale"
  Timeout,        \* of fetchJson()
  MaxTime         \* bound: the clock

VARIABLES
  now,
  swept,   \* cleanup() has run in this second
  cache,
  asked,   \* asked[c]: when the request of caller c was sent, None
  given,   \* what the last step returned to a caller: at most one answer
  told     \* history: when the exchange last answered, None

None == -1
cacheVars == <<swept, cache>>
vars == <<now, cacheVars, asked, given, told>>

Answer(how, price) == [how |-> how, price |-> price]

Init ==
  /\ now = 0 /\ swept = TRUE
  /\ cache = <<>>
  /\ asked = [c \in Callers |-> None]
  /\ given = {}
  /\ told = None

-----------------------------------------------------------------------------
Hit(c) ==
  /\ asked[c] = None
  /\ Get(cache, "latest") # Missing
  /\ given' = {Answer("cached", Get(cache, "latest"))}
  /\ UNCHANGED <<now, cacheVars, asked, told>>

Miss(c) ==
  /\ asked[c] = None
  /\ Get(cache, "latest") = Missing
  /\ asked' = [asked EXCEPT ![c] = now]
  /\ given' = {}
  /\ UNCHANGED <<now, cacheVars, told>>

Keep_Once(price) == Set(cache, "latest", price, Ttl, now)  \* a bug
Keep(price) == Set(Set(cache, "latest", price, Ttl, now), "latest-stale", price, StaleTtl, now)
(* The price was current at some time while the request was under way. *)
Answered(c) ==
  /\ asked[c] # None
  /\ \E price \in asked[c]..now :
       /\ cache' = Keep(price)
       /\ given' = {Answer("fetched", price)}
  /\ asked' = [asked EXCEPT ![c] = None]
  /\ told' = now
  /\ UNCHANGED <<now, swept>>

Fails(c) ==
  /\ asked[c] # None
  /\ given' = {Answer("outage", Get(cache, "latest-stale"))}
  /\ asked' = [asked EXCEPT ![c] = None]
  /\ UNCHANGED <<now, cacheVars, told>>

Sweep ==
  /\ ~swept
  /\ swept' = TRUE
  /\ cache' = CleanUp(cache, now)
  /\ given' = {}
  /\ UNCHANGED <<now, asked, told>>

(* The timer of the cache runs every second, and no request outlives its
   timeout. *)
Tick ==
  /\ now < MaxTime
  /\ swept
  /\ \A c \in Callers : asked[c] # None => now - asked[c] < Timeout
  /\ now' = now + 1
  /\ swept' = FALSE
  /\ given' = {}
  /\ UNCHANGED <<cache, asked, told>>

Next == Sweep \/ Tick \/ \E c \in Callers : Hit(c) \/ Miss(c) \/ Answered(c) \/ Fails(c)
Spec == Init /\ [][Next]_vars

-----------------------------------------------------------------------------
(* No page is shown a price as current that is older than its lifetime and
   a request, although get() does not look at the expiry and overlapping
   misses leave several entries. *)
PricesAreRecent ==
  \A a \in given : a.how # "outage" => now - a.price <= Ttl + Timeout

(* While the exchange is away a page is shown a price, if there was one in
   the lifetime of the second entry. *)
OutagesAreCovered ==
  \A a \in given :
    a.how = "outage" /\ told # None /\ now - told < StaleTtl => a.price # Missing
=============================================================================
