---------------------------- MODULE Services_proofs ----------------------------
(***************************************************************************)
(* The RPC pool, the migration metrics, the swap ticker, the registry of   *)
(* pools, and the connection and the tile of a page, each proved as a part *)
(* of Services: for any requests, feeds, callers, questions, blocks, visits*)
(* and outages, and for a clock without a bound.                           *)
(***************************************************************************)
EXTENDS Services, Induction, SequenceTheorems

(* A step of the services that leaves a component the subject is one of its *)
(* steps, or leaves it as it is.                                            *)
LEMMA StepsOfRpc == [Next]_vars => [Rpc!Next]_(Rpc!vars)
  BY DEF Next, NextRpc, NextStats, NextPrice, NextRegistry, NextSwap, NextMetrics, NextPrices,
     NextTrees, NextPage, NextTile, vars, rpcVars, Rpc!vars, Rpc!daemonVars, Rpc!poolVars
LEMMA StepsOfPage == [Next]_vars /\ subject' = "page" => subject = "page" /\ [Page!Next]_(Page!vars)
  BY DEF Next, NextRpc, NextStats, NextPrice, NextRegistry, NextSwap, NextMetrics, NextPrices,
     NextTrees, NextPage, NextTile, vars, upstreamVars, pageVars, Page!vars
LEMMA StepsOfTile == [Next]_vars /\ subject' = "tile" => subject = "tile" /\ [Tile!Next]_(Tile!vars)
  BY DEF Next, NextRpc, NextStats, NextPrice, NextRegistry, NextSwap, NextMetrics, NextPrices,
     NextTrees, NextPage, NextTile, vars, upstreamVars, tileVars,
     Tile!vars, Tile!serverVars, Tile!serviceVars, Tile!bounds
LEMMA StepsOfMetrics == [Next]_vars /\ subject' = "metrics" => subject = "metrics" /\ [Metrics!Next]_(Metrics!vars)
  BY DEF Next, NextRpc, NextStats, NextPrice, NextRegistry, NextSwap, NextMetrics, NextPrices,
     NextTrees, NextPage, NextTile, vars, diskVars, metricVars, Metrics!vars, Metrics!metricVars
LEMMA StepsOfSwap == [Next]_vars /\ subject' = "swap" => subject = "swap" /\ [Swap!Next]_(Swap!vars)
  BY DEF Next, NextRpc, NextStats, NextPrice, NextRegistry, NextSwap, NextMetrics, NextPrices,
     NextTrees, NextPage, NextTile, vars, cacheVars, callerVars, Swap!vars
LEMMA StepsOfRegistry == [Next]_vars /\ subject' = "registry" => subject = "registry" /\ [Registry!Next]_(Registry!vars)
  BY DEF Next, NextRpc, NextStats, NextPrice, NextRegistry, NextSwap, NextMetrics, NextPrices,
     NextTrees, NextPage, NextTile, vars, cacheVars, callerVars, Registry!vars

-----------------------------------------------------------------------------
(* The RPC pool. *)
CallsAre == call = [c \in Requests |-> call[c]]
FailsRightly == \A c \in Requests : call[c] # "failed" /\ call'[c] = "failed" => c \in Refused \/ ~fallbackUp

LEMMA OneMoves ==
  ASSUME CallsAre, NEW c \in Requests, NEW how, Rpc!Becomes(c, how),
         how = "failed" => c \in Refused \/ ~fallbackUp
  PROVE  CallsAre' /\ FailsRightly
<1> DEFINE calls == [call EXCEPT ![c] = how]
<1>1. call' = calls
  BY DEF Rpc!Becomes
<1>2. calls = [d \in Requests |-> calls[d]] /\ \A d \in Requests : calls[d] = IF d = c THEN how ELSE call[d]
  BY DEF CallsAre
<1> QED BY <1>1, <1>2 DEF CallsAre, FailsRightly

LEMMA RpcKeeps == CallsAre /\ [Rpc!Next]_(Rpc!vars) => CallsAre' /\ FailsRightly
<1> SUFFICES ASSUME CallsAre, [Rpc!Next]_(Rpc!vars) PROVE CallsAre' /\ FailsRightly
  OBVIOUS
<1>1. CASE call' = call
  BY <1>1 DEF CallsAre, FailsRightly
<1>2. CASE UNCHANGED Rpc!vars \/ Rpc!IntervalPasses \/ Rpc!DaemonsMove
  BY <1>1, <1>2 DEF Rpc!vars, Rpc!IntervalPasses, Rpc!DaemonsMove
<1>3. ASSUME NEW c \in Requests, Rpc!Request(c) PROVE CallsAre' /\ FailsRightly
  <2>1. \E how \in {"primary", "fallback", "probe"} : Rpc!Becomes(c, how)
    BY <1>3 DEF Rpc!Request, Rpc!Unchecked, Rpc!ByVerdict, Rpc!Probes
  <2> QED BY <2>1, OneMoves
<1>4. ASSUME NEW c \in Requests, Rpc!CallStep(c) PROVE CallsAre' /\ FailsRightly
  <2>1. CASE Rpc!Retries(c)
    BY <1>1, <2>1 DEF Rpc!Retries
  <2>2. CASE Rpc!ProbeAnswered(c) \/ Rpc!ProbeFails(c) \/ Rpc!Answered(c) \/ Rpc!PrimaryFails(c)
    <3>1. \E how \in {"primary", "fallback", "answered"} : Rpc!Becomes(c, how)
      BY <2>2 DEF Rpc!ProbeAnswered, Rpc!ProbeFails, Rpc!Answered, Rpc!PrimaryFails
    <3> QED BY <3>1, OneMoves
  <2>3. CASE Rpc!FallbackFails(c)
    BY <2>3, OneMoves DEF Rpc!FallbackFails, Rpc!Silent
  <2> QED BY <1>4, <2>1, <2>2, <2>3 DEF Rpc!CallStep
<1>5. CASE Rpc!Next
  BY <1>2, <1>3, <1>4, <1>5 DEF Rpc!Next
<1> QED BY <1>2, <1>5

(* A request that a daemon does not refuse fails only while the fallback is
   silent too: whatever the primary does, at whatever attempt, and however
   the verdict on it is changed meanwhile by other requests. *)
THEOREM PrimaryFailuresAreHidden == Spec => CallsSurvivePrimary
<1>1. Init => CallsAre
  <2>1. Init => Rpc!Init
    BY DEF Init, InitService, InitRpc, InitStats, InitPrice, InitRegistry, InitSwap, InitMetrics, InitPrices,
       ServicesRest, RpcRests
  <2> QED BY <2>1 DEF Rpc!Init, CallsAre
<1>2. CallsAre /\ [Next]_vars => CallsAre'
  BY StepsOfRpc, RpcKeeps
<1>3. CallsAre /\ [Next]_vars => [FailsRightly]_(Rpc!vars)
  BY StepsOfRpc, RpcKeeps
<1>4. CallsSurvivePrimary <=> [][FailsRightly]_(Rpc!vars)
  BY DEF CallsSurvivePrimary, Rpc!CallsSurvivePrimary, FailsRightly
<1> QED BY <1>1, <1>2, <1>3, <1>4, PTL DEF Spec

-----------------------------------------------------------------------------
(* The counts of the migration. *)
IsCounts(f) == DOMAIN f \subseteq 0..Metrics!Today /\ \A d \in DOMAIN f : f[d] \in Nat
(* Between two writes memory is one ahead of the file, for today. *)
Ahead ==
  /\ previous = Metrics!Count(file, Metrics!Today)
  /\ Metrics!Count(days, Metrics!Today) = previous + 1
  /\ \A d \in Metrics!Retained \ {Metrics!Today} : Metrics!Count(days, d) = Metrics!Count(file, d)
Agree == \A d \in Metrics!Retained : Metrics!Count(days, d) = Metrics!Count(file, d)
MetricTypes ==
  /\ now \in Nat
  /\ step \in {"idle", "write", "rename", "down"}
  /\ IsCounts(days) /\ IsCounts(file) /\ IsCounts(counted)
MetricInv ==
  /\ MetricTypes
  /\ \A d \in Metrics!Retained : Metrics!Count(counted, d) <= Metrics!Count(file, d)
  /\ step = "idle" => Agree
  /\ step \in {"write", "rename"} => Ahead
  /\ step = "rename" => tmp = days

LEMMA Dividing == ASSUME NEW a \in Nat PROVE a \div Day \in Nat /\ a \div Day <= (a + 1) \div Day
  BY ServicesAssumption, Z3 DEF ServicesAssumption

LEMMA Todays == ASSUME now \in Nat
                PROVE /\ Metrics!Today \in Nat /\ Metrics!Today \in Metrics!Retained
                      /\ Metrics!Retained \subseteq 0..Metrics!Today
  BY Dividing, ServicesAssumption DEF ServicesAssumption, Metrics!Today, Metrics!Retained

LEMMA Counting == ASSUME NEW f, IsCounts(f), NEW d PROVE Metrics!Count(f, d) \in Nat
  BY DEF IsCounts, Metrics!Count

LEMMA CountsPut ==
  ASSUME now \in Nat, NEW f, IsCounts(f), NEW n \in Nat
  PROVE  /\ IsCounts(Metrics!Put(f, Metrics!Today, n))
         /\ \A d : Metrics!Count(Metrics!Put(f, Metrics!Today, n), d) = IF d = Metrics!Today THEN n ELSE Metrics!Count(f, d)
  BY Todays DEF IsCounts, Metrics!Put, Metrics!Count

LEMMA CountsKept ==
  ASSUME now \in Nat, NEW f, IsCounts(f)
  PROVE  /\ IsCounts(Metrics!Kept(f))
         /\ \A d \in Metrics!Retained : Metrics!Count(Metrics!Kept(f), d) = Metrics!Count(f, d)
  BY Todays DEF IsCounts, Metrics!Kept, Metrics!Count, Metrics!Restrict, Metrics!Retained

LEMMA MetricsStart == Metrics!Init => MetricInv
<1> SUFFICES ASSUME Metrics!Init PROVE MetricInv
  OBVIOUS
<1>1. days = <<>> /\ file = <<>> /\ counted = <<>> /\ now = 0 /\ step = "idle" /\ DOMAIN days = {}
  BY DEF Metrics!Init
<1>2. MetricTypes
  BY <1>1 DEF MetricTypes, IsCounts
<1>3. \A d : Metrics!Count(days, d) = 0 /\ Metrics!Count(file, d) = 0 /\ Metrics!Count(counted, d) = 0
  BY <1>1 DEF Metrics!Count
<1> QED BY <1>1, <1>2, <1>3 DEF MetricInv, Agree

LEMMA MetricsKeep == MetricInv /\ [Metrics!Next]_(Metrics!vars) => MetricInv'
<1> SUFFICES ASSUME MetricInv, [Metrics!Next]_(Metrics!vars) PROVE MetricInv'
  OBVIOUS
<1>1. /\ now \in Nat /\ Metrics!Today \in Nat /\ Metrics!Today \in Metrics!Retained
      /\ IsCounts(days) /\ IsCounts(file) /\ IsCounts(counted)
      /\ Metrics!Retained \subseteq 0..Metrics!Today
  BY Todays DEF MetricInv, MetricTypes
<1>2. ASSUME now' = now
      PROVE  /\ Metrics!Today' = Metrics!Today /\ Metrics!Retained' = Metrics!Retained
             /\ \A f : IsCounts(f)' <=> IsCounts(f)
  BY <1>2 DEF Metrics!Today, Metrics!Retained, IsCounts
<1>3. CASE UNCHANGED Metrics!vars
  BY <1>2, <1>3 DEF Metrics!vars, Metrics!metricVars, MetricInv, MetricTypes, Agree, Ahead
<1>4. CASE Metrics!Record
  <2>1. CASE UNCHANGED <<step, days, previous>>
    BY <1>2, <1>4, <2>1 DEF Metrics!Record, MetricInv, MetricTypes, Agree, Ahead
  <2> DEFINE n == Metrics!Count(days, Metrics!Today)
  <2>2. CASE /\ previous' = n
             /\ days' = Metrics!Put(Metrics!Kept(days), Metrics!Today, n + 1)
             /\ step' = "write"
    <3>1. n \in Nat /\ n = Metrics!Count(file, Metrics!Today) /\ UNCHANGED <<now, tmp, file, counted>>
      BY <1>1, <1>4, Counting DEF Metrics!Record, MetricInv, Agree
    <3> HIDE DEF n
    <3>2. /\ IsCounts(days')
          /\ \A d \in Metrics!Retained :
               Metrics!Count(days', d) = IF d = Metrics!Today THEN n + 1 ELSE Metrics!Count(days, d)
      BY <1>1, <2>2, <3>1, CountsKept, CountsPut, SMTT(30)
    <3>3. Ahead'
      BY <1>1, <1>2, <1>4, <2>2, <3>1, <3>2 DEF Ahead, Agree, MetricInv, Metrics!Record
    <3> QED BY <1>1, <1>2, <2>2, <3>1, <3>2, <3>3 DEF MetricInv, MetricTypes
  <2> QED BY <1>4, <2>1, <2>2 DEF Metrics!Record
<1>5. CASE Metrics!Write
  BY <1>2, <1>5 DEF Metrics!Write, MetricInv, MetricTypes, Ahead
<1>6. CASE Metrics!Rename
  <2> DEFINE m == Metrics!Count(counted, Metrics!Today) + 1
  <2>1. /\ Ahead /\ tmp = days /\ file' = days /\ days' = days /\ step' = "idle" /\ now' = now
        /\ counted' = Metrics!Put(counted, Metrics!Today, m) /\ m \in Nat
    BY <1>1, <1>6, Counting DEF Metrics!Rename, MetricInv
  <2>2. \A d : Metrics!Count(counted', d) = IF d = Metrics!Today THEN m ELSE Metrics!Count(counted, d)
    BY <1>1, <2>1, CountsPut
  <2>3. IsCounts(counted')
    BY <1>1, <2>1, CountsPut
  <2>4. \A d \in Metrics!Retained : Metrics!Count(counted', d) <= Metrics!Count(days, d)
    <3> SUFFICES ASSUME NEW d \in Metrics!Retained PROVE Metrics!Count(counted', d) <= Metrics!Count(days, d)
      OBVIOUS
    <3>1. Metrics!Count(counted, d) <= Metrics!Count(file, d)
      BY DEF MetricInv
    <3>2. Metrics!Count(counted, d) \in Nat /\ Metrics!Count(file, d) \in Nat
      BY <1>1, Counting
    <3> QED BY <2>1, <2>2, <3>1, <3>2 DEF Ahead
  <2> QED BY <1>1, <1>2, <2>1, <2>3, <2>4 DEF MetricInv, MetricTypes, Agree
<1>7. CASE Metrics!Fails
  <2>1. /\ Ahead /\ days' = Metrics!Put(days, Metrics!Today, previous) /\ step' = "idle"
        /\ UNCHANGED <<now, file, counted>> /\ previous \in Nat
    BY <1>1, <1>7, Counting DEF Metrics!Fails, Metrics!Undone, MetricInv, Ahead
  <2>2. /\ IsCounts(days')
        /\ \A d : Metrics!Count(days', d) = IF d = Metrics!Today THEN previous ELSE Metrics!Count(days, d)
    BY <1>1, <2>1, CountsPut
  <2> QED BY <1>1, <1>2, <2>1, <2>2 DEF MetricInv, MetricTypes, Agree, Ahead
<1>8. CASE Metrics!Crash
  <2>1. IsCounts(days')
    BY <1>8 DEF Metrics!Crash, IsCounts
  <2> QED BY <1>2, <1>8, <2>1 DEF Metrics!Crash, MetricInv, MetricTypes
<1>9. CASE Metrics!Start
  <2>1. file # Metrics!Torn
    BY <1>1 DEF IsCounts, Metrics!Torn
  <2> QED BY <1>1, <1>2, <1>9, <2>1, CountsKept DEF Metrics!Start, MetricInv, MetricTypes, Agree
<1>10. CASE Metrics!Tick
  <2>1. Metrics!Today <= Metrics!Today' /\ Metrics!Today' \in Nat /\ now' \in Nat
    BY <1>1, <1>10, Dividing DEF Metrics!Tick, Metrics!Today
  <2>2. \A f : IsCounts(f) => IsCounts(f)' /\ \A d : d \in Metrics!Retained' \ Metrics!Retained => Metrics!Count(f, d) = 0
    BY <1>1, <2>1, ServicesAssumption DEF IsCounts, Metrics!Count, Metrics!Retained, ServicesAssumption
  <2>3. /\ UNCHANGED <<step, days, previous, file, counted>>
        /\ step \in {"idle", "down"}
    BY <1>10 DEF Metrics!Tick, Metrics!metricVars
  <2>4. IsCounts(days)' /\ IsCounts(file)' /\ IsCounts(counted)'
    BY <1>1, <2>2, <2>3 DEF IsCounts
  <2>5. ASSUME NEW d \in Metrics!Retained', d \notin Metrics!Retained
        PROVE  Metrics!Count(days, d) = 0 /\ Metrics!Count(file, d) = 0 /\ Metrics!Count(counted, d) = 0
    BY <1>1, <2>2, <2>5
  <2>6. Agree => Agree'
    BY <2>3, <2>5 DEF Agree, Metrics!Count
  <2>7. \A d \in Metrics!Retained' : Metrics!Count(counted', d) <= Metrics!Count(file', d)
    BY <2>3, <2>5 DEF MetricInv
  <2> QED BY <2>1, <2>3, <2>4, <2>6, <2>7 DEF MetricInv, MetricTypes, Metrics!Count
<1> QED BY <1>3, <1>4, <1>5, <1>6, <1>7, <1>8, <1>9, <1>10 DEF Metrics!Next

(* A count that was answered is never lost, whichever write fails and        *)
(* wherever the server stops, and after a request memory says what the file  *)
(* does: the file is ahead of the answers, and memory of the file only while *)
(* one count is being written.                                               *)
THEOREM CountsAreKept == Spec => []CountsSurvive
<1>1. Init => (subject = "metrics" => MetricInv)
  BY MetricsStart DEF Init, InitService, InitMetrics
<1>2. (subject = "metrics" => MetricInv) /\ [Next]_vars => (subject = "metrics" => MetricInv)'
  BY StepsOfMetrics, MetricsKeep
<1>3. (subject = "metrics" => MetricInv) => CountsSurvive
  <2> SUFFICES ASSUME MetricInv PROVE Metrics!CountsSurvive
    BY DEF CountsSurvive
  <2>1. file # Metrics!Torn
    BY Todays DEF MetricInv, MetricTypes, IsCounts, Metrics!Torn
  <2> QED BY <2>1 DEF MetricInv, Agree, Metrics!CountsSurvive
<1> QED BY <1>1, <1>2, <1>3, PTL DEF Spec

-----------------------------------------------------------------------------
(* The swap ticker. *)
Asked == [key : Questions \cup {Swap!None}, since : Int]
SwapTypes ==
  /\ now \in Nat
  /\ asked \in [Callers -> Asked]
(* What is cached expires a lifetime after it was asked for. *)
TickerDates ==
  /\ kept.since \in Int
  /\ kept = Swap!NoTicker \/ kept.expires = kept.since + TickerTtl
SwapInv == SwapTypes /\ TickerDates /\ Swap!TickerIsRecent

LEMMA SwapStarts == Swap!Init => SwapInv
  BY DEF Swap!Init, SwapInv, SwapTypes, TickerDates, Asked, Swap!NoTicker, Swap!Nobody, Swap!None, Swap!TickerIsRecent

LEMMA SwapKeeps == SwapInv /\ [Swap!Next]_(Swap!vars) => SwapInv'
<1> SUFFICES ASSUME SwapInv, [Swap!Next]_(Swap!vars) PROVE SwapInv'
  OBVIOUS
<1> USE DEF SwapInv, SwapTypes, TickerDates, Asked
<1>1. CASE UNCHANGED Swap!vars
  BY <1>1 DEF Swap!vars, Swap!TickerIsRecent
<1>2. CASE Swap!Tick
  BY <1>2 DEF Swap!Tick, Swap!TickerIsRecent
<1>3. ASSUME NEW c \in Callers, Swap!Answered(c) PROVE SwapInv'
  BY <1>3, ServicesAssumption DEF ServicesAssumption, Swap!Answered, Swap!Ticker, Swap!Nobody, Swap!None, Swap!TickerIsRecent
<1>4. ASSUME NEW c \in Callers, Swap!Fails(c) PROVE SwapInv'
  BY <1>4 DEF Swap!Fails, Swap!Nobody, Swap!None, Swap!TickerIsRecent
<1>5. ASSUME NEW c \in Callers, NEW key \in Questions, Swap!Serve(c, key) PROVE SwapInv'
  <2>1. now - kept.since < TickerTtl /\ kept.key = key
    <3>1. now \in Nat /\ kept.key = key /\ kept.expires > now /\ kept.since \in Int /\ TickerTtl \in Nat
      BY <1>5, ServicesAssumption DEF Swap!Serve, Swap!Holds, ServicesAssumption
    <3>2. kept # Swap!NoTicker
      BY <3>1 DEF Swap!NoTicker
    <3> QED BY <3>1, <3>2
  <2> QED BY <1>5, <2>1 DEF Swap!Serve, Swap!TickerIsRecent
<1>6. ASSUME NEW c \in Callers, NEW key \in Questions, Swap!Ask(c, key) PROVE SwapInv'
  BY <1>6 DEF Swap!Ask, Swap!TickerIsRecent
<1>7. CASE Swap!Next
  BY <1>2, <1>3, <1>4, <1>5, <1>6, <1>7 DEF Swap!Next
<1> QED BY <1>1, <1>7

(* A ticker served from the cache answers the question that was asked, and   *)
(* was asked for less than its lifetime ago, whatever answers overlapped.    *)
THEOREM TickersAreRecent == Spec => []TickerIsRecent
<1>1. Init => (subject = "swap" => SwapInv)
  BY SwapStarts DEF Init, InitService, InitSwap
<1>2. (subject = "swap" => SwapInv) /\ [Next]_vars => (subject = "swap" => SwapInv)'
  BY StepsOfSwap, SwapKeeps
<1>3. (subject = "swap" => SwapInv) => TickerIsRecent
  BY DEF TickerIsRecent, SwapInv
<1> QED BY <1>1, <1>2, <1>3, PTL DEF Spec

-----------------------------------------------------------------------------
(* The proof registry. *)
BuildTypes == [since : Int, answered : SUBSET DOMAIN Feeds, failed : SUBSET DOMAIN Feeds]
RegistryTypes ==
  /\ now \in Nat
  /\ build \in BuildTypes
  /\ asked \in [Callers -> Int]
  /\ kept.expires \in Int /\ kept.since \in Int
(* A build is under way while callers wait for it, and began before they
   asked, no longer ago than a feed takes. *)
Builds ==
  /\ build.since # Registry!None =>
       /\ build.since \in Nat
       /\ build.since <= now /\ now - build.since <= FeedTimeout
       /\ \E c \in Callers : asked[c] # Registry!None
  /\ \A c \in Callers : asked[c] # Registry!None =>
       build.since # Registry!None /\ build.since <= asked[c] /\ asked[c] <= now
(* What is kept expires in time. *)
KeptExpires ==
  \/ kept = Registry!NoAttributions
  \/ kept.expires <= kept.since + AttributionTtl + FeedTimeout
Recent == RegistryTypes /\ Builds /\ KeptExpires /\ Registry!AttributionsAreRecent

LEMMA RecentStarts == Registry!Init => Recent
  BY DEF Registry!Init, Recent, RegistryTypes, BuildTypes, Builds, KeptExpires, Registry!NoBuild, Registry!NoAttributions,
     Registry!None, Registry!AttributionsAreRecent

LEMMA ExpiryIsBounded ==
  ASSUME NEW waiting \in SUBSET Callers, waiting # {}, asked \in [Callers -> Int], NEW b \in Int,
         \A c \in waiting : asked[c] <= b
  PROVE  Registry!Expiry(waiting) \in Int /\ Registry!Expiry(waiting) <= b + AttributionTtl
<1> DEFINE T == {asked[c] : c \in waiting}
<1>1. T \in SUBSET Int /\ T # {} /\ \A x \in T : x <= b
  <2>1. \A x \in T : x \in Int /\ x <= b
    OBVIOUS
  <2>2. \E c \in waiting : asked[c] \in T
    OBVIOUS
  <2> QED BY <2>1, <2>2
<1>2. Registry!Expiry(waiting) = Registry!Max(T) + AttributionTtl
  BY DEF Registry!Expiry
<1> HIDE DEF T
<1>3. \E x \in T : \A y \in T : x >= y
  <2>1. PICK x \in T : \A y \in T : y <= x
    BY <1>1, Greatest
  <2>2. \A y \in T : x >= y
    BY <1>1, <2>1
  <2> QED BY <2>2
<1>4. Registry!Max(T) \in T
  BY <1>3 DEF Registry!Max
<1>5. Registry!Max(T) \in Int /\ Registry!Max(T) <= b /\ AttributionTtl \in Nat
  BY <1>1, <1>4, ServicesAssumption DEF ServicesAssumption
<1> QED BY <1>2, <1>5

LEMMA RecentKeeps == Recent /\ [Registry!Next]_(Registry!vars) => Recent'
<1> SUFFICES ASSUME Recent, [Registry!Next]_(Registry!vars) PROVE Recent'
  OBVIOUS
<1> USE DEF Recent, RegistryTypes, Builds, KeptExpires, Registry!AttributionsAreRecent
<1>1. AttributionTtl \in Nat /\ FeedTimeout \in Nat
  BY ServicesAssumption DEF ServicesAssumption
<1>2. CASE UNCHANGED Registry!vars
  BY <1>2 DEF Registry!vars
<1>3. CASE Registry!Tick
  BY <1>1, <1>3 DEF Registry!Tick, Registry!None
<1>4. CASE Registry!BuildEnds
  <2> DEFINE waiting == {c \in Callers : asked[c] # Registry!None}
  <2>1. /\ build.since # Registry!None
        /\ kept' = [attributions |-> Registry!BuildAttributionMap(build.answered), expires |-> Registry!Expiry(waiting),
                    since |-> build.since, answered |-> build.answered]
        /\ given' = {kept'} /\ build' = Registry!NoBuild /\ now' = now
        /\ asked' = [c \in Callers |-> Registry!None]
    BY <1>4 DEF Registry!BuildEnds
  <2>2. waiting # {} /\ \A c \in waiting : asked[c] <= now
    BY <2>1
  <2>3. Registry!Expiry(waiting) \in Int /\ Registry!Expiry(waiting) <= now + AttributionTtl
    BY <2>2, ExpiryIsBounded
  <2> HIDE DEF waiting
  <2>4. kept'.expires <= kept'.since + AttributionTtl + FeedTimeout /\ kept'.since = build.since
        /\ kept'.expires \in Int
    BY <1>1, <2>1, <2>3
  <2>5. build'.since = Registry!None /\ build' \in BuildTypes
    BY <2>1 DEF Registry!NoBuild, Registry!None, BuildTypes
  <2> QED BY <1>1, <2>1, <2>4, <2>5 DEF Registry!None
<1>5. ASSUME NEW c \in Callers, Registry!Serve(c) PROVE Recent'
  <2>1. kept.expires > now /\ given' = {kept} /\ UNCHANGED <<now, kept, build, asked>>
    BY <1>5 DEF Registry!Serve
  <2>2. kept # Registry!NoAttributions
    BY <2>1 DEF Registry!NoAttributions
  <2> QED BY <1>1, <2>1, <2>2
<1>6. ASSUME NEW c \in Callers, Registry!Wait(c) PROVE Recent'
  <2>1. /\ UNCHANGED <<now, kept>> /\ given' = {} /\ asked' = [asked EXCEPT ![c] = now]
        /\ build'.since = IF build.since = Registry!None THEN now ELSE build.since
    BY <1>6 DEF Registry!Wait, Registry!NoBuild
  <2>2. build' \in BuildTypes
    BY <1>6 DEF Registry!Wait, Registry!NoBuild, Registry!None, BuildTypes
  <2> QED BY <1>1, <2>1, <2>2 DEF Registry!None
<1>7. ASSUME NEW i \in DOMAIN Feeds, Registry!FeedAnswers(i) PROVE Recent'
  <2>1. UNCHANGED <<now, kept, asked>> /\ given' = {}
    BY <1>7 DEF Registry!FeedAnswers
  <2>2. build'.since = build.since
        /\ build' \in BuildTypes
    BY <1>7 DEF BuildTypes, Registry!FeedAnswers
  <2> QED BY <2>1, <2>2
<1>8. CASE Registry!Next
  BY <1>3, <1>4, <1>5, <1>6, <1>7, <1>8 DEF Registry!Next
<1> QED BY <1>2, <1>8

-----------------------------------------------------------------------------
(* What a map says of the feeds that answered. *)
Attributes(map, answered) ==
  /\ DOMAIN map = Registry!Claimed(answered)
  /\ \A b \in DOMAIN map :
       /\ map[b] \in answered
       /\ b \in Feeds[map[b]].blocks
       /\ Feeds[map[b]].proof = (b \in Registry!Proven(answered))

LEMMA FeedList == /\ Len(Feeds) \in Nat /\ DOMAIN Feeds = 1..Len(Feeds)
                  /\ \A i \in DOMAIN Feeds : Feeds[i].proof \in BOOLEAN /\ Feeds[i].blocks \subseteq Registry!Blocks
<1>1. Feeds \in Seq([blocks : SUBSET Registry!Blocks, proof : BOOLEAN])
  BY ServicesAssumption DEF ServicesAssumption
<1> HIDE DEF Registry!Blocks
<1>2. Len(Feeds) \in Nat /\ DOMAIN Feeds = 1..Len(Feeds)
  BY <1>1
<1>3. ASSUME NEW i \in DOMAIN Feeds PROVE Feeds[i].proof \in BOOLEAN /\ Feeds[i].blocks \subseteq Registry!Blocks
  <2>1. PICK F : F = [blocks : SUBSET Registry!Blocks, proof : BOOLEAN]
    OBVIOUS
  <2>2. Feeds \in Seq(F)
    BY <1>1, <2>1
  <2>3. Feeds[i] \in F
    BY <2>2
  <2> QED BY <2>1, <2>3
<1> QED BY <1>2, <1>3

LEMMA CollapseAdds ==
  ASSUME NEW answered \in SUBSET DOMAIN Feeds, NEW map, Attributes(map, answered), NEW i \in DOMAIN Feeds
  PROVE  Attributes(Registry!Collapse(map, i), answered \cup {i})
<1> DEFINE new == Registry!Collapse(map, i)
           more == answered \cup {i}
           yields(b) == b \in DOMAIN map /\ Feeds[map[b]].proof /\ ~Feeds[i].proof
<1>1. /\ DOMAIN new = DOMAIN map \cup Feeds[i].blocks
      /\ \A b \in DOMAIN new : new[b] = IF b \in Feeds[i].blocks /\ ~yields(b) THEN i ELSE map[b]
  BY DEF Registry!Collapse
<1> HIDE DEF new
<1>2. Registry!Claimed(more) = Registry!Claimed(answered) \cup Feeds[i].blocks
  BY DEF Registry!Claimed
<1>3. \A b : b \in Registry!Proven(more) <=> b \in Registry!Proven(answered) \/ (Feeds[i].proof /\ b \in Feeds[i].blocks)
  BY DEF Registry!Proven, Registry!Claimed
<1>4. \A j \in more : Feeds[j].proof \in BOOLEAN
  BY FeedList
<1>5. ASSUME NEW b \in DOMAIN new
      PROVE  /\ new[b] \in more /\ b \in Feeds[new[b]].blocks
             /\ Feeds[new[b]].proof = (b \in Registry!Proven(more))
  <2>1. CASE b \in Feeds[i].blocks /\ ~yields(b)
    <3>1. new[b] = i
      BY <1>1, <2>1
    <3>2. CASE Feeds[i].proof
      BY <1>3, <1>4, <2>1, <3>1, <3>2
    <3>3. CASE ~Feeds[i].proof
      <4>1. b \notin Registry!Proven(answered)
        <5>1. CASE b \in DOMAIN map
          BY <2>1, <3>3, <5>1 DEF Attributes
        <5>2. CASE b \notin DOMAIN map
          BY <5>2 DEF Attributes, Registry!Proven, Registry!Claimed
        <5> QED BY <5>1, <5>2
      <4> QED BY <1>3, <1>4, <2>1, <3>1, <3>3, <4>1
    <3> QED BY <3>2, <3>3
  <2>2. CASE b \in Feeds[i].blocks /\ yields(b)
    BY <1>1, <1>3, <2>2 DEF Attributes
  <2>3. CASE b \notin Feeds[i].blocks
    BY <1>1, <1>3, <2>3 DEF Attributes
  <2> QED BY <2>1, <2>2, <2>3
<1> QED BY <1>1, <1>2, <1>5 DEF Attributes, new

(* The recursion of BuildAttributionMap, unfolded. *)
Maps == UNION {[D -> DOMAIN Feeds] : D \in SUBSET Registry!Blocks}
BuildsStepwise(answered) ==
  \E g \in [0..Len(Feeds) -> Maps] :
    /\ g[0] = <<>> /\ Registry!BuildAttributionMap(answered) = g[Len(Feeds)]
    /\ \A m \in 1..Len(Feeds) : g[m] = IF m \in answered THEN Registry!Collapse(g[m - 1], m) ELSE g[m - 1]

LEMMA CollapsedMap == ASSUME NEW map \in Maps, NEW i \in DOMAIN Feeds PROVE Registry!Collapse(map, i) \in Maps
<1>1. PICK D \in SUBSET Registry!Blocks : map \in [D -> DOMAIN Feeds]
  BY DEF Maps
<1>2. D \cup Feeds[i].blocks \in SUBSET Registry!Blocks
  BY FeedList
<1>3. Registry!Collapse(map, i) \in [D \cup Feeds[i].blocks -> DOMAIN Feeds]
  BY <1>1 DEF Registry!Collapse
<1> QED BY <1>2, <1>3 DEF Maps

LEMMA BuildSteps == ASSUME NEW answered PROVE BuildsStepwise(answered)
<1> DEFINE n == Len(Feeds)
           Goes(f) == f = [m \in 0..n |-> IF m = 0 THEN <<>>
                                          ELSE IF m \in answered THEN Registry!Collapse(f[m - 1], m) ELSE f[m - 1]]
           g == CHOOSE f : Goes(f)
           moved == [x \in (1..n) \X Maps |-> IF x[1] \in answered THEN Registry!Collapse(x[2], x[1]) ELSE x[2]]
<1>1. n \in Nat /\ DOMAIN Feeds = 1..n
  BY FeedList
<1>2. Registry!BuildAttributionMap(answered) = g[n]
  BY DEF Registry!BuildAttributionMap
<1>3. <<>> \in Maps
  BY DEF Maps
<1>4. moved \in [(1..n) \X Maps -> Maps]
  BY <1>1, CollapsedMap
<1>5. Iterates(n, Maps, <<>>, moved)
  <2> HIDE DEF moved, n
  <2> QED BY <1>1, <1>3, <1>4, Recursion
<1>6. PICK f \in [0..n -> Maps] : f[0] = <<>> /\ \A i \in 1..n : f[i] = moved[<<i, f[i - 1]>>]
  BY <1>5 DEF Iterates
<1> HIDE DEF n
<1>7. ASSUME NEW i \in 1..n PROVE f[i] = IF i \in answered THEN Registry!Collapse(f[i - 1], i) ELSE f[i - 1]
  <2>1. <<i, f[i - 1]>> \in (1..n) \X Maps
    BY <1>1
  <2> QED BY <1>6, <2>1
<1> HIDE DEF moved
<1>8. Goes(f)
  <2>1. f = [m \in 0..n |-> f[m]]
    OBVIOUS
  <2>2. \A m \in 0..n : f[m] = IF m = 0 THEN <<>>
                               ELSE IF m \in answered THEN Registry!Collapse(f[m - 1], m) ELSE f[m - 1]
    BY <1>1, <1>6, <1>7
  <2> QED BY <2>1, <2>2
<1>9. Goes(g)
  BY <1>8
<1> HIDE DEF g
<1>10. g[0] = <<>> /\ \A m \in 1..n : g[m] = IF m \in answered THEN Registry!Collapse(g[m - 1], m) ELSE g[m - 1]
  <2>1. \A m \in 0..n : g[m] = IF m = 0 THEN <<>>
                               ELSE IF m \in answered THEN Registry!Collapse(g[m - 1], m) ELSE g[m - 1]
    BY <1>9
  <2>2. 0 \in 0..n /\ \A m \in 1..n : m \in 0..n /\ m # 0
    BY <1>1
  <2> QED BY <2>1, <2>2
<1>11. g = f
  <2> DEFINE T == {m \in 0..n : g[m] = f[m]}
  <2>1. 0 \in T
    BY <1>1, <1>6, <1>10
  <2>2. \A m \in 0..(n - 1) : m \in T => m + 1 \in T
    <3> TAKE m \in 0..(n - 1)
    <3> HAVE m \in T
    <3>1. m + 1 \in 1..n /\ (m + 1) - 1 = m /\ m + 1 \in 0..n
      BY <1>1
    <3> QED BY <1>7, <1>10, <3>1
  <2>3. \A m \in 0..n : m \in T
    <3> HIDE DEF T
    <3> QED BY <1>1, <2>1, <2>2, UpTo
  <2>4. g = [m \in 0..n |-> g[m]]
    BY <1>9
  <2> QED BY <2>3, <2>4
<1> QED BY <1>2, <1>10, <1>11 DEF n, BuildsStepwise

LEMMA BuiltMap == ASSUME NEW answered \in SUBSET DOMAIN Feeds
                  PROVE  Attributes(Registry!BuildAttributionMap(answered), answered)
<1> DEFINE n == Len(Feeds)
           first(m) == {i \in answered : i <= m}
<1>1. n \in Nat /\ DOMAIN Feeds = 1..n
  BY FeedList
<1>2. PICK g \in [0..n -> Maps] :
        /\ g[0] = <<>> /\ Registry!BuildAttributionMap(answered) = g[n]
        /\ \A m \in 1..n : g[m] = IF m \in answered THEN Registry!Collapse(g[m - 1], m) ELSE g[m - 1]
  BY BuildSteps DEF BuildsStepwise
<1> DEFINE T == {m \in 0..n : Attributes(g[m], first(m))}
<1>3. 0 \in T
  <2>1. first(0) = {} /\ 0 \in 0..n
    BY <1>1
  <2>2. DOMAIN g[0] = {}
    BY <1>2
  <2> QED BY <2>1, <2>2 DEF Attributes, Registry!Claimed
<1>4. \A m \in 0..(n - 1) : m \in T => m + 1 \in T
  <2> TAKE m \in 0..(n - 1)
  <2> HAVE m \in T
  <2>1. m + 1 \in 1..n /\ (m + 1) - 1 = m /\ m + 1 \in 0..n /\ m + 1 \in DOMAIN Feeds
    BY <1>1
  <2>2. CASE m + 1 \in answered
    <3>1. first(m + 1) = first(m) \cup {m + 1}
      BY <1>1, <2>1, <2>2
    <3>2. g[m + 1] = Registry!Collapse(g[m], m + 1)
      BY <1>2, <2>1, <2>2
    <3>3. first(m) \in SUBSET DOMAIN Feeds
      OBVIOUS
    <3> QED BY <2>1, <3>1, <3>2, <3>3, CollapseAdds
  <2>3. CASE m + 1 \notin answered
    <3>1. first(m + 1) = first(m)
      BY <1>1, <2>1, <2>3
    <3>2. g[m + 1] = g[m]
      BY <1>2, <2>1, <2>3
    <3> QED BY <2>1, <3>1, <3>2
  <2> QED BY <2>2, <2>3
<1>5. n \in T
  <2>1. \A m \in 0..n : m \in T
    <3> HIDE DEF T, n
    <3> QED BY <1>1, <1>3, <1>4, UpTo
  <2> QED BY <1>1, <2>1
<1>6. first(n) = answered
  BY <1>1
<1> QED BY <1>2, <1>5, <1>6

Built == \A k \in given \cup {kept} : Attributes(k.attributions, k.answered)
RegistryInv == Recent /\ Built

LEMMA RegistryStarts == Registry!Init => RegistryInv
<1>1. Registry!Init => Built
  <2> SUFFICES ASSUME Registry!Init PROVE Built
    OBVIOUS
  <2>1. given = {} /\ kept.attributions = <<>> /\ kept.answered = {}
    BY DEF Registry!Init, Registry!NoAttributions
  <2>2. DOMAIN kept.attributions = {}
    BY <2>1
  <2> QED BY <2>1, <2>2 DEF Built, Attributes, Registry!Claimed
<1> QED BY <1>1, RecentStarts DEF RegistryInv

LEMMA BuiltKeeps == Recent /\ Built /\ [Registry!Next]_(Registry!vars) => Built'
<1> SUFFICES ASSUME Recent, Built, [Registry!Next]_(Registry!vars) PROVE Built'
  OBVIOUS
<1>0. ASSUME kept' = kept, given' \subseteq given \cup {kept} PROVE Built'
  BY <1>0 DEF Built, Attributes, Registry!Claimed, Registry!Proven
<1>1. CASE UNCHANGED Registry!vars
  BY <1>0, <1>1 DEF Registry!vars
<1>2. CASE Registry!Tick
  BY <1>0, <1>2 DEF Registry!Tick
<1>3. CASE Registry!BuildEnds
  <2> DEFINE answered == build.answered
  <2>1. /\ kept'.attributions = Registry!BuildAttributionMap(answered)
        /\ kept'.answered = answered /\ given' = {kept'}
    BY <1>3 DEF Registry!BuildEnds
  <2>2. answered \in SUBSET DOMAIN Feeds
    BY DEF Recent, RegistryTypes, BuildTypes
  <2>3. Attributes(Registry!BuildAttributionMap(answered), answered)
    BY <2>2, BuiltMap
  <2>4. Attributes(kept'.attributions, kept'.answered)
    BY <2>1, <2>3
  <2> QED BY <2>1, <2>4 DEF Built, Attributes, Registry!Claimed, Registry!Proven
<1>4. ASSUME NEW c \in Callers, Registry!Serve(c) PROVE Built'
  BY <1>0, <1>4 DEF Registry!Serve
<1>5. ASSUME NEW c \in Callers, Registry!Wait(c) PROVE Built'
  BY <1>0, <1>5 DEF Registry!Wait
<1>6. ASSUME NEW i \in DOMAIN Feeds, Registry!FeedAnswers(i) PROVE Built'
  BY <1>0, <1>6 DEF Registry!FeedAnswers
<1> QED BY <1>1, <1>2, <1>3, <1>4, <1>5, <1>6 DEF Registry!Next

LEMMA RegistryKeeps == RegistryInv /\ [Registry!Next]_(Registry!vars) => RegistryInv'
  BY RecentKeeps, BuiltKeeps DEF RegistryInv

(* No attribution is shown that is older than its lifetime and one build:    *)
(* callers that join a build set the lifetime by when they asked, and none   *)
(* of them asked later than the build ended.                                 *)
THEOREM AttributionsExpire == Spec => []AttributionsAreRecent
<1>1. Init => (subject = "registry" => RegistryInv)
  BY RegistryStarts DEF Init, InitService, InitRegistry
<1>2. (subject = "registry" => RegistryInv) /\ [Next]_vars => (subject = "registry" => RegistryInv)'
  BY StepsOfRegistry, RegistryKeeps
<1>3. (subject = "registry" => RegistryInv) => AttributionsAreRecent
  BY DEF AttributionsAreRecent, RegistryInv, Recent
<1> QED BY <1>1, <1>2, <1>3, PTL DEF Spec

(* An attribution comes from a feed that answered and claims the block, and  *)
(* the proof wins wherever its feed stands among those that answered.        *)
THEOREM ProofsPrevail == Spec => []ProofsWin
<1>1. Init => (subject = "registry" => RegistryInv)
  BY RegistryStarts DEF Init, InitService, InitRegistry
<1>2. (subject = "registry" => RegistryInv) /\ [Next]_vars => (subject = "registry" => RegistryInv)'
  BY StepsOfRegistry, RegistryKeeps
<1>3. (subject = "registry" => RegistryInv) => ProofsWin
  <2> SUFFICES ASSUME RegistryInv PROVE Registry!ProofsWin
    BY DEF ProofsWin
  <2> QED BY DEF RegistryInv, Built, Attributes, Registry!ProofsWin
<1> QED BY <1>1, <1>2, <1>3, PTL DEF Spec

-----------------------------------------------------------------------------
(* The connection. *)
(* The guard of the second timer is goneOffline, while what matters is the   *)
(* socket: a socket that is down always counts as an outage.                 *)
Reconnects ==
  /\ socket \in {"connecting", "open", "down"}
  /\ goneOffline \in BOOLEAN
  /\ socket = "down" => goneOffline
  /\ Page!OneReconnect

LEMMA InitReconnects == Page!Init => Reconnects
  BY DEF Page!Init, Reconnects, Page!OneReconnect

LEMMA StepReconnects == Reconnects /\ [Page!Next]_(Page!vars) => Reconnects'
<1> SUFFICES ASSUME Reconnects, [Page!Next]_(Page!vars) PROVE Reconnects'
  OBVIOUS
<1> USE DEF Reconnects, Page!OneReconnect
<1>1. CASE Page!Opens \/ Page!LinkDies \/ Page!Hears \/ Page!PingFires
  BY <1>1 DEF Page!Opens, Page!LinkDies, Page!Hears, Page!PingFires, Page!StartOnlineCheck
<1>2. CASE Page!Fails
  BY <1>2 DEF Page!Fails, Page!GoOffline
<1>3. CASE Page!PongFires
  <2>1. CASE goneOffline
    BY <1>3, <2>1 DEF Page!PongFires
  <2>2. CASE ~goneOffline
    BY <1>3, <2>2 DEF Page!PongFires, Page!GoOffline
  <2> QED BY <2>1, <2>2
<1>4. CASE Page!RetryFires
  BY <1>4 DEF Page!RetryFires
<1>5. CASE UNCHANGED Page!vars
  BY <1>5 DEF Page!vars
<1> QED BY <1>1, <1>2, <1>3, <1>4, <1>5 DEF Page!Next

(* An outage has one retry under way and a connection that works has none:   *)
(* the error callback and the timers may notice the same outage in any order,*)
(* and none of them replaces a socket that another has opened.               *)
THEOREM OneReconnectAtATime == Spec => []OneReconnect
<1>1. Init => (subject = "page" => Reconnects)
  BY InitReconnects DEF Init, InitService
<1>2. (subject = "page" => Reconnects) /\ [Next]_vars => (subject = "page" => Reconnects)'
  BY StepsOfPage, StepReconnects
<1>3. (subject = "page" => Reconnects) => OneReconnect
  BY DEF OneReconnect, Reconnects
<1> QED BY <1>1, <1>2, <1>3, PTL DEF Spec

-----------------------------------------------------------------------------
(* The tile. *)
Tracks == Indexes \cup {Tile!None}

TileTypes ==
  /\ uplink \in Seq(Tracks) /\ trackingMempoolBlock \in Tracks
  /\ isTrackingMempoolBlock \in BOOLEAN /\ offline \in BOOLEAN
(* The server forgets a page that is gone, and a page whose stop is delayed  *)
(* does not believe to track: the timer cannot take back a new subscription. *)
ClosedIsForgotten == ~open => tracked = Tile!None /\ wire = <<>>
StopsWhatIsLeft == stopping => ~isTrackingMempoolBlock
TileInv == TileTypes /\ ClosedIsForgotten /\ StopsWhatIsLeft /\ Tile!SubscriptionAgrees

-----------------------------------------------------------------------------
(* What is written last is what the server tracks in the end. *)
LEMMA LastCounts ==
  ASSUME NEW u \in Seq(Tracks), NEW ms \in Seq(Tracks), ms # <<>>
  PROVE  u \o ms \in Seq(Tracks) /\ u \o ms # <<>> /\ (u \o ms)[Len(u \o ms)] = ms[Len(ms)]
  OBVIOUS

LEMMA Taking ==
  ASSUME NEW u \in Seq(Tracks), u # <<>>
  PROVE  /\ Tail(u) \in Seq(Tracks)
         /\ Tail(u) = <<>> => Head(u) = u[Len(u)]
         /\ Tail(u) # <<>> => Tail(u)[Len(Tail(u))] = u[Len(u)]
<1> DEFINE v == Tail(u)
<1>1. /\ v \in Seq(Tracks) /\ Len(v) = Len(u) - 1 /\ Len(u) \in Nat /\ Len(u) > 0
      /\ Head(u) = u[1]
      /\ \A n \in 1..(Len(u) - 1) : v[n] = u[n + 1]
  OBVIOUS
<1> HIDE DEF v
<1>2. v = <<>> => Head(u) = u[Len(u)]
  <2> SUFFICES ASSUME v = <<>> PROVE Head(u) = u[Len(u)]
    OBVIOUS
  <2>1. Len(v) = 0
    OBVIOUS
  <2>2. Len(u) = 1
    BY <1>1, <2>1
  <2> QED BY <1>1, <2>2
<1>3. v # <<>> => v[Len(v)] = u[Len(u)]
  <2> SUFFICES ASSUME v # <<>> PROVE v[Len(v)] = u[Len(u)]
    OBVIOUS
  <2>1. Len(v) \in 1..(Len(u) - 1) /\ Len(v) + 1 = Len(u)
    BY <1>1
  <2> QED BY <1>1, <2>1
<1> QED BY <1>1, <1>2, <1>3 DEF v

(* The requests of one visit, if any, are all for the same block. *)
LEMMA SameRequests ==
  ASSUME NEW i \in Indexes, NEW duplicate \in BOOLEAN
  PROVE  Tile!Unless(duplicate, i) \in Seq({i}) /\ (Tile!Unless(duplicate, i) = <<>> <=> duplicate)
<1>1. <<i>> \in Seq({i}) /\ <<>> \in Seq({i}) /\ <<i>> # <<>>
  OBVIOUS
<1>2. CASE duplicate
  BY <1>1, <1>2 DEF Tile!Unless
<1>3. CASE ~duplicate
  BY <1>1, <1>3 DEF Tile!Unless
<1> QED BY <1>2, <1>3

LEMMA LastOfSame ==
  ASSUME NEW i \in Indexes, NEW ms \in Seq({i})
  PROVE  ms \in Seq(Tracks) /\ (ms # <<>> => ms[Len(ms)] = i)
<1>1. {i} \subseteq Tracks
  BY DEF Tracks
<1>2. Seq({i}) \subseteq Seq(Tracks)
  BY <1>1
<1> QED BY <1>2

LEMMA InitTile == Tile!Init => TileInv
<1> SUFFICES ASSUME Tile!Init PROVE TileInv
  OBVIOUS
<1>1. TileTypes
  <2>1. uplink \in Seq(Tracks) /\ trackingMempoolBlock \in Tracks
    BY DEF Tile!Init, Tracks
  <2>2. isTrackingMempoolBlock \in BOOLEAN /\ offline \in BOOLEAN
    BY DEF Tile!Init
  <2> QED BY <2>1, <2>2 DEF TileTypes
<1>2. ClosedIsForgotten /\ StopsWhatIsLeft
  BY DEF Tile!Init, ClosedIsForgotten, StopsWhatIsLeft
<1>3. Tile!SubscriptionAgrees
  BY DEF Tile!Init, Tile!SubscriptionAgrees
<1> QED BY <1>1, <1>2, <1>3 DEF TileInv

LEMMA ServerTile ==
  ASSUME TileInv,
         \/ Tile!HandleConnection \/ Tile!TrackMempoolBlock \/ Tile!SendSnapshot \/ Tile!RefreshTrackedProjectedBlocks
         \/ \E i \in Indexes : Tile!SendProjectedBlockTransactions(i)
  PROVE  TileInv'
<1>1. UNCHANGED Tile!serviceVars
  BY DEF Tile!HandleConnection, Tile!TrackMempoolBlock, Tile!SendSnapshot, Tile!RefreshTrackedProjectedBlocks,
     Tile!SendProjectedBlockTransactions
<1>2. CASE Tile!HandleConnection
  BY <1>1, <1>2 DEF Tile!HandleConnection, Tile!serviceVars, TileInv, TileTypes, ClosedIsForgotten,
     StopsWhatIsLeft, Tile!SubscriptionAgrees, Tile!Requested
<1>3. CASE Tile!TrackMempoolBlock
  <2>1. /\ open' = open /\ open /\ uplink # <<>> /\ uplink \in Seq(Tracks)
        /\ tracked' = Head(uplink) /\ uplink' = Tail(uplink)
    BY <1>3 DEF Tile!TrackMempoolBlock, TileInv, TileTypes
  <2>2. /\ Tail(uplink) \in Seq(Tracks)
        /\ Tail(uplink) = <<>> => Head(uplink) = uplink[Len(uplink)]
        /\ Tail(uplink) # <<>> => Tail(uplink)[Len(Tail(uplink))] = uplink[Len(uplink)]
    BY <2>1, Taking
  <2>3. Tile!Requested' = uplink[Len(uplink)]
    BY <2>1, <2>2 DEF Tile!Requested
  <2> QED
    BY <1>1, <2>1, <2>2, <2>3 DEF Tile!serviceVars, TileInv, TileTypes, ClosedIsForgotten, StopsWhatIsLeft,
       Tile!SubscriptionAgrees, Tile!Requested
<1>4. CASE Tile!SendSnapshot \/ Tile!RefreshTrackedProjectedBlocks \/ \E i \in Indexes : Tile!SendProjectedBlockTransactions(i)
  <2>1. open /\ UNCHANGED <<open, tracked, uplink>>
    BY <1>4 DEF Tile!SendSnapshot, Tile!RefreshTrackedProjectedBlocks, Tile!SendProjectedBlockTransactions, Tile!serverVars
  <2> QED
    BY <1>1, <2>1 DEF Tile!serviceVars, TileInv, TileTypes, ClosedIsForgotten, StopsWhatIsLeft,
       Tile!SubscriptionAgrees, Tile!Requested
<1> QED BY <1>2, <1>3, <1>4

(* A visit: what is asked for is i, or it was asked for already. *)
LEMMA StartTracks ==
  ASSUME TileInv, UNCHANGED <<Tile!serverVars, wire, offline>>,
         NEW i \in Indexes, NEW ms \in Seq({i}), ms = <<>> => trackingMempoolBlock = i,
         Tile!StartTrackMempoolBlock(i, ms)
  PROVE  TileInv'
<1>1. /\ uplink \in Seq(Tracks) /\ ms \in Seq(Tracks) /\ i \in Tracks
      /\ UNCHANGED <<open, tracked>>
      /\ stopping' = FALSE /\ trackingMempoolBlock' = i
      /\ isTrackingMempoolBlock' = (isTrackingMempoolBlock \/ ms # <<>>)
      /\ uplink' = IF ~open /\ offline THEN uplink ELSE uplink \o ms
  <2>1. ms \in Seq(Tracks) /\ i \in Tracks
    BY LastOfSame DEF Tracks
  <2>2. uplink \in Seq(Tracks) /\ UNCHANGED <<open, tracked>>
    BY DEF TileInv, TileTypes, Tile!serverVars
  <2>3. /\ stopping' = FALSE /\ trackingMempoolBlock' = i
        /\ isTrackingMempoolBlock' = (isTrackingMempoolBlock \/ ms # <<>>)
        /\ uplink' = IF ~open /\ offline THEN uplink ELSE uplink \o ms
    BY DEF Tile!StartTrackMempoolBlock, Tile!Sends
  <2> QED BY <2>1, <2>2, <2>3
<1>2. uplink \o ms \in Seq(Tracks)
  BY <1>1
<1>3. TileTypes'
  BY <1>1, <1>2 DEF TileInv, TileTypes
<1>4. Tile!SubscriptionAgrees'
  <2> SUFFICES ASSUME isTrackingMempoolBlock', ~offline
               PROVE  Tile!Requested' = i
    BY <1>1 DEF Tile!SubscriptionAgrees
  <2>1. CASE ms = <<>>
    <3>1. uplink' = uplink /\ isTrackingMempoolBlock
      <4>1. uplink \o <<>> = uplink
        BY <1>1
      <4> QED BY <1>1, <2>1, <4>1
    <3>2. Tile!Requested = i
      BY <2>1, <3>1 DEF TileInv, Tile!SubscriptionAgrees
    <3> QED BY <1>1, <3>1, <3>2 DEF Tile!Requested
  <2>2. CASE ms # <<>>
    <3>1. ms \in Seq(Tracks) /\ ms[Len(ms)] = i /\ uplink' = uplink \o ms
      <4>1. open \/ ~offline
        BY <1>1
      <4> QED BY <1>1, <2>2, <4>1, LastOfSame
    <3> QED BY <1>1, <2>2, <3>1, LastCounts DEF Tile!Requested
  <2> QED BY <2>1, <2>2
<1> QED BY <1>1, <1>3, <1>4 DEF TileInv, ClosedIsForgotten, StopsWhatIsLeft

LEMMA VisitTile ==
  ASSUME TileInv, NEW i \in Indexes, Tile!Opens(i) \/ Tile!OpensPage(i) \/ Tile!ChangesIndex(i)
  PROVE  TileInv'
<1>1. UNCHANGED <<Tile!serverVars, wire, offline>>
  BY DEF Tile!Opens, Tile!OpensPage, Tile!ChangesIndex, Tile!Visits
<1>2. CASE UNCHANGED <<uplink, isTrackingMempoolBlock, trackingMempoolBlock, stopping>>
  BY <1>1, <1>2 DEF Tile!serverVars, TileInv, TileTypes, ClosedIsForgotten, StopsWhatIsLeft,
     Tile!SubscriptionAgrees, Tile!Requested
<1>3. CASE Tile!StartTrackMempoolBlock(i, <<i>>)
  <2>1. <<i>> \in Seq({i}) /\ <<i>> # <<>>
    OBVIOUS
  <2> QED BY <1>1, <1>3, <2>1, StartTracks
<1>4. CASE Tile!OpensPage(i)
  <2> DEFINE ms1 == Tile!Unless(trackingMempoolBlock = i, i)
             ms2 == Tile!Unless(mempoolBlockState = i, i)
  <2>1. /\ ms1 \in Seq({i}) /\ (ms1 = <<>> <=> trackingMempoolBlock = i)
        /\ ms2 \in Seq({i})
    BY SameRequests
  <2>2. Tile!StartTrackMempoolBlock(i, ms1 \o ms2)
    BY <1>4 DEF Tile!OpensPage
  <2> HIDE DEF ms1, ms2
  <2>3. ms1 \o ms2 \in Seq({i}) /\ (ms1 \o ms2 = <<>> => ms1 = <<>>)
    BY <2>1
  <2> QED BY <1>1, <2>1, <2>2, <2>3, StartTracks
<1>5. CASE Tile!ChangesIndex(i)
  <2> DEFINE ms == Tile!Unless(trackingMempoolBlock = i, i)
  <2>1. ms \in Seq({i}) /\ (ms = <<>> <=> trackingMempoolBlock = i)
    BY SameRequests
  <2>2. Tile!StartTrackMempoolBlock(i, ms)
    BY <1>5 DEF Tile!ChangesIndex
  <2> HIDE DEF ms
  <2> QED BY <1>1, <2>1, <2>2, StartTracks
<1> QED BY <1>2, <1>3, <1>4, <1>5 DEF Tile!Opens

LEMMA PageTile ==
  ASSUME TileInv, Tile!StopTimerFires \/ Tile!Receive \/ Tile!GoesOffline \/ Tile!Closes
  PROVE  TileInv'
<1>1. CASE Tile!StopTimerFires
  <2>1. /\ UNCHANGED <<open, tracked, wire, isTrackingMempoolBlock, offline>>
        /\ stopping /\ ~isTrackingMempoolBlock /\ trackingMempoolBlock' = Tile!None /\ stopping' = FALSE
        /\ uplink \in Seq(Tracks) /\ <<Tile!None>> \in Seq(Tracks)
    BY <1>1 DEF Tile!StopTimerFires, Tile!serverVars, TileInv, TileTypes, StopsWhatIsLeft, Tracks
  <2>2. uplink' \in Seq(Tracks)
    BY <1>1, <2>1, LastCounts DEF Tile!StopTimerFires, Tile!Sends
  <2> QED
    BY <2>1, <2>2 DEF TileInv, TileTypes, Tracks, ClosedIsForgotten, StopsWhatIsLeft, Tile!SubscriptionAgrees
<1>2. CASE Tile!Receive
  <2>1. /\ UNCHANGED <<open, tracked>> /\ wire # <<>> /\ offline' = FALSE
        /\ open
        /\ uplink \in Seq(Tracks) /\ trackingMempoolBlock \in Tracks
    BY <1>2 DEF Tile!Receive, Tile!serverVars, TileInv, TileTypes, ClosedIsForgotten
  <2>2. CASE Tile!Resubscribes
    <3>1. /\ uplink' = uplink \o <<trackingMempoolBlock>> /\ stopping' = FALSE
          /\ trackingMempoolBlock' = trackingMempoolBlock
          /\ isTrackingMempoolBlock' \in BOOLEAN
      BY <1>2, <2>1, <2>2 DEF Tile!Receive, Tile!StartTrackMempoolBlock, Tile!Sends
    <3>2. uplink' \in Seq(Tracks) /\ Tile!Requested' = trackingMempoolBlock
      <4>1. <<trackingMempoolBlock>> \in Seq(Tracks) /\ <<trackingMempoolBlock>> # <<>>
            /\ <<trackingMempoolBlock>>[Len(<<trackingMempoolBlock>>)] = trackingMempoolBlock
        BY <2>1
      <4> QED BY <2>1, <3>1, <4>1, LastCounts DEF Tile!Requested
    <3> QED
      BY <2>1, <3>1, <3>2 DEF TileInv, TileTypes, ClosedIsForgotten, StopsWhatIsLeft, Tile!SubscriptionAgrees
  <2>3. CASE ~Tile!Resubscribes
    <3>1. UNCHANGED <<uplink, isTrackingMempoolBlock, trackingMempoolBlock, stopping>>
      BY <1>2, <2>3 DEF Tile!Receive
    <3> QED
      BY <2>1, <2>3, <3>1 DEF Tile!Resubscribes, TileInv, TileTypes, ClosedIsForgotten, StopsWhatIsLeft,
         Tile!SubscriptionAgrees, Tile!Requested
  <2> QED BY <2>2, <2>3
<1>3. CASE Tile!GoesOffline
  BY <1>3 DEF Tile!GoesOffline, TileInv, TileTypes, ClosedIsForgotten, StopsWhatIsLeft, Tile!SubscriptionAgrees
<1>4. CASE Tile!Closes
  BY <1>4 DEF Tile!Closes, Tile!serverVars, TileInv, TileTypes, ClosedIsForgotten, StopsWhatIsLeft, Tile!SubscriptionAgrees
<1> QED BY <1>1, <1>2, <1>3, <1>4

LEMMA StepTile == TileInv /\ [Tile!Next]_(Tile!vars) => TileInv'
<1> SUFFICES ASSUME TileInv, [Tile!Next]_(Tile!vars) PROVE TileInv'
  OBVIOUS
<1>1. CASE UNCHANGED Tile!vars
  BY <1>1 DEF Tile!vars, Tile!serverVars, Tile!serviceVars, TileInv, TileTypes, ClosedIsForgotten, StopsWhatIsLeft,
     Tile!SubscriptionAgrees, Tile!Requested
<1>2. CASE Tile!Next
  BY <1>2, ServerTile, VisitTile, PageTile DEF Tile!Next
<1> QED BY <1>1, <1>2

(* A page that believes it tracks a projected block is subscribed to that    *)
(* block, or its request is the last one under way: across outages, changes  *)
(* of the block, the skipped duplicates and the delayed stop.                *)
THEOREM SubscriptionsAgree == Spec => []SubscriptionAgrees
<1>1. Init => (subject = "tile" => TileInv)
  BY InitTile DEF Init, InitService
<1>2. (subject = "tile" => TileInv) /\ [Next]_vars => (subject = "tile" => TileInv)'
  BY StepsOfTile, StepTile
<1>3. (subject = "tile" => TileInv) => SubscriptionAgrees
  BY DEF SubscriptionAgrees, TileInv
<1> QED BY <1>1, <1>2, <1>3, PTL DEF Spec

(***************************************************************************)
(* What the server keeps: the price of the hour, the history of prices,    *)
(* the samples of the pool and the trees of replaced transactions, for any *)
(* callers, savers, batches, transactions and lifetimes.                   *)
(***************************************************************************)
LEMMA StepsOfPrice == [Next]_vars /\ subject' = "price" => subject = "price" /\ [Price!Next]_(Price!vars)
  BY DEF Next, NextRpc, NextStats, NextPrice, NextRegistry, NextSwap, NextMetrics, NextPrices,
     NextTrees, NextPage, NextTile, vars, priceVars, callerVars, Price!vars, Price!cacheVars
LEMMA StepsOfPrices == [Next]_vars /\ subject' = "prices" => subject = "prices" /\ [Prices!Next]_(Prices!vars)
  BY DEF Next, NextRpc, NextStats, NextPrice, NextRegistry, NextSwap, NextMetrics, NextPrices,
     NextTrees, NextPage, NextTile, vars, historyVars, diskVars, Prices!vars, Prices!saverVars, Prices!diskVars
LEMMA StepsOfStats == [Next]_vars /\ subject' = "stats" => subject = "stats" /\ [Stats!Next]_(Stats!vars)
  BY DEF Next, NextRpc, NextStats, NextPrice, NextRegistry, NextSwap, NextMetrics, NextPrices,
     NextTrees, NextPage, NextTile, vars, statsVars, diskVars, Stats!vars, Stats!memVars, Stats!callVars
LEMMA StepsOfTrees == [Next]_vars /\ subject' = "trees" => subject = "trees" /\ [Trees!Next]_(Trees!vars)
  BY DEF Next, NextRpc, NextStats, NextPrice, NextRegistry, NextSwap, NextMetrics, NextPrices,
     NextTrees, NextPage, NextTile, vars, treeVars, upstreamVars, Trees!vars

-----------------------------------------------------------------------------
(* The price of the hour, and what is kept of it for an outage. *)
Entries == [id : {"latest", "latest-stale"}, data : Int, expires : Int]
PriceTypes ==
  /\ now \in Nat /\ swept \in BOOLEAN
  /\ cache \in Seq(Entries)
  /\ asked \in [Callers -> Int] /\ told \in Int
PriceTimes ==
  /\ \A c \in Callers : asked[c] # Price!None => asked[c] <= now /\ now - asked[c] <= PriceTimeout
  /\ told # Price!None => told <= now
(* What is in the list after a sweep has not expired, and before one only now. *)
Lives(entry) == entry.expires >= now /\ (swept => entry.expires > now)
FreshWhenKept(entry) == entry.id = "latest" => entry.expires <= entry.data + PriceTimeout + PriceTtl
Covers(entry) == entry.id = "latest-stale" /\ entry.expires = told + StaleTtl
CacheInv ==
  /\ \A i \in DOMAIN cache : Lives(cache[i]) /\ FreshWhenKept(cache[i])
  /\ told # Price!None /\ now - told < StaleTtl => \E i \in DOMAIN cache : Covers(cache[i])
PriceInv == PriceTypes /\ PriceTimes /\ CacheInv /\ Price!PricesAreRecent /\ Price!OutagesAreCovered

LEMMA GetFinds ==
  ASSUME NEW c \in Seq(Entries), NEW id
  PROVE  \/ /\ Price!Get(c, id) = Missing
            /\ \A i \in DOMAIN c : c[i].id # id
         \/ \E i \in DOMAIN c : c[i].id = id /\ Price!Get(c, id) = c[i].data /\ c[i].data \in Int
<1> DEFINE found == {i \in DOMAIN c : c[i].id = id}
<1>1. CASE found = {}
  BY <1>1 DEF Price!Get
<1>2. CASE found # {}
  <2> DEFINE i == CHOOSE i \in found : \A j \in found : i <= j
  <2>1. found \in SUBSET Nat
    OBVIOUS
  <2>2. i \in found
    <3> HIDE DEF found
    <3> QED BY <1>2, <2>1, LeastNat
  <2>3. Price!Get(c, id) = c[i].data
    BY <1>2 DEF Price!Get
  <2> HIDE DEF i
  <2>4. c[i] \in Entries
    BY <2>2
  <2>5. c[i].data \in Int
    BY <2>4 DEF Entries
  <2> QED BY <2>2, <2>3, <2>5
<1> QED BY <1>1, <1>2

LEMMA PriceStarts == Price!Init => PriceInv
  BY DEF Price!Init, PriceInv, PriceTypes, PriceTimes, CacheInv, Price!None, Price!PricesAreRecent, Price!OutagesAreCovered

LEMMA HitKeeps == ASSUME PriceInv, NEW c \in Callers, Price!Hit(c) PROVE PriceInv'
<1>1. /\ Price!Get(cache, "latest") # Missing /\ UNCHANGED <<now, swept, cache, asked, told>>
      /\ given' = {Price!Answer("cached", Price!Get(cache, "latest"))}
  BY DEF Price!Hit, Price!cacheVars
<1>2. /\ now \in Nat /\ swept \in BOOLEAN /\ cache \in Seq(Entries)
      /\ PriceTtl \in Nat /\ PriceTimeout \in Nat
  BY ServicesAssumption DEF PriceInv, PriceTypes, ServicesAssumption
<1>3. PICK i \in DOMAIN cache : cache[i].id = "latest" /\ Price!Get(cache, "latest") = cache[i].data
  BY <1>1, <1>2, GetFinds
<1>4. cache[i] \in Entries
  BY <1>2
<1>5. cache[i].data \in Int /\ cache[i].expires \in Int
  BY <1>4 DEF Entries
<1>6. now <= cache[i].data + PriceTimeout + PriceTtl
  BY <1>2, <1>3, <1>5 DEF PriceInv, CacheInv, Lives, FreshWhenKept
<1>7. now - cache[i].data <= PriceTtl + PriceTimeout
  BY <1>2, <1>5, <1>6
<1>8. PriceTypes' /\ PriceTimes' /\ CacheInv'
  BY <1>1 DEF PriceInv, PriceTypes, PriceTimes, CacheInv, Lives, FreshWhenKept, Covers
<1>9. Price!PricesAreRecent' /\ Price!OutagesAreCovered'
  BY <1>1, <1>3, <1>7 DEF Price!PricesAreRecent, Price!OutagesAreCovered, Price!Answer
<1> QED BY <1>8, <1>9 DEF PriceInv

LEMMA MissKeeps == ASSUME PriceInv, NEW c \in Callers, Price!Miss(c) PROVE PriceInv'
<1>1. /\ asked' = [asked EXCEPT ![c] = now] /\ given' = {}
      /\ UNCHANGED <<now, swept, cache, told>>
  BY DEF Price!Miss, Price!cacheVars
<1> QED BY <1>1, ServicesAssumption DEF PriceInv, PriceTypes, PriceTimes, CacheInv, Lives, FreshWhenKept, Covers,
     Price!PricesAreRecent, Price!OutagesAreCovered, Price!None, ServicesAssumption

LEMMA FailsKeeps == ASSUME PriceInv, NEW c \in Callers, Price!Fails(c) PROVE PriceInv'
<1>1. /\ asked' = [asked EXCEPT ![c] = Price!None]
      /\ given' = {Price!Answer("outage", Price!Get(cache, "latest-stale"))}
      /\ UNCHANGED <<now, swept, cache, told>>
  BY DEF Price!Fails, Price!cacheVars
<1>2. PriceTypes' /\ PriceTimes' /\ CacheInv'
  BY <1>1 DEF PriceInv, PriceTypes, PriceTimes, CacheInv, Lives, FreshWhenKept, Covers, Price!None
<1>3. Price!PricesAreRecent'
  BY <1>1 DEF Price!PricesAreRecent, Price!Answer
<1>4. Price!OutagesAreCovered'
  <2> SUFFICES ASSUME told # Price!None, now - told < StaleTtl PROVE Price!Get(cache, "latest-stale") # Missing
    BY <1>1 DEF Price!OutagesAreCovered, Price!Answer
  <2>1. PICK i \in DOMAIN cache : cache[i].id = "latest-stale"
    BY DEF PriceInv, CacheInv, Covers
  <2>2. cache \in Seq(Entries) /\ Missing \notin Int
    BY ServicesAssumption DEF PriceInv, PriceTypes, ServicesAssumption
  <2> QED BY <2>1, <2>2, GetFinds
<1> QED BY <1>2, <1>3, <1>4 DEF PriceInv

LEMMA AnsweredKeeps == ASSUME PriceInv, NEW c \in Callers, Price!Answered(c) PROVE PriceInv'
<1>1. PICK price \in asked[c]..now :
        /\ asked[c] # Price!None
        /\ cache' = Price!Keep(price) /\ given' = {Price!Answer("fetched", price)}
        /\ asked' = [asked EXCEPT ![c] = Price!None]
        /\ told' = now /\ UNCHANGED <<now, swept>>
  BY DEF Price!Answered
<1>2. /\ now \in Nat /\ swept \in BOOLEAN /\ cache \in Seq(Entries) /\ asked[c] \in Int
      /\ PriceTtl \in Nat \ {0} /\ StaleTtl \in Nat \ {0} /\ PriceTimeout \in Nat
      /\ now - asked[c] <= PriceTimeout
  BY <1>1, ServicesAssumption DEF PriceInv, PriceTypes, PriceTimes, ServicesAssumption
<1>3. price \in Int /\ price <= now /\ now - price <= PriceTimeout
  BY <1>1, <1>2
<1>4. PICK one, two : /\ one = [id |-> "latest", data |-> price, expires |-> now + PriceTtl]
                       /\ two = [id |-> "latest-stale", data |-> price, expires |-> now + StaleTtl]
  OBVIOUS
<1>5. PICK n \in Nat : n = Len(cache)
  BY <1>2
<1>6. cache' = Append(Append(cache, one), two)
  BY <1>1, <1>4 DEF Price!Keep, Price!Set
<1>7. one \in Entries /\ two \in Entries
  BY <1>2, <1>3, <1>4 DEF Entries
<1>8. Lives(one) /\ FreshWhenKept(one) /\ Lives(two) /\ FreshWhenKept(two) /\ Covers(two)'
  BY <1>1, <1>2, <1>3, <1>4 DEF Lives, FreshWhenKept, Covers
<1>9. /\ cache' \in Seq(Entries)
      /\ DOMAIN cache' = 1..(n + 2) /\ DOMAIN cache = 1..n
      /\ \A i \in 1..n : cache'[i] = cache[i]
      /\ cache'[n + 1] = one /\ cache'[n + 2] = two
  BY <1>2, <1>5, <1>6, <1>7
<1>10. CacheInv'
  <2>1. ASSUME NEW i \in DOMAIN cache' PROVE Lives(cache[i])' /\ FreshWhenKept(cache[i])'
    <3>1. Lives(cache'[i]) /\ FreshWhenKept(cache'[i])
      <4>1. CASE i \in DOMAIN cache
        BY <1>9, <4>1 DEF PriceInv, CacheInv
      <4>2. CASE i = n + 1 \/ i = n + 2
        BY <1>8, <1>9, <4>2
      <4> QED BY <1>9, <4>1, <4>2
    <3> QED BY <1>1, <3>1 DEF Lives, FreshWhenKept
  <2>2. n + 2 \in DOMAIN cache' /\ Covers(cache[n + 2])'
    BY <1>8, <1>9 DEF Covers
  <2> QED BY <2>1, <2>2 DEF CacheInv
<1>11. PriceTypes' /\ PriceTimes'
  BY <1>1, <1>2, <1>9 DEF PriceInv, PriceTypes, PriceTimes, Price!None
<1>12. Price!PricesAreRecent' /\ Price!OutagesAreCovered'
  BY <1>1, <1>2, <1>3 DEF Price!PricesAreRecent, Price!OutagesAreCovered, Price!Answer
<1> QED BY <1>10, <1>11, <1>12 DEF PriceInv

LEMMA SweepKeeps == ASSUME PriceInv, Price!Sweep PROVE PriceInv'
<1> DEFINE live == {i \in DOMAIN cache : cache[i].expires > now}
<1>1. /\ swept' = TRUE /\ cache' = Price!Selected(cache, live) /\ given' = {}
      /\ UNCHANGED <<now, asked, told>>
  BY DEF Price!Sweep, Price!CleanUp
<1>2. Price!Selected(cache, live) = Selected(cache, live)
  BY DEF Price!Selected, Selected
<1>3. cache \in Seq(Entries) /\ now \in Nat /\ told \in Int /\ StaleTtl \in Nat
  BY ServicesAssumption DEF PriceInv, PriceTypes, ServicesAssumption
<1>4. DOMAIN cache = 1..Len(cache)
  BY <1>3
<1>5. cache' \in Seq(Entries) /\ Picks(cache', cache, live, Len(cache))
  BY <1>1, <1>2, <1>3, Selecting
<1>6. ASSUME NEW j \in DOMAIN cache' PROVE Lives(cache[j])' /\ FreshWhenKept(cache[j])'
  <2>1. PICK i \in 1..Len(cache) : i \in live /\ cache'[j] = cache[i]
    BY <1>5 DEF Picks
  <2>2. cache'[j].expires > now /\ FreshWhenKept(cache'[j]) /\ cache[i] \in Entries
    BY <1>3, <1>4, <2>1 DEF PriceInv, CacheInv
  <2>3. cache'[j].expires \in Int
    BY <2>1, <2>2 DEF Entries
  <2> QED BY <1>1, <1>3, <2>2, <2>3 DEF Lives, FreshWhenKept
<1>7. ASSUME told # Price!None, now - told < StaleTtl PROVE \E j \in DOMAIN cache' : Covers(cache[j])'
  <2>1. PICK i \in DOMAIN cache : Covers(cache[i])
    BY <1>7 DEF PriceInv, CacheInv
  <2>2. i \in 1..Len(cache) /\ i \in live
    BY <1>3, <1>4, <1>7, <2>1 DEF Covers
  <2>3. PICK j \in DOMAIN cache' : cache'[j] = cache[i]
    BY <1>5, <2>2 DEF Picks
  <2> QED BY <1>1, <2>1, <2>3 DEF Covers
<1>8. CacheInv'
  BY <1>1, <1>6, <1>7 DEF CacheInv
<1> QED BY <1>1, <1>5, <1>8 DEF PriceInv, PriceTypes, PriceTimes, Price!PricesAreRecent, Price!OutagesAreCovered

LEMMA PriceTicks == ASSUME PriceInv, Price!Tick PROVE PriceInv'
<1>1. /\ swept /\ now' = now + 1 /\ swept' = FALSE /\ given' = {}
      /\ UNCHANGED <<cache, asked, told>>
      /\ \A c \in Callers : asked[c] # Price!None => now - asked[c] < PriceTimeout
  BY DEF Price!Tick
<1>2. /\ now \in Nat /\ cache \in Seq(Entries) /\ asked \in [Callers -> Int] /\ told \in Int
      /\ StaleTtl \in Nat /\ PriceTimeout \in Nat
  BY ServicesAssumption DEF PriceInv, PriceTypes, ServicesAssumption
<1>3. ASSUME NEW i \in DOMAIN cache PROVE Lives(cache[i])' /\ FreshWhenKept(cache[i])'
  <2>1. cache[i] \in Entries
    BY <1>2
  <2>2. cache[i].expires \in Int
    BY <2>1 DEF Entries
  <2> QED BY <1>1, <1>2, <2>2 DEF PriceInv, CacheInv, Lives, FreshWhenKept
<1>4. CacheInv'
  BY <1>1, <1>2, <1>3 DEF PriceInv, CacheInv, Covers
<1>5. PriceTypes'
  <2>1. swept' \in BOOLEAN
    BY <1>1
  <2>2. now' \in Nat /\ cache' \in Seq(Entries) /\ asked' \in [Callers -> Int] /\ told' \in Int
    <3>1. now' = now + 1 /\ UNCHANGED <<cache, asked, told>>
      BY <1>1
    <3> QED BY <1>2, <3>1
  <2> QED BY <2>1, <2>2 DEF PriceTypes
<1>6. PriceTimes'
  <2>1. ASSUME NEW c \in Callers, asked[c] # Price!None PROVE asked[c] <= now + 1 /\ now + 1 - asked[c] <= PriceTimeout
    <3>1. asked[c] \in Int /\ asked[c] <= now /\ now - asked[c] < PriceTimeout
      BY <1>1, <1>2, <2>1 DEF PriceInv, PriceTimes
    <3> QED BY <1>2, <3>1
  <2>2. told # Price!None => told <= now + 1
    BY <1>2 DEF PriceInv, PriceTimes
  <2>3. now' = now + 1 /\ asked' = asked /\ told' = told
    BY <1>1
  <2>4. \A c \in Callers : asked'[c] # Price!None => asked'[c] <= now' /\ now' - asked'[c] <= PriceTimeout
    BY <1>2, <2>1, <2>3
  <2>5. told' # Price!None => told' <= now'
    BY <2>2, <2>3
  <2> QED BY <2>4, <2>5 DEF PriceTimes, Price!None
<1> QED BY <1>1, <1>4, <1>5, <1>6 DEF PriceInv, Price!PricesAreRecent, Price!OutagesAreCovered

LEMMA PriceKeeps == PriceInv /\ [Price!Next]_(Price!vars) => PriceInv'
<1> SUFFICES ASSUME PriceInv, [Price!Next]_(Price!vars) PROVE PriceInv'
  OBVIOUS
<1>1. CASE UNCHANGED Price!vars
  BY <1>1 DEF Price!vars, Price!cacheVars, PriceInv, PriceTypes, PriceTimes, CacheInv, Lives, FreshWhenKept, Covers,
     Price!PricesAreRecent, Price!OutagesAreCovered
<1>2. CASE Price!Next
  BY <1>2, SweepKeeps, PriceTicks, HitKeeps, MissKeeps, AnsweredKeeps, FailsKeeps DEF Price!Next
<1> QED BY <1>1, <1>2

(* A page is never shown a price as current that is older than its lifetime  *)
(* and the request that fetched it, whatever answers overtake each other and *)
(* whenever the cache is swept.                                              *)
THEOREM PricesAreNotOld == Spec => []PricesAreRecent
<1>1. Init => (subject = "price" => PriceInv)
  BY PriceStarts DEF Init, InitService, InitPrice
<1>2. (subject = "price" => PriceInv) /\ [Next]_vars => (subject = "price" => PriceInv)'
  BY StepsOfPrice, PriceKeeps
<1>3. (subject = "price" => PriceInv) => PricesAreRecent
  BY DEF PricesAreRecent, PriceInv
<1> QED BY <1>1, <1>2, <1>3, PTL DEF Spec

(* For a day after its last answer an outage of the exchange is covered: the *)
(* entry that was appended with the answer is in the list until it expires.  *)
THEOREM OutagesHaveAPrice == Spec => []OutagesAreCovered
<1>1. Init => (subject = "price" => PriceInv)
  BY PriceStarts DEF Init, InitService, InitPrice
<1>2. (subject = "price" => PriceInv) /\ [Next]_vars => (subject = "price" => PriceInv)'
  BY StepsOfPrice, PriceKeeps
<1>3. (subject = "price" => PriceInv) => OutagesAreCovered
  BY DEF OutagesAreCovered, PriceInv
<1> QED BY <1>1, <1>2, <1>3, PTL DEF Spec

-----------------------------------------------------------------------------
(* The history of prices. *)
Points == UNION Batches
HistoryTypes ==
  /\ hasDb \in BOOLEAN
  /\ at \in [Savers -> {"idle", "db", "load", "write", "rename"}]
  /\ batch \in [Savers -> SUBSET Points]
  /\ rows \in [Savers -> SUBSET (Points \cup Nat)]
  /\ fd \in [Savers -> Inodes \cup {Nothing}]
  /\ db \in SUBSET Points /\ saved \in SUBSET Points
  /\ tmp \in Inodes \cup {Nothing} /\ file \in Inodes \cup {Nothing}
  /\ content \in [Inodes -> (SUBSET Points) \cup {Nothing}]
OneAtATime == \A s, t \in Savers : Prices!AtFile(s) /\ Prices!AtFile(t) => s = t
FilesApart ==
  /\ \A s \in Savers : fd[s] # Nothing => at[s] = "write"
  /\ tmp # Nothing => tmp # file
(* What one call does to the database and to the file. *)
Inserting(s) ==
  at[s] = "db" => /\ hasDb
                  /\ rows[s] # {} /\ rows[s] \subseteq Prices!Hours(batch[s])
                  /\ Prices!Hours(batch[s]) \ rows[s] \subseteq Prices!Hours(db)
Writing(s) ==
  /\ at[s] = "write" => /\ tmp # Nothing /\ fd[s] = tmp
                        /\ rows[s] = Prices!Stored \cup batch[s]
  /\ at[s] = "rename" => tmp # Nothing /\ content[tmp] = Prices!Stored \cup batch[s]
(* HoursAreFound as it is kept: a saved hour is in one of the stores. *)
PointsKept ==
  /\ Prices!Stored # Nothing
  /\ Prices!Hours(saved) \subseteq Prices!Hours(db \cup Prices!Stored)
  /\ ~hasDb => saved \subseteq Prices!Stored
HistoryInv ==
  /\ HistoryTypes /\ OneAtATime /\ FilesApart
  /\ \A s \in Savers : Inserting(s) /\ Writing(s)
  /\ PointsKept

LEMMA HistoryStarts == Prices!Init => HistoryInv
<1> SUFFICES ASSUME Prices!Init PROVE HistoryInv
  OBVIOUS
<1>1. HistoryTypes
  BY DEF Prices!Init, HistoryTypes
<1>2. OneAtATime /\ FilesApart /\ \A s \in Savers : Inserting(s) /\ Writing(s)
  BY DEF Prices!Init, OneAtATime, Prices!AtFile, FilesApart, Inserting, Writing
<1>3. PointsKept
  <2>1. Prices!Stored = {} /\ saved = {} /\ {} # Nothing
    BY ServicesAssumption DEF Prices!Init, Prices!Stored, ServicesAssumption
  <2> QED BY <2>1 DEF PointsKept, Prices!Hours
<1> QED BY <1>1, <1>2, <1>3 DEF HistoryInv

LEMMA HoursAreNumbers ==
  ASSUME NEW a, a \subseteq Points
  PROVE  Prices!Hours(a) \subseteq Nat /\ a # Nothing /\ (a \in Batches => Prices!Hours(a) # {})
<1>1. \A p \in Points : p[1] \in Nat
  BY ServicesAssumption DEF ServicesAssumption, Points
<1> QED BY <1>1, ServicesAssumption DEF ServicesAssumption, Points, Prices!Hours

LEMMA HoursJoin == ASSUME NEW a, NEW b PROVE Prices!Hours(a \cup b) = Prices!Hours(a) \cup Prices!Hours(b)
  BY DEF Prices!Hours

(* The file parses while the calls are alone. *)
LEMMA StoredIsRead == ASSUME HistoryInv, alone PROVE Prices!Stored \subseteq Points /\ Prices!Stored # Nothing
  BY DEF HistoryInv, HistoryTypes, PointsKept, Prices!Stored

LEMMA SaveKeeps ==
  ASSUME alone => HistoryInv, NEW s \in Savers, NEW points \in Batches, Prices!Save(s, points), alone'
  PROVE  HistoryInv'
<1>1. /\ at[s] = "idle"
      /\ at' = [at EXCEPT ![s] = IF hasDb THEN "db" ELSE "load"]
      /\ batch' = [batch EXCEPT ![s] = points]
      /\ rows' = [rows EXCEPT ![s] = Prices!Hours(points)]
      /\ alone /\ (hasDb \/ \A t \in Savers : ~Prices!AtFile(t))
      /\ UNCHANGED <<hasDb, fd, db, tmp, file, content, saved>>
  BY DEF Prices!Save, Prices!At, Prices!diskVars
<1>2. HistoryInv
  BY <1>1
<1>3. points \in SUBSET Points /\ Prices!Hours(points) \in SUBSET Nat /\ Prices!Hours(points) # {}
  <2>1. points \in SUBSET Points
    BY DEF Points
  <2> QED BY <2>1, HoursAreNumbers
<1>4. HistoryTypes'
  BY <1>1, <1>2, <1>3 DEF HistoryInv, HistoryTypes
<1>5. \A t \in Savers : /\ at'[t] = IF t = s THEN IF hasDb THEN "db" ELSE "load" ELSE at[t]
                        /\ batch'[t] = IF t = s THEN points ELSE batch[t]
                        /\ rows'[t] = IF t = s THEN Prices!Hours(points) ELSE rows[t]
  BY <1>1, <1>2 DEF HistoryInv, HistoryTypes
<1>6. OneAtATime' /\ FilesApart'
  BY <1>1, <1>2, <1>5 DEF OneAtATime, Prices!AtFile, FilesApart, HistoryInv
<1>7. \A t \in Savers : Inserting(t)' /\ Writing(t)'
  BY <1>1, <1>2, <1>3, <1>5 DEF HistoryInv, Inserting, Writing, Prices!Stored
<1>8. PointsKept'
  BY <1>1, <1>2 DEF HistoryInv, PointsKept, Prices!Stored
<1> QED BY <1>4, <1>6, <1>7, <1>8 DEF HistoryInv

(* The step of one call.  The others see no more of it than that the database
   has more hours, and nothing of a file that they are at themselves. *)
Beside(s) ==
  /\ hasDb' = hasDb
  /\ \A t \in Savers \ {s} : at'[t] = at[t] /\ batch'[t] = batch[t] /\ rows'[t] = rows[t] /\ fd'[t] = fd[t]
LEMMA OneMovesOn ==
  ASSUME HistoryInv, NEW s \in Savers, at[s] # "idle", HistoryTypes', Beside(s),
         Prices!Hours(db) \subseteq Prices!Hours(db'),
         Prices!AtFile(s) \/ UNCHANGED <<tmp, file, content>>,
         Prices!AtFile(s)' => Prices!AtFile(s) \/ \A t \in Savers : ~Prices!AtFile(t),
         fd'[s] # Nothing => at'[s] = "write",
         tmp' # Nothing => tmp' # file',
         Inserting(s)', Writing(s)', PointsKept'
  PROVE  HistoryInv'
<1>1. \A t \in Savers \ {s} : /\ Prices!AtFile(t)' <=> Prices!AtFile(t)
                              /\ Prices!AtFile(t) => ~Prices!AtFile(s) /\ UNCHANGED <<tmp, file, content>>
  BY DEF Beside, HistoryInv, OneAtATime, Prices!AtFile
<1>2. OneAtATime'
  BY <1>1 DEF HistoryInv, OneAtATime
<1>3. FilesApart'
  BY DEF HistoryInv, FilesApart, Beside
<1>4. ASSUME NEW t \in Savers \ {s} PROVE Inserting(t)' /\ Writing(t)'
  <2>1. Inserting(t) /\ Writing(t)
    BY DEF HistoryInv
  <2>2. Inserting(t)'
    BY <2>1 DEF Inserting, Beside
  <2>3. CASE Prices!AtFile(t)
    <3>1. UNCHANGED <<tmp, file, content>> /\ Prices!Stored' = Prices!Stored
      BY <1>1, <2>3 DEF Prices!Stored
    <3> QED BY <2>1, <2>2, <3>1 DEF Writing, Beside
  <2>4. CASE ~Prices!AtFile(t)
    BY <2>2, <2>4 DEF Writing, Beside, Prices!AtFile
  <2> QED BY <2>3, <2>4
<1> QED BY <1>2, <1>3, <1>4 DEF HistoryInv

LEMMA Returning ==
  ASSUME HistoryInv, NEW s \in Savers, NEW points \in SUBSET Points, Prices!Returns(s, points)
  PROVE  /\ at' \in [Savers -> {"idle", "db", "load", "write", "rename"}]
         /\ batch' \in [Savers -> SUBSET Points]
         /\ rows' \in [Savers -> SUBSET (Points \cup Nat)]
         /\ fd' \in [Savers -> Inodes \cup {Nothing}]
         /\ saved' = saved \cup points /\ saved' \in SUBSET Points
         /\ at'[s] = "idle" /\ fd'[s] = Nothing
         /\ Inserting(s)' /\ Writing(s)'
         /\ hasDb' = hasDb => Beside(s)
<1>1. /\ at' = [at EXCEPT ![s] = "idle"]
      /\ batch' = [batch EXCEPT ![s] = {}] /\ rows' = [rows EXCEPT ![s] = {}]
      /\ fd' = [fd EXCEPT ![s] = Nothing]
      /\ saved' = saved \cup points
  BY DEF Prices!Returns, Prices!At
<1>2. /\ at \in [Savers -> {"idle", "db", "load", "write", "rename"}]
      /\ batch \in [Savers -> SUBSET Points] /\ rows \in [Savers -> SUBSET (Points \cup Nat)]
      /\ fd \in [Savers -> Inodes \cup {Nothing}] /\ saved \in SUBSET Points
  BY DEF HistoryInv, HistoryTypes
<1>3. at'[s] = "idle" /\ fd'[s] = Nothing
  BY <1>1, <1>2
<1>4. Inserting(s)' /\ Writing(s)'
  BY <1>3 DEF Inserting, Writing
<1>5. hasDb' = hasDb => Beside(s)
  BY <1>1, <1>2 DEF Beside
<1> QED BY <1>1, <1>2, <1>3, <1>4, <1>5

(* An hour is inserted, the earliest that is left. *)
LEMMA InsertKeeps ==
  ASSUME HistoryInv, alone, alone', NEW s \in Savers, Prices!InsertsRow(s)
  PROVE  HistoryInv'
<1> DEFINE hour == CHOOSE h \in rows[s] : \A g \in rows[s] : h <= g
<1>1. /\ at[s] = "db"
      /\ db' = {p \in db : p[1] # hour} \cup {p \in batch[s] : p[1] = hour}
      /\ UNCHANGED <<hasDb, tmp, file, content, alone>>
      /\ \/ rows[s] = {hour} /\ Prices!Returns(s, batch[s])
         \/ /\ rows[s] # {hour} /\ rows' = [rows EXCEPT ![s] = @ \ {hour}]
            /\ UNCHANGED <<at, batch, fd, saved>>
  BY DEF Prices!InsertsRow, Prices!diskVars
<1>2. /\ db \in SUBSET Points /\ batch[s] \in SUBSET Points /\ rows[s] \in SUBSET (Points \cup Nat)
      /\ saved \in SUBSET Points
  BY DEF HistoryInv, HistoryTypes
<1>3. /\ hasDb /\ rows[s] # {} /\ rows[s] \subseteq Prices!Hours(batch[s])
      /\ Prices!Hours(batch[s]) \ rows[s] \subseteq Prices!Hours(db)
  BY <1>1 DEF HistoryInv, Inserting
<1>4. hour \in rows[s]
  <2>1. rows[s] \in SUBSET Nat /\ rows[s] # {}
    BY <1>2, <1>3, HoursAreNumbers
  <2> QED BY <2>1, LeastNat
<1> HIDE DEF hour
<1>5. db' \in SUBSET Points
  BY <1>1, <1>2
<1>6. Prices!Hours(db') = Prices!Hours(db) \cup {hour}
  BY <1>1, <1>3, <1>4 DEF Prices!Hours
<1>7. Prices!Stored' = Prices!Stored /\ Prices!Stored # Nothing
  BY <1>1, StoredIsRead DEF Prices!Stored
<1>8. Prices!Hours(saved) \subseteq Prices!Hours(db) \cup Prices!Hours(Prices!Stored)
  BY HoursJoin DEF HistoryInv, PointsKept
<1>9. CASE rows[s] = {hour} /\ Prices!Returns(s, batch[s])
  <2>1. HistoryTypes'
    BY <1>1, <1>2, <1>5, <1>9, Returning DEF HistoryInv, HistoryTypes
  <2>2. PointsKept'
    <3>1. saved' = saved \cup batch[s]
      BY <1>2, <1>9, Returning
    <3>2. Prices!Hours(batch[s]) \subseteq Prices!Hours(db')
      BY <1>3, <1>6, <1>9
    <3>3. Prices!Hours(saved \cup batch[s]) \subseteq Prices!Hours(db' \cup Prices!Stored)
      BY <1>6, <1>8, <3>2, HoursJoin
    <3> QED BY <1>1, <1>3, <1>7, <3>1, <3>3 DEF PointsKept
  <2>3. Beside(s) /\ at'[s] = "idle" /\ fd'[s] = Nothing /\ Inserting(s)' /\ Writing(s)'
    BY <1>1, <1>2, <1>9, Returning
  <2>4. Prices!Hours(db) \subseteq Prices!Hours(db') /\ ~Prices!AtFile(s)'
    BY <1>6, <2>3 DEF Prices!AtFile
  <2>5. tmp' # Nothing => tmp' # file'
    BY <1>1 DEF HistoryInv, FilesApart
  <2> QED BY <1>1, <2>1, <2>2, <2>3, <2>4, <2>5, OneMovesOn
<1>10. CASE /\ rows[s] # {hour} /\ rows' = [rows EXCEPT ![s] = @ \ {hour}]
           /\ UNCHANGED <<at, batch, fd, saved>>
  <2>1. HistoryTypes'
    BY <1>1, <1>5, <1>10 DEF HistoryInv, HistoryTypes
  <2>2. rows'[s] = rows[s] \ {hour}
    BY <1>10 DEF HistoryInv, HistoryTypes
  <2>3. Inserting(s)'
    BY <1>1, <1>3, <1>4, <1>6, <1>10, <2>2 DEF Inserting
  <2>4. Writing(s)'
    BY <1>1, <1>10 DEF Writing
  <2>5. PointsKept'
    <3>1. Prices!Hours(saved) \subseteq Prices!Hours(db' \cup Prices!Stored)
      BY <1>6, <1>8, HoursJoin
    <3> QED BY <1>1, <1>3, <1>7, <1>10, <3>1 DEF PointsKept
  <2>6. Beside(s) /\ at'[s] = at[s] /\ ~Prices!AtFile(s)'
    BY <1>1, <1>10 DEF Beside, Prices!AtFile, HistoryInv, HistoryTypes
  <2>7. Prices!Hours(db) \subseteq Prices!Hours(db')
    BY <1>6
  <2>8. /\ fd'[s] # Nothing => at'[s] = "write"
        /\ tmp' # Nothing => tmp' # file'
    BY <1>1, <1>10 DEF HistoryInv, FilesApart
  <2> QED BY <1>1, <2>1, <2>3, <2>4, <2>5, <2>6, <2>7, <2>8, OneMovesOn
<1> QED BY <1>1, <1>9, <1>10

LEMMA DbFailsKeeps ==
  ASSUME HistoryInv, alone', NEW s \in Savers, Prices!DbFails(s)
  PROVE  HistoryInv'
<1>1. /\ at[s] = "db" /\ at' = [at EXCEPT ![s] = "load"]
      /\ \A t \in Savers : ~Prices!AtFile(t)
      /\ UNCHANGED <<hasDb, batch, rows, fd, db, tmp, file, content, saved>>
  BY DEF Prices!DbFails, Prices!At, Prices!diskVars
<1>2. HistoryTypes' /\ at'[s] = "load" /\ Beside(s)
  BY <1>1 DEF HistoryInv, HistoryTypes, Beside
<1>3. Inserting(s)' /\ Writing(s)'
  BY <1>2 DEF Inserting, Writing
<1>4. PointsKept' /\ fd'[s] = Nothing /\ (tmp' # Nothing => tmp' # file')
  BY <1>1 DEF HistoryInv, PointsKept, Prices!Stored, FilesApart
<1> QED BY <1>1, <1>2, <1>3, <1>4, OneMovesOn

LEMMA OpensKeeps ==
  ASSUME HistoryInv, alone, alone', NEW s \in Savers, Prices!Opens(s)
  PROVE  HistoryInv'
<1> DEFINE new == IF tmp = Nothing
                  THEN CHOOSE i \in Inodes : i # file /\ \A t \in Savers : fd[t] # i
                  ELSE tmp
           points == Prices!Stored \cup batch[s]
<1>1. /\ at[s] = "load" /\ Prices!Stored # Nothing
      /\ rows' = [rows EXCEPT ![s] = points]
      /\ tmp' = new
      /\ content' = [content EXCEPT ![tmp'] = Nothing]
      /\ fd' = [fd EXCEPT ![s] = tmp']
      /\ at' = [at EXCEPT ![s] = "write"]
      /\ UNCHANGED <<hasDb, batch, db, file, alone, saved>>
  BY DEF Prices!Opens, Prices!At, Prices!Merge
<1>2. Prices!AtFile(s) /\ \A t \in Savers : fd[t] = Nothing
  BY <1>1 DEF HistoryInv, OneAtATime, Prices!AtFile, FilesApart
<1>3. new \in Inodes /\ new # file /\ new # Nothing
  <2>1. \E i \in Inodes : i # file /\ \A t \in Savers : fd[t] # i
    BY <1>2, ServicesAssumption DEF ServicesAssumption
  <2> QED BY <2>1, ServicesAssumption DEF ServicesAssumption, HistoryInv, HistoryTypes, FilesApart
<1> HIDE DEF new
<1>4. Prices!Stored \in SUBSET Points /\ batch[s] \in SUBSET Points
  BY StoredIsRead DEF HistoryInv, HistoryTypes
<1>5. Prices!Stored' = Prices!Stored
  BY <1>1, <1>3 DEF Prices!Stored, HistoryInv, HistoryTypes
<1> HIDE DEF points
<1>6. points \in SUBSET (Points \cup Nat)
  BY <1>4 DEF points
<1>7. HistoryTypes'
  BY <1>1, <1>3, <1>6 DEF HistoryInv, HistoryTypes
<1>8. rows'[s] = points /\ fd'[s] = new /\ at'[s] = "write" /\ Beside(s)
  BY <1>1 DEF HistoryInv, HistoryTypes, Beside
<1>9. Inserting(s)' /\ Writing(s)'
  BY <1>1, <1>3, <1>5, <1>8 DEF Inserting, Writing, points
<1>10. PointsKept'
  BY <1>1, <1>5 DEF HistoryInv, PointsKept
<1> QED BY <1>1, <1>2, <1>3, <1>7, <1>8, <1>9, <1>10, OneMovesOn

LEMMA EndsKeeps ==
  ASSUME HistoryInv, alone, alone', NEW s \in Savers, Prices!LoadFails(s) \/ Prices!FileFails(s)
  PROVE  HistoryInv'
<1>1. /\ at[s] # "idle" /\ Prices!Returns(s, {})
      /\ UNCHANGED <<hasDb, db, tmp, file, content, alone>>
  BY DEF Prices!LoadFails, Prices!FileFails, Prices!diskVars
<1>2. {} \in SUBSET Points /\ saved \cup {} = saved
  OBVIOUS
<1>3. HistoryTypes'
  BY <1>1, <1>2, Returning DEF HistoryInv, HistoryTypes
<1>4. PointsKept'
  BY <1>1, <1>2, Returning DEF HistoryInv, PointsKept, Prices!Stored
<1>5. Beside(s) /\ fd'[s] = Nothing /\ at'[s] = "idle" /\ Inserting(s)' /\ Writing(s)'
  BY <1>1, <1>2, Returning
<1>6. ~Prices!AtFile(s)' /\ (tmp' # Nothing => tmp' # file')
  BY <1>1, <1>5 DEF Prices!AtFile, HistoryInv, FilesApart
<1> QED BY <1>1, <1>3, <1>4, <1>5, <1>6, OneMovesOn

LEMMA WritesKeeps ==
  ASSUME HistoryInv, alone, alone', NEW s \in Savers, Prices!Writes(s)
  PROVE  HistoryInv'
<1>1. /\ at[s] = "write"
      /\ content' = [i \in Inodes |-> IF i = fd[s] /\ i \in {tmp, file} THEN rows[s] ELSE content[i]]
      /\ fd' = [fd EXCEPT ![s] = Nothing]
      /\ at' = [at EXCEPT ![s] = "rename"]
      /\ UNCHANGED <<hasDb, batch, rows, db, tmp, file, alone, saved>>
  BY DEF Prices!Writes, Prices!At
<1>2. /\ tmp \in Inodes /\ tmp # Nothing /\ tmp # file /\ fd[s] = tmp
      /\ rows[s] = Prices!Stored \cup batch[s]
  BY <1>1 DEF HistoryInv, HistoryTypes, FilesApart, Writing
<1>3. Prices!Stored \in SUBSET Points /\ batch[s] \in SUBSET Points
  BY StoredIsRead DEF HistoryInv, HistoryTypes
<1>4. rows[s] \in SUBSET Points
  BY <1>2, <1>3
<1>5. HistoryTypes'
  BY <1>1, <1>4 DEF HistoryInv, HistoryTypes
<1>6. Prices!Stored' = Prices!Stored /\ content'[tmp] = rows[s]
  BY <1>1, <1>2 DEF Prices!Stored, HistoryInv, HistoryTypes
<1>7. fd'[s] = Nothing /\ at'[s] = "rename" /\ Beside(s) /\ Prices!AtFile(s)
  BY <1>1 DEF HistoryInv, HistoryTypes, Beside, Prices!AtFile
<1>8. Inserting(s)' /\ Writing(s)'
  BY <1>1, <1>2, <1>6, <1>7 DEF Inserting, Writing
<1>9. PointsKept'
  BY <1>1, <1>6 DEF HistoryInv, PointsKept
<1> QED BY <1>1, <1>2, <1>5, <1>7, <1>8, <1>9, OneMovesOn

LEMMA RenamesKeeps ==
  ASSUME HistoryInv, alone, alone', NEW s \in Savers, Prices!Renames(s)
  PROVE  HistoryInv'
<1>1. /\ at[s] = "rename" /\ tmp # Nothing
      /\ file' = tmp /\ tmp' = Nothing
      /\ content' = [i \in Inodes |-> IF i = file THEN Nothing ELSE content[i]]
      /\ Prices!Returns(s, batch[s])
      /\ UNCHANGED <<hasDb, db, alone>>
  BY DEF Prices!Renames
<1>2. /\ tmp \in Inodes /\ tmp # file /\ content[tmp] = Prices!Stored \cup batch[s]
      /\ batch[s] \in SUBSET Points /\ saved \in SUBSET Points /\ db \in SUBSET Points
  BY <1>1 DEF HistoryInv, HistoryTypes, FilesApart, Writing
<1>3. /\ Prices!Stored \in SUBSET Points
      /\ Prices!Hours(saved) \subseteq Prices!Hours(db) \cup Prices!Hours(Prices!Stored)
      /\ ~hasDb => saved \subseteq Prices!Stored
  BY StoredIsRead, HoursJoin DEF HistoryInv, PointsKept
<1>4. Prices!Stored' = Prices!Stored \cup batch[s]
  BY <1>1, <1>2 DEF Prices!Stored
<1>5. /\ Beside(s) /\ Prices!AtFile(s)
      /\ fd'[s] = Nothing /\ Inserting(s)' /\ Writing(s)' /\ saved' = saved \cup batch[s]
  BY <1>1, <1>2, Returning DEF Prices!AtFile
<1>6. HistoryTypes'
  BY <1>1, <1>2, Returning DEF HistoryInv, HistoryTypes
<1>7. PointsKept'
  <2> DEFINE points == Prices!Stored \cup batch[s]
  <2>1. points \subseteq Points /\ points # Nothing
    BY <1>2, <1>3, HoursAreNumbers
  <2>2. Prices!Hours(saved \cup batch[s]) \subseteq Prices!Hours(db \cup points)
    BY <1>3, HoursJoin, SMTT(30)
  <2> QED BY <1>1, <1>3, <1>4, <1>5, <2>1, <2>2 DEF PointsKept
<1> QED BY <1>1, <1>5, <1>6, <1>7, OneMovesOn

LEMMA CrashKeeps ==
  ASSUME HistoryInv, Prices!Crash
  PROVE  HistoryInv'
<1>1. /\ at' = [s \in Savers |-> "idle"]
      /\ batch' = [s \in Savers |-> {}] /\ rows' = [s \in Savers |-> {}]
      /\ fd' = [s \in Savers |-> Nothing]
      /\ UNCHANGED <<hasDb, db, tmp, file, content, alone, saved>>
  BY DEF Prices!Crash, Prices!diskVars
<1>2. HistoryTypes'
  BY <1>1 DEF HistoryInv, HistoryTypes
<1>3. PointsKept'
  BY <1>1 DEF HistoryInv, PointsKept, Prices!Stored
<1>4. OneAtATime' /\ FilesApart' /\ \A s \in Savers : Inserting(s)' /\ Writing(s)'
  BY <1>1 DEF HistoryInv, OneAtATime, Prices!AtFile, FilesApart, Inserting, Writing
<1> QED BY <1>2, <1>3, <1>4 DEF HistoryInv

LEMMA HistoryKeeps == (alone => HistoryInv) /\ [Prices!Next]_(Prices!vars) => (alone => HistoryInv)'
<1> SUFFICES ASSUME alone => HistoryInv, [Prices!Next]_(Prices!vars), alone' PROVE HistoryInv'
  OBVIOUS
<1>1. CASE UNCHANGED Prices!vars
  BY <1>1 DEF Prices!vars, Prices!saverVars, Prices!diskVars, HistoryInv, HistoryTypes, OneAtATime, Prices!AtFile, FilesApart, Inserting, Writing,
     PointsKept, Prices!Stored
<1>2. CASE Prices!Crash
  BY <1>2, CrashKeeps DEF Prices!Crash
<1>3. ASSUME NEW s \in Savers, Prices!Step(s) PROVE HistoryInv'
  <2>1. CASE \E points \in Batches : Prices!Save(s, points)
    BY <2>1, SaveKeeps
  <2>2. CASE Prices!InsertsRow(s)
    BY <2>2, InsertKeeps DEF Prices!InsertsRow
  <2>3. CASE Prices!DbFails(s)
    BY <2>3, DbFailsKeeps DEF Prices!DbFails
  <2>4. CASE Prices!Opens(s)
    BY <2>4, OpensKeeps DEF Prices!Opens
  <2>5. CASE Prices!LoadFails(s) \/ Prices!FileFails(s)
    BY <2>5, EndsKeeps DEF Prices!LoadFails, Prices!FileFails
  <2>6. CASE Prices!Writes(s)
    BY <2>6, WritesKeeps DEF Prices!Writes
  <2>7. CASE Prices!Renames(s)
    BY <2>7, RenamesKeeps DEF Prices!Renames
  <2> QED BY <1>3, <2>1, <2>2, <2>3, <2>4, <2>5, <2>6, <2>7 DEF Prices!Step
<1>4. CASE Prices!Next
  BY <1>2, <1>3, <1>4 DEF Prices!Next
<1> QED BY <1>1, <1>4

(* The nearest hour to one that is there is that hour. *)
LEMMA NearestIsOwn ==
  ASSUME NEW points \in SUBSET Points, NEW t \in Prices!Hours(points)
  PROVE  Prices!NearestOf(points, t) = {p \in points : p[1] = t}
<1> DEFINE near == {h \in Prices!Hours(points) : Prices!Distance(h, t) <= Tolerance}
           Better(h, g) == \/ Prices!Distance(h, t) < Prices!Distance(g, t)
                           \/ Prices!Distance(h, t) = Prices!Distance(g, t) /\ h <= g
<1>1. Prices!Hours(points) \subseteq Nat /\ t \in Nat
  BY HoursAreNumbers
<1>2. \A h \in Nat : Prices!Distance(h, t) \in Nat /\ (Prices!Distance(h, t) = 0 <=> h = t)
  BY <1>1 DEF Prices!Distance
<1>3. t \in near /\ near \subseteq Nat
  BY <1>1, <1>2, ServicesAssumption DEF ServicesAssumption
<1>4. \A g \in near : Better(t, g)
  <2> SUFFICES ASSUME NEW g \in Nat PROVE Better(t, g)
    BY <1>3
  <2>1. CASE g = t
    BY <1>1, <2>1
  <2>2. CASE g # t
    <3>1. Prices!Distance(t, t) = 0 /\ Prices!Distance(g, t) > 0
      BY <1>1, <1>2, <2>2
    <3> QED BY <3>1
  <2> QED BY <2>1, <2>2
<1>5. \A h \in Nat : Better(h, t) => h = t
  <2> SUFFICES ASSUME NEW h \in Nat, h # t PROVE ~Better(h, t)
    OBVIOUS
  <2>1. Prices!Distance(t, t) = 0 /\ Prices!Distance(h, t) \in Nat /\ Prices!Distance(h, t) # 0
    BY <1>1, <1>2
  <2> QED BY <2>1
<1>6. Prices!NearestOf(points, t) = LET h == CHOOSE h \in near : \A g \in near : Better(h, g)
                                   IN {p \in points : p[1] = h}
  BY <1>3 DEF Prices!NearestOf
<1> HIDE DEF near, Better
<1> DEFINE chosen == CHOOSE h \in near : \A g \in near : Better(h, g)
<1>7. chosen \in near /\ \A g \in near : Better(chosen, g)
  <2>1. \E h \in near : \A g \in near : Better(h, g)
    BY <1>3, <1>4
  <2> QED BY <2>1
<1>8. Prices!NearestOf(points, t) = {p \in points : p[1] = chosen}
  BY <1>6
<1> HIDE DEF chosen
<1>9. chosen = t
  BY <1>3, <1>5, <1>7
<1> QED BY <1>8, <1>9

(* What is in the stores is what a look-up finds. *)
LEMMA KeptIsFound == HistoryInv => Prices!HoursAreFound
<1> SUFFICES ASSUME HistoryInv, NEW t \in Prices!Hours(saved)
             PROVE  /\ Prices!FindNearest(t, TRUE) # {}
                    /\ t \in Prices!Hours(db) /\ hasDb => t \in Prices!Hours(Prices!FindNearest(t, TRUE))
                    /\ t \notin Prices!Hours(db) =>
                         /\ t \in Prices!Hours(Prices!FindNearest(t, FALSE))
                         /\ Prices!NearestOf(db, t) = {} => t \in Prices!Hours(Prices!FindNearest(t, TRUE))
                    /\ ~hasDb => {p \in saved : p[1] = t} \subseteq Prices!FindNearest(t, TRUE)
  BY DEF Prices!HoursAreFound
<1> DEFINE own(points) == {p \in points : p[1] = t}
           S == Prices!Stored
<1>1. /\ S # Nothing /\ db \in SUBSET Points
      /\ t \in Prices!Hours(db) \/ t \in Prices!Hours(S)
      /\ ~hasDb => saved \subseteq S
  BY HoursJoin DEF HistoryInv, HistoryTypes, PointsKept
<1>2. S \in SUBSET Points
  BY DEF HistoryInv, HistoryTypes, PointsKept, Prices!Stored
<1>3. ASSUME NEW points \in SUBSET Points, t \in Prices!Hours(points)
      PROVE  Prices!NearestOf(points, t) = own(points) /\ t \in Prices!Hours(own(points)) /\ own(points) # {}
  BY <1>3, NearestIsOwn DEF Prices!Hours
<1>4. ASSUME NEW answers
      PROVE  Prices!FindNearest(t, answers) =
               IF hasDb /\ answers /\ Prices!NearestOf(db, t) # {} THEN Prices!NearestOf(db, t)
               ELSE Prices!NearestOf(S, t)
  BY <1>1 DEF Prices!FindNearest
<1> HIDE DEF S
<1>5. ~hasDb => t \in Prices!Hours(S) /\ own(saved) \subseteq own(S)
  BY <1>1 DEF Prices!Hours
<1> HIDE DEF own
<1>6. CASE t \in Prices!Hours(db) /\ hasDb
  BY <1>1, <1>3, <1>4, <1>6
<1>7. CASE ~hasDb
  BY <1>1, <1>2, <1>3, <1>4, <1>5, <1>7 DEF own
<1>8. CASE t \notin Prices!Hours(db)
  BY <1>1, <1>2, <1>3, <1>4, <1>8, <1>7
<1> QED BY <1>6, <1>7, <1>8

(* Who asks for an hour that was saved gets a price, and that hour's own     *)
(* unless only the file has it and the database has a row near: crashes      *)
(* between the two files, failed statements and saves that overlap at the    *)
(* database lose nothing, as long as saves do not overlap at the file.       *)
THEOREM SavedHoursAreFound == Spec => []HoursAreFound
<1>1. Init => (subject = "prices" => (alone => HistoryInv))
  BY HistoryStarts DEF Init, InitService, InitPrices
<1>2. (subject = "prices" => (alone => HistoryInv)) /\ [Next]_vars => (subject = "prices" => (alone => HistoryInv))'
  BY StepsOfPrices, HistoryKeeps
<1>3. (subject = "prices" => (alone => HistoryInv)) => HoursAreFound
  BY KeptIsFound DEF HoursAreFound, Prices!HoursAreFound
<1> QED BY <1>1, <1>2, <1>3, PTL DEF Spec

-----------------------------------------------------------------------------
(* The samples of the mempool. *)
Chart(s) == s \in Seq(Int) /\ Stats!Ascends(s) /\ \A i \in DOMAIN s : s[i] <= now
StatsInv ==
  /\ now \in Nat /\ since \in Int
  /\ Chart(samples)
  /\ file = NoFile \/ Chart(file)
  /\ read = NoFile \/ Chart(read)

LEMMA ChartParts ==
  ASSUME NEW s, Chart(s), NEW m \in 1..(Len(s) + 1), NEW n \in 0..Len(s)
  PROVE  Chart(SubSeq(s, m, n))
<1>1. s \in Seq(Int) /\ Len(s) \in Nat /\ DOMAIN s = 1..Len(s)
  BY DEF Chart
<1> DEFINE t == SubSeq(s, m, n)
<1>2. t \in Seq(Int) /\ Len(t) = (IF m <= n THEN n - m + 1 ELSE 0) /\ \A i \in 1..Len(t) : t[i] = s[m + i - 1]
  BY <1>1, SubSeqProperties
<1> HIDE DEF t
<1>3. DOMAIN t = 1..Len(t) /\ \A i \in DOMAIN t : m + i - 1 \in DOMAIN s /\ t[i] = s[m + i - 1]
  <2>1. DOMAIN t = 1..Len(t)
    BY <1>2
  <2>2. \A i \in DOMAIN t : m + i - 1 \in DOMAIN s
    <3> TAKE i \in DOMAIN t
    <3>1. m \in Nat /\ n \in Nat /\ 1 <= m /\ n <= Len(s)
      BY <1>1
    <3>2. i \in Nat /\ 1 <= i /\ i <= Len(t)
      BY <1>2, <2>1
    <3>3. m <= n /\ Len(t) = n - m + 1
      BY <1>2, <3>1, <3>2
    <3> QED BY <1>1, <3>1, <3>2, <3>3, SMTT(30)
  <2> QED BY <1>2, <2>1, <2>2
<1>4. \A i, j \in DOMAIN t : i < j => m + i - 1 < m + j - 1
  BY <1>1, <1>3
<1>5. Stats!Ascends(t)
  BY <1>3, <1>4 DEF Chart, Stats!Ascends
<1>6. \A i \in DOMAIN t : t[i] <= now
  BY <1>3 DEF Chart
<1> QED BY <1>2, <1>5, <1>6 DEF Chart, t

LEMMA LatestOfChart == ASSUME NEW s, Chart(s) PROVE Chart(Stats!Latest(s))
<1>1. s \in Seq(Int) /\ Len(s) \in Nat /\ MaxSamples \in Nat
  BY ServicesAssumption DEF Chart, ServicesAssumption
<1> DEFINE m == IF Len(s) > MaxSamples THEN Len(s) - MaxSamples + 1 ELSE 1
<1>2. m \in 1..(Len(s) + 1) /\ Len(s) \in 0..Len(s)
  BY <1>1
<1>3. Stats!Latest(s) = SubSeq(s, m, Len(s))
  BY DEF Stats!Latest
<1> QED BY <1>2, <1>3, ChartParts

LEMMA PartOfAscending ==
  ASSUME NEW s \in Seq(Int), Stats!Ascends(s), NEW b \in Int, \A i \in DOMAIN s : s[i] <= b, NEW I
  PROVE  /\ Stats!Selected(s, I) \in Seq(Int) /\ Stats!Ascends(Stats!Selected(s, I))
         /\ \A i \in DOMAIN Stats!Selected(s, I) : Stats!Selected(s, I)[i] <= b
<1> DEFINE t == Selected(s, I)
<1>1. Stats!Selected(s, I) = t
  BY DEF Stats!Selected, Selected
<1>2. t \in Seq(Int) /\ Picks(t, s, I, Len(s))
  BY Selecting
<1> HIDE DEF t
<1>3. DOMAIN s = 1..Len(s)
  OBVIOUS
<1>4. ASSUME NEW j \in DOMAIN t, NEW k \in DOMAIN t, j < k PROVE t[j] <= t[k]
  <2>1. PICK i \in 1..Len(s), l \in 1..Len(s) : i < l /\ t[j] = s[i] /\ t[k] = s[l]
    BY <1>2, <1>4 DEF Picks
  <2> QED BY <1>3, <2>1 DEF Stats!Ascends
<1>5. \A i \in DOMAIN t : t[i] <= b
  <2> TAKE j \in DOMAIN t
  <2>1. PICK i \in 1..Len(s) : t[j] = s[i]
    BY <1>2 DEF Picks
  <2> QED BY <1>3, <2>1
<1> QED BY <1>1, <1>2, <1>4, <1>5 DEF Stats!Ascends

LEMMA AppendNow == ASSUME NEW s, Chart(s), now \in Nat PROVE Chart(Append(s, now))
<1> DEFINE t == Append(s, now)
           n == Len(s) + 1
<1>1. s \in Seq(Int) /\ DOMAIN s = 1..Len(s) /\ Len(s) \in Nat
  BY DEF Chart
<1>2. t \in Seq(Int) /\ DOMAIN t = 1..n /\ t[n] = now /\ \A i \in DOMAIN s : t[i] = s[i]
  BY <1>1
<1>3. \A i \in DOMAIN t : i = n \/ i \in DOMAIN s
  BY <1>1, <1>2
<1> HIDE DEF t
<1>4. \A i \in DOMAIN t : t[i] <= now
  BY <1>2, <1>3 DEF Chart
<1>5. ASSUME NEW i \in DOMAIN t, NEW j \in DOMAIN t, i < j PROVE t[i] <= t[j]
  <2>1. i \in DOMAIN s
    BY <1>1, <1>2, <1>5
  <2>2. CASE j = n
    BY <1>2, <1>4, <2>2
  <2>3. CASE j \in DOMAIN s
    BY <1>2, <1>5, <2>1, <2>3 DEF Chart, Stats!Ascends
  <2> QED BY <1>3, <2>2, <2>3
<1> QED BY <1>2, <1>4, <1>5 DEF Chart, Stats!Ascends, t

LEMMA RowsAscend == ASSUME now \in Nat, since \in Int PROVE Chart(Stats!RowsSince)
<1> DEFINE times == [i \in 1..(now - since + 1) |-> since + i - 1]
           I == {i \in DOMAIN times : times[i] \in db}
<1>1. times \in Seq(Int) /\ Stats!Ascends(times) /\ \A i \in DOMAIN times : times[i] <= now
  <2>1. CASE now - since + 1 \in Nat
    <3>1. times \in Seq(Int)
      BY <2>1
    <3> QED BY <3>1 DEF Stats!Ascends
  <2>2. CASE now - since + 1 < 0
    <3>1. 1..(now - since + 1) = 1..0
      BY <2>2
    <3>2. times = [i \in 1..0 |-> since + i - 1]
      BY <3>1
    <3>3. times \in Seq(Int) /\ DOMAIN times = {}
      BY <3>2
    <3> QED BY <3>3 DEF Stats!Ascends
  <2> QED BY <2>1, <2>2
<1>2. Stats!RowsSince = Stats!Selected(times, I)
  BY DEF Stats!RowsSince
<1> HIDE DEF times, I
<1> QED BY <1>1, <1>2, PartOfAscending DEF Chart

-----------------------------------------------------------------------------
LEMMA StatsStart == ASSUME Stats!Init PROVE StatsInv
  BY ServicesAssumption DEF Stats!Init, StatsInv, Chart, Stats!Ascends

(* What waits for the passing of time. *)
LEMMA LaterCharts ==
  ASSUME StatsInv, now' \in Nat, now' >= now, UNCHANGED <<since, samples, file, read>>
  PROVE  StatsInv'
<1>1. ASSUME NEW s, Chart(s) PROVE s \in Seq(Int) /\ Stats!Ascends(s) /\ \A i \in DOMAIN s : s[i] <= now'
  BY <1>1 DEF Chart, StatsInv
<1>2. Stats!Ascends(samples)' /\ (file # NoFile => Stats!Ascends(file)') /\ (read # NoFile => Stats!Ascends(read)')
  BY <1>1 DEF StatsInv, Stats!Ascends
<1> QED BY <1>1, <1>2 DEF StatsInv, Chart, Stats!Ascends

(* The end of a load, from the history it has read. *)
LEMMA Loading == ASSUME StatsInv, NEW loaded, Chart(loaded), Stats!Loaded(loaded), now' = now, since' \in Int,
                        file' = file, read' = NoFile \/ read' = read
                 PROVE  StatsInv'
<1>1. Chart(samples')
  BY LatestOfChart DEF Stats!Loaded
<1> QED BY <1>1 DEF StatsInv, Chart, Stats!Ascends

LEMMA RecordKeeps == ASSUME StatsInv, NEW r, Stats!RecordStep(r) PROVE StatsInv'
<1>1. CASE Stats!PoolAnswered(r)
  <2>1. Chart(samples')
    BY <1>1, AppendNow, LatestOfChart DEF Stats!PoolAnswered, StatsInv
  <2> QED BY <1>1, <2>1 DEF Stats!PoolAnswered, StatsInv, Chart, Stats!Ascends
<1>2. CASE Stats!PoolFails(r)
  BY <1>2 DEF Stats!PoolFails, Stats!Ends, StatsInv, Chart, Stats!Ascends
<1>3. CASE Stats!SavesToDb(r)
  BY <1>3 DEF Stats!SavesToDb, Stats!Ends, StatsInv, Chart, Stats!Ascends
<1>4. CASE Stats!SavesToFile(r)
  BY <1>4 DEF Stats!SavesToFile, Stats!Ends, StatsInv, Chart, Stats!Ascends
<1>5. CASE Stats!SaveFails(r)
  BY <1>5 DEF Stats!SaveFails, Stats!Ends, StatsInv, Chart, Stats!Ascends
<1> QED BY <1>1, <1>2, <1>3, <1>4, <1>5 DEF Stats!RecordStep

LEMMA StatsKeep == StatsInv /\ [Stats!Next]_(Stats!vars) => StatsInv'
<1> SUFFICES ASSUME StatsInv, [Stats!Next]_(Stats!vars) PROVE StatsInv'
  OBVIOUS
<1>1. CASE Stats!Start
  <2>1. Stats!SampleWindow \in Int
    BY ServicesAssumption DEF ServicesAssumption, Stats!SampleWindow
  <2> QED BY <1>1, <2>1 DEF Stats!Start, Stats!memVars, StatsInv, Chart, Stats!Ascends
<1>2. CASE Stats!FromDb
  <2> DEFINE all == Stats!RowsSince
             n == IF Len(all) < MaxSamples THEN Len(all) ELSE MaxSamples
  <2>1. Chart(all)
    BY RowsAscend DEF StatsInv
  <2>2. 1 \in 1..(Len(all) + 1) /\ n \in 0..Len(all)
    BY <2>1, ServicesAssumption DEF ServicesAssumption, Chart
  <2>3. Chart(SubSeq(all, 1, n))
    <3> HIDE DEF all, n
    <3> QED BY <2>1, <2>2, ChartParts
  <2>4. Stats!Loaded(SubSeq(all, 1, n)) /\ UNCHANGED <<now, since, read, file>>
    BY <1>2 DEF Stats!FromDb
  <2> QED BY <2>3, <2>4, Loading DEF StatsInv
<1>3. CASE Stats!FallsBack
  BY <1>3 DEF Stats!FallsBack, Stats!memVars, StatsInv, Chart, Stats!Ascends
<1>4. CASE Stats!FromFile
  <2>1. CASE read = NoFile
    BY <1>4, <2>1 DEF Stats!FromFile, Stats!memVars, StatsInv, Chart, Stats!Ascends
  <2>2. CASE read # NoFile
    <3> DEFINE old == Stats!Selected(read, {i \in DOMAIN read : read[i] >= since})
    <3>1. Chart(old)
      <4>1. Chart(read)
        BY <2>2 DEF StatsInv
      <4>2. read \in Seq(Int) /\ Stats!Ascends(read) /\ now \in Int /\ \A i \in DOMAIN read : read[i] <= now
        BY <4>1 DEF Chart, StatsInv
      <4> QED BY <4>2, PartOfAscending DEF Chart
    <3>2. Stats!Loaded(old) /\ UNCHANGED <<now, since, file>> /\ read' = NoFile
      BY <1>4, <2>2 DEF Stats!FromFile
    <3> QED BY <3>1, <3>2, Loading DEF StatsInv
  <2> QED BY <2>1, <2>2
<1>5. ASSUME NEW r \in Triggered, Stats!Triggers(r) PROVE StatsInv'
  BY <1>5 DEF Stats!Triggers, StatsInv, Chart, Stats!Ascends
<1>6. ASSUME NEW r \in Stats!Calls, Stats!RecordStep(r) PROVE StatsInv'
  BY <1>6, RecordKeeps
<1>7. CASE Stats!Tick
  <2>1. now' \in Nat /\ now' >= now /\ UNCHANGED <<since, samples, file, read>>
    BY <1>7 DEF Stats!Tick, Stats!memVars, StatsInv
  <2> QED BY <2>1, LaterCharts
<1>8. CASE Stats!Crash
  BY <1>8 DEF Stats!Crash, StatsInv, Chart, Stats!Ascends
<1>9. CASE UNCHANGED Stats!vars
  BY <1>9 DEF Stats!vars, Stats!memVars, StatsInv, Chart, Stats!Ascends
<1> QED BY <1>1, <1>2, <1>3, <1>4, <1>5, <1>6, <1>7, <1>8, <1>9 DEF Stats!Next

(* The samples are in the order of their times, in memory and in the file,   *)
(* whatever calls overlap with each other, with the load of the history and  *)
(* with restarts.                                                            *)
THEOREM SamplesAreInOrder == Spec => []SamplesAscend
<1>1. Init => (subject = "stats" => StatsInv)
  BY StatsStart DEF Init, InitService, InitStats
<1>2. (subject = "stats" => StatsInv) /\ [Next]_vars => (subject = "stats" => StatsInv)'
  BY StepsOfStats, StatsKeep
<1>3. (subject = "stats" => StatsInv) => SamplesAscend
  BY DEF SamplesAscend, StatsInv, Chart, Stats!SamplesAscend
<1> QED BY <1>1, <1>2, <1>3, PTL DEF Spec

-----------------------------------------------------------------------------
(* The trees of replacements.  Each transaction of the cache is in the tree
   that treeMap names; what a tree says of a transaction is in replaces. *)
TxSets == SUBSET Trees!Txs
Partial(V) == UNION {[S -> V] : S \in SUBSET Trees!Txs}
Records == [txs : SUBSET Trees!Txs, replacedBy : Partial(Trees!Txs), replaces : Partial(TxSets),
            rbfTrees : Partial(Partial(TxSets)), treeMap : Partial(Trees!Txs),
            expiring : SUBSET Trees!Txs]
Direct(r, t) == IF t \in DOMAIN r.replaces THEN r.replaces[t] ELSE {}
InTree(r, i) == {t \in r.txs : r.treeMap[t] = i}
Named(r) == \A t \in r.txs : r.treeMap[t] \in DOMAIN r.rbfTrees
Rooted(r) ==
  \A i \in DOMAIN r.rbfTrees :
    /\ i \in r.txs /\ r.treeMap[i] = i
    /\ DOMAIN r.rbfTrees[i] = InTree(r, i)
    /\ \A t \in InTree(r, i) : r.rbfTrees[i][t] = Direct(r, t)
Linked(r) ==
  /\ \A u \in DOMAIN r.replacedBy :
       LET t == r.replacedBy[u]
       IN u \in r.txs /\ t \in DOMAIN r.replaces /\ u \in r.replaces[t] /\ r.treeMap[t] = r.treeMap[u]
  /\ \A t \in DOMAIN r.replaces :
       t \in r.txs /\ \A u \in r.replaces[t] : u \in DOMAIN r.replacedBy /\ r.replacedBy[u] = t
(* The newest of a tree, and no other, was not replaced. *)
Newest(r) == \A t \in r.txs : t \notin DOMAIN r.replacedBy <=> r.treeMap[t] = t
Acyclic(r) == \A Z \in SUBSET DOMAIN r.replacedBy : Z # {} => \E u \in Z : r.replacedBy[u] \notin Z
Consistent(r) ==
  /\ DOMAIN r.treeMap = r.txs /\ r.expiring \subseteq r.txs
  /\ Named(r) /\ Rooted(r) /\ Linked(r) /\ Newest(r) /\ Acyclic(r)
Forests == {r \in Records : Consistent(r)}

LEMMA TxsAreNumbers == IsFiniteSet(Trees!Txs) /\ Trees!Txs \in SUBSET Int
  BY ServicesAssumption DEF ServicesAssumption, Trees!Txs

LEMMA PartialMaps ==
  ASSUME NEW V, NEW f
  PROVE  f \in Partial(V) <=> DOMAIN f \subseteq Trees!Txs /\ f \in [DOMAIN f -> V]
  BY DEF Partial

LEMMA Fields ==
  ASSUME NEW r \in Records
  PROVE  /\ r.txs \in SUBSET Trees!Txs /\ r.expiring \in SUBSET Trees!Txs
         /\ DOMAIN r.replacedBy \subseteq Trees!Txs /\ \A u \in DOMAIN r.replacedBy : r.replacedBy[u] \in Trees!Txs
         /\ DOMAIN r.replaces \subseteq Trees!Txs /\ \A t \in DOMAIN r.replaces : r.replaces[t] \in SUBSET Trees!Txs
         /\ DOMAIN r.treeMap \subseteq Trees!Txs /\ \A t \in DOMAIN r.treeMap : r.treeMap[t] \in Trees!Txs
         /\ DOMAIN r.rbfTrees \subseteq Trees!Txs /\ \A i \in DOMAIN r.rbfTrees : r.rbfTrees[i] \in Partial(TxSets)
<1>1. /\ r.txs \in SUBSET Trees!Txs /\ r.expiring \in SUBSET Trees!Txs
      /\ r.replacedBy \in Partial(Trees!Txs) /\ r.replaces \in Partial(TxSets)
      /\ r.treeMap \in Partial(Trees!Txs) /\ r.rbfTrees \in Partial(Partial(TxSets))
  BY DEF Records
<1>2. ASSUME NEW V, NEW f \in Partial(V) PROVE DOMAIN f \subseteq Trees!Txs /\ \A x \in DOMAIN f : f[x] \in V
  BY PartialMaps
<1> QED BY <1>1, <1>2 DEF TxSets

(* What is removed are whole trees. *)
LEMMA WholeTrees ==
  ASSUME NEW r \in Forests, NEW A \in SUBSET (r.txs \ DOMAIN r.replacedBy)
  PROVE  Trees!Versions(r, A) = {t \in r.txs : r.treeMap[t] \in A}
<1> DEFINE N == Cardinality(r.txs)
           S == SUBSET r.txs
           Goes(f) == f = [i \in 0..N |-> IF i = 0 THEN A ELSE Trees!Back(r, f[i - 1])]
           reached == CHOOSE f : Goes(f)
           back == [s \in S |-> Trees!Back(r, s)]
           turn == [x \in (1..N) \X S |-> back[x[2]]]
<1>1. r \in Records /\ Linked(r) /\ Newest(r) /\ Acyclic(r) /\ DOMAIN r.treeMap = r.txs
  BY DEF Forests, Consistent
<1>2. IsFiniteSet(r.txs) /\ N \in Nat
  BY <1>1, Fields, TxsAreNumbers, FS_Subset, FS_CardinalityType
<1>3. Trees!Versions(r, A) = reached[N]
  BY DEF Trees!Versions, Trees!Cardinality, Cardinality
<1>4. \A s \in S : Trees!Back(r, s) \in S /\ s \subseteq Trees!Back(r, s)
  <2>1. \A t \in DOMAIN r.replaces : r.replaces[t] \subseteq r.txs
    BY <1>1 DEF Linked
  <2> QED BY <2>1 DEF Trees!Back
<1> HIDE DEF N
<1>5. A \in S
  OBVIOUS
<1>6. back \in [S -> S] /\ \A s \in S : s \subseteq back[s]
  BY <1>4
<1>7. PICK f \in [0..N -> S] : f[0] = A /\ \A i \in 1..N : f[i] = back[f[i - 1]]
  <2>1. turn \in [(1..N) \X S -> S]
    BY <1>6
  <2>2. Iterates(N, S, A, turn)
    <3> HIDE DEF turn, S
    <3> QED BY <1>2, <1>5, <2>1, Recursion
  <2>3. PICK f \in [0..N -> S] : f[0] = A /\ \A i \in 1..N : f[i] = turn[<<i, f[i - 1]>>]
    BY <2>2 DEF Iterates
  <2>4. \A i \in 1..N : i - 1 \in 0..N /\ <<i, f[i - 1]>> \in (1..N) \X S
    BY <1>2, <2>3
  <2> QED BY <2>3, <2>4
<1>8. Goes(f)
  <2>1. f = [i \in 0..N |-> f[i]]
    BY <1>7
  <2>2. \A i \in 1..N : i - 1 \in 0..N /\ f[i - 1] \in S
    BY <1>2, <1>7
  <2>3. \A i \in 0..N : f[i] = IF i = 0 THEN A ELSE Trees!Back(r, f[i - 1])
    <3> TAKE i \in 0..N
    <3>1. CASE i = 0
      BY <1>7, <3>1
    <3>2. CASE i # 0
      <4>1. i \in 1..N
        BY <1>2, <3>2
      <4>2. f[i] = back[f[i - 1]]
        BY <1>7, <4>1
      <4> QED BY <2>2, <3>2, <4>1, <4>2
    <3> QED BY <3>1, <3>2
  <2> QED BY <2>1, <2>3
<1>9. Goes(reached)
  BY <1>8
<1>10. reached = f
  <2> DEFINE T == {i \in 0..N : reached[i] = f[i]}
  <2>1. \A i \in 0..N : reached[i] = IF i = 0 THEN A ELSE Trees!Back(r, reached[i - 1])
    BY <1>9
  <2>2. \A i \in 0..N : f[i] = IF i = 0 THEN A ELSE Trees!Back(r, f[i - 1])
    BY <1>8
  <2>3. reached = [i \in 0..N |-> reached[i]] /\ f = [i \in 0..N |-> f[i]]
    BY <1>8, <1>9
  <2> HIDE DEF reached
  <2>4. 0 \in T
    BY <1>2, <2>1, <2>2
  <2>5. \A i \in 0..(N - 1) : i \in T => i + 1 \in T
    <3> TAKE i \in 0..(N - 1)
    <3>1. i + 1 \in 0..N /\ i + 1 # 0 /\ (i + 1) - 1 = i
      BY <1>2
    <3> QED BY <2>1, <2>2, <3>1
  <2>6. \A i \in 0..N : i \in T
    <3> HIDE DEF T
    <3> QED BY <1>2, <2>4, <2>5, UpTo
  <2> QED BY <2>3, <2>6
<1> DEFINE out == f[N]
<1>11. out \in S /\ A \subseteq out /\ Trees!Back(r, out) = out
  <2>1. back[out] = out
    BY <1>2, <1>6, <1>7, RoundsClose, ZenonT(40) DEF N
  <2>2. \A i \in 0..N : A \subseteq f[i]
    <3> DEFINE T == {i \in 0..N : A \subseteq f[i]}
    <3>1. 0 \in T
      BY <1>2, <1>7
    <3>2. \A i \in 0..(N - 1) : i \in T => i + 1 \in T
      <4> TAKE i \in 0..(N - 1)
      <4>1. i + 1 \in 1..N /\ i + 1 \in 0..N /\ (i + 1) - 1 = i /\ i \in 0..N
        BY <1>2
      <4> QED BY <1>6, <1>7, <4>1
    <3> HIDE DEF T
    <3>3. \A i \in 0..N : i \in T
      BY <1>2, <3>1, <3>2, UpTo
    <3> QED BY <3>3 DEF T
  <2>3. N \in 0..N
    BY <1>2
  <2>4. out \in S
    BY <1>7, <2>3
  <2> QED BY <2>1, <2>2, <2>3, <2>4
<1>12. \A x \in out : r.treeMap[x] \in A
  <2> DEFINE T == {i \in 0..N : \A x \in f[i] : r.treeMap[x] \in A}
  <2>1. 0 \in T
    <3>1. \A x \in A : r.treeMap[x] = x
      BY <1>1 DEF Newest
    <3> QED BY <1>2, <1>7, <3>1
  <2>2. \A i \in 0..(N - 1) : i \in T => i + 1 \in T
    <3> TAKE i \in 0..(N - 1)
    <3> HAVE i \in T
    <3>1. i + 1 \in 1..N /\ i + 1 \in 0..N /\ (i + 1) - 1 = i /\ i \in 0..N
      BY <1>2
    <3>2. f[i + 1] = Trees!Back(r, f[i])
      BY <1>7, <3>1
    <3>3. ASSUME NEW x \in f[i + 1] PROVE r.treeMap[x] \in A
      <4>1. CASE x \in f[i]
        BY <4>1
      <4>2. CASE x \notin f[i]
        <5>1. PICK t \in f[i] \cap DOMAIN r.replaces : x \in r.replaces[t]
          BY <3>2, <4>2 DEF Trees!Back
        <5>2. r.treeMap[x] = r.treeMap[t]
          BY <1>1, <5>1 DEF Linked
        <5> QED BY <5>1, <5>2
      <4> QED BY <4>1, <4>2
    <3> QED BY <3>1, <3>3
  <2>3. \A i \in 0..N : i \in T
    <3> HIDE DEF T
    <3> QED BY <1>2, <2>1, <2>2, UpTo
  <2>4. N \in 0..N
    BY <1>2
  <2> HIDE DEF out
  <2> QED BY <2>3, <2>4 DEF out
<1> HIDE DEF out
<1>13. \A x \in r.txs : r.treeMap[x] \in A => x \in out
  <2> SUFFICES ASSUME NEW x \in r.txs, r.treeMap[x] \in A, x \notin out PROVE FALSE
    OBVIOUS
  <2> DEFINE Z == {u \in r.txs : r.treeMap[u] \in A /\ u \notin out}
  <2>1. Z \in SUBSET DOMAIN r.replacedBy
    <3>1. ASSUME NEW u \in Z, u \notin DOMAIN r.replacedBy PROVE FALSE
      <4>1. r.treeMap[u] = u
        BY <1>1, <3>1 DEF Newest
      <4> QED BY <1>11, <4>1
    <3> QED BY <3>1
  <2>2. PICK u \in Z : r.replacedBy[u] \notin Z
    BY <1>1, <2>1 DEF Acyclic
  <2>3. /\ u \in DOMAIN r.replacedBy /\ r.replacedBy[u] \in DOMAIN r.replaces
        /\ r.replacedBy[u] \in r.txs /\ u \in r.replaces[r.replacedBy[u]]
        /\ r.treeMap[r.replacedBy[u]] = r.treeMap[u]
    BY <1>1, <2>1 DEF Linked
  <2>4. r.replacedBy[u] \in out
    BY <2>2, <2>3
  <2>5. u \in Trees!Back(r, out)
    BY <2>3, <2>4 DEF Trees!Back
  <2> QED BY <1>11, <2>5
<1>14. out \subseteq r.txs /\ Trees!Versions(r, A) = out
  BY <1>3, <1>10, <1>11 DEF out
<1> QED BY <1>12, <1>13, <1>14

Overlaid(h, f, g) ==
  /\ DOMAIN h = DOMAIN f \cup DOMAIN g
  /\ \A x \in DOMAIN f : h[x] = f[x]
  /\ \A x \in DOMAIN g : x \notin DOMAIN f => h[x] = g[x]
LEMMA Overlay == ASSUME NEW f, NEW g PROVE Overlaid(Trees!Over(f, g), f, g)
  BY DEF Trees!Over, Overlaid

LEMMA PartialOver ==
  ASSUME NEW V, NEW f \in Partial(V), NEW g \in Partial(V)
  PROVE  Trees!Over(f, g) \in Partial(V)
<1>1. /\ DOMAIN f \subseteq Trees!Txs /\ DOMAIN g \subseteq Trees!Txs
      /\ \A x \in DOMAIN f : f[x] \in V
      /\ \A x \in DOMAIN g : g[x] \in V
  <2>1. ASSUME NEW h \in Partial(V) PROVE DOMAIN h \subseteq Trees!Txs /\ \A x \in DOMAIN h : h[x] \in V
    BY PartialMaps
  <2> QED BY <2>1
<1>2. Trees!Over(f, g) \in [DOMAIN f \cup DOMAIN g -> V]
  BY <1>1 DEF Trees!Over
<1> HIDE DEF Trees!Over
<1> QED BY <1>1, <1>2, PartialMaps

LEMMA PartialEach ==
  ASSUME NEW V, NEW S \in SUBSET Trees!Txs, NEW v \in V
  PROVE  Trees!Each(S, v) \in Partial(V) /\ DOMAIN Trees!Each(S, v) = S /\ \A x \in S : Trees!Each(S, v)[x] = v
<1>1. Trees!Each(S, v) \in [S -> V]
  BY DEF Trees!Each
<1> QED BY <1>1, PartialMaps DEF Trees!Each

LEMMA PartialOne ==
  ASSUME NEW V, NEW t \in Trees!Txs, NEW v \in V
  PROVE  /\ Trees!Each({t}, v) \in Partial(V) /\ DOMAIN Trees!Each({t}, v) = {t}
         /\ Trees!Each({t}, v)[t] = v
<1>1. {t} \in SUBSET Trees!Txs
  OBVIOUS
<1> QED BY <1>1, PartialEach

Kept(h, V, f, S) == h \in Partial(V) /\ DOMAIN h = DOMAIN f \ S /\ \A x \in DOMAIN h : h[x] = f[x]
LEMMA PartialWithout ==
  ASSUME NEW V, NEW f \in Partial(V), NEW S
  PROVE  Kept(Trees!Without(f, S), V, f, S)
<1>1. DOMAIN f \subseteq Trees!Txs /\ \A x \in DOMAIN f : f[x] \in V
  BY PartialMaps
<1>2. Trees!Without(f, S) \in [DOMAIN f \ S -> V]
  BY <1>1 DEF Trees!Without
<1> QED BY <1>1, <1>2, PartialMaps DEF Trees!Without, Kept

(* Joined trees without a common transaction: what any says of a
   transaction, all say. *)
Covered(T) == UNION {DOMAIN tree : tree \in T}
LEMMA Joining ==
  ASSUME NEW T, NEW V, \A tree \in T : tree \in Partial(V), NEW g,
         \A tree \in T : \A x \in DOMAIN tree : tree[x] = g[x]
  PROVE  /\ Trees!Join(T) \in Partial(V)
         /\ DOMAIN Trees!Join(T) = Covered(T)
         /\ \A x \in DOMAIN Trees!Join(T) : Trees!Join(T)[x] = g[x]
<1> DEFINE D == UNION {DOMAIN tree : tree \in T}
           holder(x) == CHOOSE tree \in T : x \in DOMAIN tree
<1>1. Trees!Join(T) = [x \in D |-> holder(x)[x]]
  BY DEF Trees!Join
<1>2. \A x \in D : holder(x) \in T /\ x \in DOMAIN holder(x)
  OBVIOUS
<1>3. \A tree \in T : DOMAIN tree \subseteq Trees!Txs /\ \A x \in DOMAIN tree : tree[x] \in V
  <2>1. ASSUME NEW h \in Partial(V) PROVE DOMAIN h \subseteq Trees!Txs /\ \A x \in DOMAIN h : h[x] \in V
    BY PartialMaps
  <2> QED BY <2>1
<1>4. D \subseteq Trees!Txs
  BY <1>3
<1> HIDE DEF D, holder
<1>5. \A x \in D : holder(x)[x] \in V /\ holder(x)[x] = g[x]
  BY <1>2, <1>3
<1>6. Trees!Join(T) \in [D -> V] /\ \A x \in D : Trees!Join(T)[x] = g[x]
  BY <1>1, <1>5
<1>7. DOMAIN Trees!Join(T) = D
  BY <1>6
<1>8. Trees!Join(T) \in Partial(V)
  BY <1>4, <1>6, <1>7, PartialMaps
<1> QED BY <1>6, <1>7, <1>8 DEF D, Covered

Heads(r, replaced) == replaced \ DOMAIN r.replacedBy
(* What add changes: t becomes the newest of the trees it replaces. *)
Moved(r, heads) == heads \cup {u \in r.txs : r.treeMap[u] \in heads}
Added(r, q, t, heads) ==
  /\ q \in Records /\ q.txs = r.txs \cup {t} \cup heads /\ q.expiring = r.expiring
  /\ DOMAIN q.replacedBy = DOMAIN r.replacedBy \cup heads
  /\ \A u \in heads : q.replacedBy[u] = t
  /\ \A u \in DOMAIN r.replacedBy : q.replacedBy[u] = r.replacedBy[u]
  /\ DOMAIN q.replaces = DOMAIN r.replaces \cup {t} /\ q.replaces[t] = heads
  /\ \A u \in DOMAIN r.replaces : q.replaces[u] = r.replaces[u]
  /\ DOMAIN q.treeMap = q.txs
  /\ \A u \in q.txs : q.treeMap[u] = IF u \in Moved(r, heads) \cup {t} THEN t ELSE r.treeMap[u]
  /\ DOMAIN q.rbfTrees = (DOMAIN r.rbfTrees \ heads) \cup {t}
  /\ \A i \in DOMAIN r.rbfTrees \ heads : q.rbfTrees[i] = r.rbfTrees[i]
  /\ DOMAIN q.rbfTrees[t] = {t} \cup Moved(r, heads)
  /\ q.rbfTrees[t][t] = heads /\ \A u \in Moved(r, heads) : q.rbfTrees[t][u] = Direct(r, u)

LEMMA AddChanges ==
  ASSUME NEW r \in Forests, NEW t \in Trees!Txs \ r.txs, NEW replaced \in SUBSET Trees!Txs,
         t \notin replaced, Heads(r, replaced) # {}
  PROVE  Added(r, Trees!Add(r, replaced, t), t, Heads(r, replaced))
<1> DEFINE X == Trees!Txs
           heads == Heads(r, replaced)
           ids == {r.treeMap[u] : u \in heads \cap DOMAIN r.treeMap}
           news == heads \ DOMAIN r.treeMap
           olds == {r.rbfTrees[i] : i \in ids \cap DOMAIN r.rbfTrees}
           below == Trees!Over(Trees!Each(news, {}), Trees!Join(olds))
           roots == (ids \cap DOMAIN r.rbfTrees) \cup news
           tree == Trees!Over(Trees!Each({t}, roots), below)
           q == Trees!Add(r, replaced, t)
           Replaced == Trees!Over(Trees!Each(heads, t), r.replacedBy)
           Replaces == Trees!Over(Trees!Each({t}, roots), r.replaces)
           Others == Trees!Over(Trees!Each({t}, tree), Trees!Without(r.rbfTrees, ids))
           Map == Trees!Over(Trees!Each(DOMAIN tree, t), r.treeMap)
<1>1. /\ r \in Records /\ Named(r) /\ Rooted(r) /\ Linked(r) /\ Newest(r)
      /\ DOMAIN r.treeMap = r.txs /\ heads \in SUBSET X /\ t \notin heads
      /\ \A u \in heads : u \notin DOMAIN r.replacedBy
  BY DEF Forests, Consistent, Heads
<1>2. q = [r EXCEPT !.txs = r.txs \cup {t} \cup news, !.replacedBy = Replaced, !.replaces = Replaces,
                    !.rbfTrees = Others, !.treeMap = Map]
  BY DEF Trees!Add, Heads
<1>3. /\ r.txs \in SUBSET X /\ r.expiring \in SUBSET X
      /\ r.replacedBy \in Partial(X) /\ r.replaces \in Partial(TxSets)
      /\ r.treeMap \in Partial(X) /\ r.rbfTrees \in Partial(Partial(TxSets))
  BY <1>1 DEF Records
<1>4. \A u \in heads \cap r.txs : r.treeMap[u] = u /\ u \in DOMAIN r.rbfTrees
  BY <1>1 DEF Newest, Named
<1>5. ids = heads \cap r.txs /\ news = heads \ r.txs /\ roots = heads /\ ids \cap DOMAIN r.rbfTrees = ids
  BY <1>1, <1>4
<1> HIDE DEF ids, news, roots
<1>e. heads \in SUBSET X /\ news \in SUBSET X /\ {} \in TxSets /\ roots \in TxSets /\ {t} \in SUBSET X /\ t \in X
  BY <1>1, <1>5 DEF TxSets
<1>6. /\ Trees!Join(olds) \in Partial(TxSets)
      /\ DOMAIN Trees!Join(olds) = {u \in r.txs : r.treeMap[u] \in ids}
      /\ \A u \in DOMAIN Trees!Join(olds) : Trees!Join(olds)[u] = Direct(r, u)
  <2> DEFINE g == [u \in X |-> Direct(r, u)]
  <2>1. \A old \in olds : old \in Partial(TxSets)
    BY <1>1, Fields
  <2>2. \A old \in olds : \A x \in DOMAIN old : x \in r.txs /\ old[x] = g[x]
    <3> TAKE old \in olds
    <3>1. PICK i \in DOMAIN r.rbfTrees : old = r.rbfTrees[i]
      OBVIOUS
    <3>2. DOMAIN old = InTree(r, i) /\ \A x \in InTree(r, i) : old[x] = Direct(r, x)
      BY <1>1, <3>1 DEF Rooted
    <3> QED BY <1>3, <3>2 DEF InTree
  <2>3. Covered(olds) = {u \in r.txs : r.treeMap[u] \in ids}
    <3>1. \A i \in ids : i \in DOMAIN r.rbfTrees /\ DOMAIN r.rbfTrees[i] = InTree(r, i)
      BY <1>1, <1>5 DEF Rooted
    <3>2. \A u \in r.txs : u \in Covered(olds) <=> \E i \in ids : u \in InTree(r, i)
      BY <1>5, <3>1 DEF Covered
    <3>3. Covered(olds) \subseteq r.txs
      BY <2>2 DEF Covered
    <3> QED BY <3>2, <3>3 DEF InTree
  <2> HIDE DEF olds
  <2>4. /\ Trees!Join(olds) \in Partial(TxSets)
        /\ DOMAIN Trees!Join(olds) = Covered(olds)
        /\ \A u \in DOMAIN Trees!Join(olds) : Trees!Join(olds)[u] = g[u]
    <3>1. \A old \in olds : \A x \in DOMAIN old : old[x] = g[x]
      BY <2>2
    <3> HIDE DEF g
    <3> QED BY <2>1, <3>1, Joining
  <2> QED BY <1>3, <2>3, <2>4
<1> HIDE DEF olds
<1>7. /\ below \in Partial(TxSets) /\ DOMAIN below = Moved(r, heads)
      /\ \A u \in Moved(r, heads) : below[u] = Direct(r, u)
  <2>1. /\ Trees!Each(news, {}) \in Partial(TxSets) /\ DOMAIN Trees!Each(news, {}) = news
        /\ \A u \in news : Trees!Each(news, {})[u] = {}
    BY <1>e, PartialEach
  <2>2. below \in Partial(TxSets) /\ Overlaid(below, Trees!Each(news, {}), Trees!Join(olds))
    BY <1>6, <2>1, PartialOver, Overlay
  <2>3. news \cup {u \in r.txs : r.treeMap[u] \in ids} = Moved(r, heads)
    BY <1>1, <1>4, <1>5, Fields DEF Moved, Rooted, Named
  <2>4. \A u \in news : Direct(r, u) = {}
    BY <1>1, <1>5 DEF Direct, Linked
  <2> HIDE DEF below
  <2> QED BY <1>6, <2>1, <2>2, <2>3, <2>4 DEF Overlaid
<1> HIDE DEF below
<1>8. t \notin Moved(r, heads) /\ Moved(r, heads) \subseteq r.txs \cup heads
  BY <1>1 DEF Moved
<1>9. /\ tree \in Partial(TxSets) /\ DOMAIN tree = {t} \cup Moved(r, heads)
      /\ tree[t] = heads /\ \A u \in Moved(r, heads) : tree[u] = Direct(r, u)
  <2>1. /\ Trees!Each({t}, roots) \in Partial(TxSets) /\ DOMAIN Trees!Each({t}, roots) = {t}
        /\ Trees!Each({t}, roots)[t] = roots
    BY <1>e, PartialOne
  <2>2. tree \in Partial(TxSets) /\ Overlaid(tree, Trees!Each({t}, roots), below)
    BY <1>7, <2>1, PartialOver, Overlay
  <2> HIDE DEF tree
  <2> QED BY <1>5, <1>7, <1>8, <2>1, <2>2 DEF Overlaid
<1> HIDE DEF tree
<1>10. /\ Replaced \in Partial(X) /\ DOMAIN Replaced = DOMAIN r.replacedBy \cup heads
       /\ \A u \in heads : Replaced[u] = t
       /\ \A u \in DOMAIN r.replacedBy : Replaced[u] = r.replacedBy[u]
  <2>1. /\ Trees!Each(heads, t) \in Partial(X) /\ DOMAIN Trees!Each(heads, t) = heads
        /\ \A u \in heads : Trees!Each(heads, t)[u] = t
    BY <1>e, PartialEach
  <2>2. Replaced \in Partial(X) /\ Overlaid(Replaced, Trees!Each(heads, t), r.replacedBy)
    BY <1>3, <2>1, PartialOver, Overlay
  <2> HIDE DEF Replaced
  <2> QED BY <1>1, <2>1, <2>2 DEF Overlaid
<1> HIDE DEF Replaced
<1>11. /\ Replaces \in Partial(TxSets) /\ DOMAIN Replaces = DOMAIN r.replaces \cup {t}
       /\ Replaces[t] = heads
       /\ \A u \in DOMAIN r.replaces : Replaces[u] = r.replaces[u]
  <2>1. /\ Trees!Each({t}, roots) \in Partial(TxSets) /\ DOMAIN Trees!Each({t}, roots) = {t}
        /\ Trees!Each({t}, roots)[t] = roots
    BY <1>e, PartialOne
  <2>2. Replaces \in Partial(TxSets) /\ Overlaid(Replaces, Trees!Each({t}, roots), r.replaces)
    BY <1>3, <2>1, PartialOver, Overlay
  <2>3. t \notin DOMAIN r.replaces
    BY <1>1 DEF Linked
  <2> HIDE DEF Replaces
  <2> QED BY <1>5, <2>1, <2>2, <2>3 DEF Overlaid
<1> HIDE DEF Replaces
<1>12. /\ Others \in Partial(Partial(TxSets)) /\ DOMAIN Others = (DOMAIN r.rbfTrees \ heads) \cup {t}
       /\ Others[t] = tree
       /\ \A i \in DOMAIN r.rbfTrees \ heads : Others[i] = r.rbfTrees[i]
  <2>1. /\ Trees!Each({t}, tree) \in Partial(Partial(TxSets)) /\ DOMAIN Trees!Each({t}, tree) = {t}
        /\ Trees!Each({t}, tree)[t] = tree
    BY <1>9, <1>e, PartialOne
  <2>2. /\ Trees!Without(r.rbfTrees, ids) \in Partial(Partial(TxSets))
        /\ DOMAIN Trees!Without(r.rbfTrees, ids) = DOMAIN r.rbfTrees \ ids
        /\ \A i \in DOMAIN r.rbfTrees \ ids : Trees!Without(r.rbfTrees, ids)[i] = r.rbfTrees[i]
    <3>1. Kept(Trees!Without(r.rbfTrees, ids), Partial(TxSets), r.rbfTrees, ids)
      BY <1>3, PartialWithout
    <3> QED BY <3>1 DEF Kept
  <2>3. DOMAIN r.rbfTrees \ ids = DOMAIN r.rbfTrees \ heads /\ t \notin DOMAIN r.rbfTrees
    BY <1>1, <1>5 DEF Rooted
  <2>4. Others \in Partial(Partial(TxSets)) /\ Overlaid(Others, Trees!Each({t}, tree), Trees!Without(r.rbfTrees, ids))
    BY <2>1, <2>2, PartialOver, Overlay
  <2> HIDE DEF Others
  <2> QED BY <2>1, <2>2, <2>3, <2>4 DEF Overlaid
<1> HIDE DEF Others
<1>13. /\ Map \in Partial(X) /\ DOMAIN Map = r.txs \cup {t} \cup heads
       /\ \A u \in DOMAIN Map : Map[u] = IF u \in Moved(r, heads) \cup {t} THEN t ELSE r.treeMap[u]
  <2>1. /\ DOMAIN tree \in SUBSET X /\ Trees!Each(DOMAIN tree, t) \in Partial(X)
        /\ DOMAIN Trees!Each(DOMAIN tree, t) = DOMAIN tree
        /\ \A u \in DOMAIN tree : Trees!Each(DOMAIN tree, t)[u] = t
    <3>1. DOMAIN tree \in SUBSET X
      BY <1>1, <1>3, <1>8, <1>9
    <3> QED BY <3>1, PartialEach
  <2>2. Map \in Partial(X) /\ Overlaid(Map, Trees!Each(DOMAIN tree, t), r.treeMap)
    BY <1>3, <2>1, PartialOver, Overlay
  <2>3. heads \subseteq Moved(r, heads)
    BY DEF Moved
  <2> HIDE DEF Map
  <2> QED BY <1>1, <1>8, <1>9, <2>1, <2>2, <2>3 DEF Overlaid
<1> HIDE DEF Map
<1>14. /\ q.txs = r.txs \cup {t} \cup heads /\ q.expiring = r.expiring /\ q.replacedBy = Replaced
       /\ q.replaces = Replaces /\ q.rbfTrees = Others /\ q.treeMap = Map /\ q \in Records
  <2>1. /\ q.txs = r.txs \cup {t} \cup news /\ q.expiring = r.expiring /\ q.replacedBy = Replaced
        /\ q.replaces = Replaces /\ q.rbfTrees = Others /\ q.treeMap = Map
    BY <1>1, <1>2 DEF Records
  <2>2. r.txs \cup {t} \cup news = r.txs \cup {t} \cup heads
    BY <1>5
  <2>3. r.txs \cup {t} \cup news \in SUBSET X
    BY <1>1, <1>3, <1>5
  <2>4. q \in Records
    <3> HIDE DEF q
    <3>1. q = [txs |-> r.txs \cup {t} \cup news, replacedBy |-> Replaced, replaces |-> Replaces,
               rbfTrees |-> Others, treeMap |-> Map, expiring |-> r.expiring]
      BY <1>1, <1>2 DEF Records
    <3> QED BY <1>3, <1>10, <1>11, <1>12, <1>13, <2>3, <3>1 DEF Records
  <2> QED BY <2>1, <2>2, <2>4
<1> HIDE DEF q
<1>15. Added(r, q, t, heads)
  BY <1>9, <1>10, <1>11, <1>12, <1>13, <1>14 DEF Added
<1> QED BY <1>15 DEF q

LEMMA AddedTrees ==
  ASSUME NEW r \in Forests, NEW q, NEW t \in Trees!Txs \ r.txs, NEW heads, Added(r, q, t, heads),
         t \notin heads, \A u \in heads : u \notin DOMAIN r.replacedBy
  PROVE  q \in Forests
<1> DEFINE M == Moved(r, heads)
<1>1. /\ r \in Records /\ Named(r) /\ Rooted(r) /\ Linked(r) /\ Newest(r) /\ Acyclic(r)
      /\ DOMAIN r.treeMap = r.txs /\ r.expiring \subseteq r.txs
  BY DEF Forests, Consistent
<1>2. /\ q \in Records /\ q.txs = r.txs \cup {t} \cup heads /\ q.expiring = r.expiring
      /\ DOMAIN q.replacedBy = DOMAIN r.replacedBy \cup heads
      /\ \A u \in heads : q.replacedBy[u] = t
      /\ \A u \in DOMAIN r.replacedBy : q.replacedBy[u] = r.replacedBy[u]
      /\ DOMAIN q.replaces = DOMAIN r.replaces \cup {t} /\ q.replaces[t] = heads
      /\ \A u \in DOMAIN r.replaces : q.replaces[u] = r.replaces[u]
  BY DEF Added
<1>3. /\ DOMAIN q.treeMap = q.txs
      /\ \A u \in q.txs : q.treeMap[u] = IF u \in M \cup {t} THEN t ELSE r.treeMap[u]
      /\ DOMAIN q.rbfTrees = (DOMAIN r.rbfTrees \ heads) \cup {t}
      /\ \A i \in DOMAIN r.rbfTrees \ heads : q.rbfTrees[i] = r.rbfTrees[i]
      /\ DOMAIN q.rbfTrees[t] = {t} \cup M
      /\ q.rbfTrees[t][t] = heads /\ \A u \in M : q.rbfTrees[t][u] = Direct(r, u)
  BY DEF Added
<1>4. /\ heads \subseteq M /\ M \subseteq r.txs \cup heads /\ t \notin M
      /\ \A u \in r.txs : u \in M <=> r.treeMap[u] \in heads
      /\ \A u \in heads \cap r.txs : r.treeMap[u] = u
  <2>1. \A u \in heads \cap r.txs : r.treeMap[u] = u
    BY <1>1 DEF Newest
  <2> QED BY <2>1 DEF Moved
<1> HIDE DEF M
<1>5. \A u \in r.txs : r.treeMap[u] \in DOMAIN r.rbfTrees /\ r.treeMap[u] \in r.txs /\ r.treeMap[u] # t
  BY <1>1 DEF Named, Rooted
<1>6. \A u \in r.txs \ M : q.treeMap[u] = r.treeMap[u] /\ u \in q.txs
  BY <1>2, <1>3
<1>7. \A u \in M \cup {t} : q.treeMap[u] = t /\ u \in q.txs
  BY <1>2, <1>3, <1>4
<1>8. \A u \in q.txs : u \in M \/ u = t \/ u \in r.txs \ M
  BY <1>2, <1>4
<1>9. \A u \in r.txs \cup heads : Direct(q, u) = Direct(r, u)
  BY <1>2 DEF Direct
<1>10. Named(q)
  <2>1. \A u \in r.txs \ M : r.treeMap[u] \notin heads
    BY <1>4
  <2> QED BY <1>3, <1>5, <1>6, <1>7, <1>8, <2>1 DEF Named
<1>11. Rooted(q)
  <2> SUFFICES ASSUME NEW i \in DOMAIN q.rbfTrees
               PROVE  /\ i \in q.txs /\ q.treeMap[i] = i
                      /\ DOMAIN q.rbfTrees[i] = InTree(q, i)
                      /\ \A u \in InTree(q, i) : q.rbfTrees[i][u] = Direct(q, u)
    BY DEF Rooted
  <2>1. CASE i = t
    <3>1. t \in q.txs /\ q.treeMap[t] = t
      BY <1>7
    <3>2. \A u \in q.txs : q.treeMap[u] = t <=> u \in M \cup {t}
      BY <1>5, <1>6, <1>7, <1>8
    <3>3. InTree(q, t) = M \cup {t}
      BY <1>7, <3>2 DEF InTree
    <3>4. \A u \in M : q.rbfTrees[t][u] = Direct(q, u)
      BY <1>3, <1>4, <1>9
    <3>5. Direct(q, t) = heads
      BY <1>2 DEF Direct
    <3> QED BY <1>3, <2>1, <3>1, <3>3, <3>4, <3>5
  <2>2. CASE i \in DOMAIN r.rbfTrees \ heads
    <3>1. /\ i \in r.txs /\ r.treeMap[i] = i /\ DOMAIN r.rbfTrees[i] = InTree(r, i)
          /\ \A u \in InTree(r, i) : r.rbfTrees[i][u] = Direct(r, u)
      BY <1>1, <2>2 DEF Rooted
    <3>2. i \notin M /\ i # t
      BY <1>4, <2>2, <3>1
    <3>3. \A u \in r.txs : r.treeMap[u] = i => u \notin M
      BY <1>4, <2>2
    <3>4. \A u : u \in InTree(q, i) <=> u \in InTree(r, i)
      <4>1. \A u : u \in InTree(q, i) => u \in InTree(r, i)
        BY <1>6, <1>7, <1>8, <3>2 DEF InTree
      <4>2. \A u : u \in InTree(r, i) => u \in InTree(q, i)
        BY <1>6, <3>3 DEF InTree
      <4> QED BY <4>1, <4>2
    <3>5. InTree(q, i) = InTree(r, i)
      BY <3>4
    <3>6. \A u \in InTree(r, i) : Direct(q, u) = Direct(r, u)
      BY <1>9 DEF InTree
    <3> QED BY <1>3, <1>6, <2>2, <3>1, <3>2, <3>5, <3>6
  <2> QED BY <1>3, <2>1, <2>2
<1>12. Linked(q)
  <2>1. ASSUME NEW u \in DOMAIN q.replacedBy
        PROVE  /\ u \in q.txs /\ q.replacedBy[u] \in DOMAIN q.replaces
               /\ u \in q.replaces[q.replacedBy[u]]
               /\ q.treeMap[q.replacedBy[u]] = q.treeMap[u]
    <3>1. CASE u \in heads
      BY <1>2, <1>4, <1>7, <3>1
    <3>2. CASE u \in DOMAIN r.replacedBy
      <4> DEFINE p == r.replacedBy[u]
      <4>1. /\ u \in r.txs /\ p \in DOMAIN r.replaces /\ p \in r.txs /\ u \in r.replaces[p]
            /\ r.treeMap[p] = r.treeMap[u] /\ q.replacedBy[u] = p
        BY <1>1, <1>2, <3>2 DEF Linked
      <4> HIDE DEF p
      <4>2. q.treeMap[p] = q.treeMap[u]
        BY <1>4, <1>6, <1>7, <4>1
      <4> QED BY <1>2, <4>1, <4>2
    <3> QED BY <1>2, <3>1, <3>2
  <2>2. ASSUME NEW p \in DOMAIN q.replaces
        PROVE  p \in q.txs /\ \A u \in q.replaces[p] : u \in DOMAIN q.replacedBy /\ q.replacedBy[u] = p
    <3>1. CASE p = t
      BY <1>2, <3>1
    <3>2. CASE p \in DOMAIN r.replaces
      BY <1>1, <1>2, <3>2 DEF Linked
    <3> QED BY <1>2, <3>1, <3>2
  <2> QED BY <2>1, <2>2 DEF Linked
<1>13. Newest(q)
  <2>1. t \notin DOMAIN q.replacedBy
    BY <1>1, <1>2 DEF Linked
  <2>2. ASSUME NEW u \in M PROVE u \in DOMAIN q.replacedBy
    <3>1. CASE u \in heads
      BY <1>2, <3>1
    <3>2. CASE u \notin heads
      <4>1. u \in r.txs /\ r.treeMap[u] # u
        BY <1>4, <3>2
      <4> QED BY <1>1, <1>2, <4>1 DEF Newest
    <3> QED BY <3>1, <3>2
  <2>3. \A u \in r.txs \ M : u \notin DOMAIN q.replacedBy <=> q.treeMap[u] = u
    BY <1>1, <1>2, <1>4, <1>6 DEF Newest
  <2> QED BY <1>4, <1>7, <1>8, <2>1, <2>2, <2>3 DEF Newest
<1>14. Acyclic(q)
  <2> SUFFICES ASSUME NEW Z \in SUBSET DOMAIN q.replacedBy, Z # {} PROVE \E u \in Z : q.replacedBy[u] \notin Z
    BY DEF Acyclic
  <2>1. t \notin Z
    BY <1>1, <1>2 DEF Linked
  <2>2. CASE Z \cap heads # {}
    <3>1. PICK u \in Z : u \in heads
      BY <2>2
    <3> QED BY <1>2, <2>1, <3>1
  <2>3. CASE Z \cap heads = {}
    <3>1. Z \in SUBSET DOMAIN r.replacedBy
      BY <1>2, <2>3
    <3>2. PICK u \in Z : r.replacedBy[u] \notin Z
      BY <1>1, <3>1 DEF Acyclic
    <3> QED BY <1>2, <3>1, <3>2
  <2> QED BY <2>2, <2>3
<1>15. q.expiring \subseteq q.txs
  BY <1>1, <1>2
<1> QED BY <1>2, <1>3, <1>10, <1>11, <1>12, <1>13, <1>14, <1>15 DEF Forests, Consistent

(* What a sequence of calls of add leaves as it is. *)
Grown(r, S) == {q \in Forests : /\ DOMAIN q.rbfTrees \subseteq DOMAIN r.rbfTrees \cup S
                               /\ r.txs \subseteq q.txs /\ q.expiring = r.expiring}
LEMMA AddKeeps ==
  ASSUME NEW r \in Forests, NEW t \in Trees!Txs, NEW replaced \in SUBSET Trees!Txs, t \notin replaced
  PROVE  Trees!Add(r, replaced, t) \in Grown(r, {t})
<1>1. CASE t \in r.txs \/ Heads(r, replaced) = {}
  <2>1. Trees!Add(r, replaced, t) = r
    BY <1>1 DEF Trees!Add, Heads
  <2> QED BY <2>1 DEF Grown
<1>2. CASE t \notin r.txs /\ Heads(r, replaced) # {}
  <2> DEFINE q == Trees!Add(r, replaced, t)
             heads == Heads(r, replaced)
  <2>1. t \in Trees!Txs \ r.txs
    BY <1>2
  <2>2. Added(r, q, t, heads)
    BY <1>2, <2>1, AddChanges
  <2>3. t \notin heads /\ \A u \in heads : u \notin DOMAIN r.replacedBy
    BY DEF Heads
  <2> HIDE DEF q, heads
  <2>4. q \in Forests
    BY <2>1, <2>2, <2>3, AddedTrees
  <2>5. /\ DOMAIN q.rbfTrees \subseteq DOMAIN r.rbfTrees \cup {t}
        /\ r.txs \subseteq q.txs /\ q.expiring = r.expiring
    BY <2>2 DEF Added
  <2>6. q \in Grown(r, {t})
    BY <2>4, <2>5 DEF Grown
  <2> QED BY <2>6 DEF q
<1> QED BY <1>1, <1>2

LEMMA EvictKeeps ==
  ASSUME NEW r \in Forests, NEW S
  PROVE  LET q == Trees!Evict(r, S)
         IN /\ q \in Forests /\ q.rbfTrees = r.rbfTrees /\ q.txs = r.txs
            /\ q.expiring = r.expiring \cup (S \cap r.txs)
<1> DEFINE q == Trees!Evict(r, S)
<1>1. r \in Records /\ Consistent(r)
  BY DEF Forests
<1>2. /\ q.txs = r.txs /\ q.replacedBy = r.replacedBy /\ q.replaces = r.replaces
      /\ q.rbfTrees = r.rbfTrees /\ q.treeMap = r.treeMap
      /\ q.expiring = r.expiring \cup (S \cap r.txs)
  BY <1>1 DEF Trees!Evict, Records
<1>3. q \in Records
  <2>1. r.expiring \cup (S \cap r.txs) \in SUBSET Trees!Txs
    BY <1>1, Fields
  <2> QED BY <1>1, <2>1 DEF Trees!Evict, Records
<1> HIDE DEF q
<1>4. Consistent(q)
  BY <1>1, <1>2 DEF Consistent, Named, Rooted, Linked, Newest, Acyclic, InTree, Direct
<1> QED BY <1>2, <1>3, <1>4 DEF Forests, q

LEMMA CleanUpKeeps ==
  ASSUME NEW r \in Forests, NEW S \in SUBSET r.txs
  PROVE  LET q == Trees!CleanUp(r, S)
         IN /\ q \in Forests /\ DOMAIN q.rbfTrees \subseteq DOMAIN r.rbfTrees
            /\ DOMAIN q.rbfTrees \cap r.expiring \subseteq q.expiring
<1> DEFINE q == Trees!CleanUp(r, S)
           A == Trees!Removable(r, S)
           out == Trees!Versions(r, A)
           lost == UNION {r.replaces[t] : t \in out \cap DOMAIN r.replaces}
           dead == {t \in out \cap DOMAIN r.treeMap : r.treeMap[t] = t}
<1>1. /\ r \in Records /\ Named(r) /\ Rooted(r) /\ Linked(r) /\ Newest(r) /\ Acyclic(r)
      /\ DOMAIN r.treeMap = r.txs /\ r.expiring \subseteq r.txs
  BY DEF Forests, Consistent
<1>2. A \in SUBSET (r.txs \ DOMAIN r.replacedBy) /\ A = S \ DOMAIN r.replacedBy
  BY DEF Trees!Removable
<1>3. out = {t \in r.txs : r.treeMap[t] \in A}
  BY <1>2, WholeTrees
<1>4. /\ q.txs = r.txs \ out /\ q.expiring = r.expiring \ (S \cup out)
      /\ q.replacedBy = Trees!Without(r.replacedBy, lost)
      /\ q.replaces = Trees!Without(r.replaces, out)
      /\ q.rbfTrees = Trees!Without(r.rbfTrees, dead)
      /\ q.treeMap = Trees!Without(r.treeMap, out)
      /\ q = [txs |-> r.txs \ out, replacedBy |-> Trees!Without(r.replacedBy, lost),
              replaces |-> Trees!Without(r.replaces, out), rbfTrees |-> Trees!Without(r.rbfTrees, dead),
              treeMap |-> Trees!Without(r.treeMap, out), expiring |-> r.expiring \ (S \cup out)]
  BY DEF Trees!CleanUp
<1> HIDE DEF q, A
<1>5. \A u \in DOMAIN r.replacedBy : u \in lost <=> u \in out
  <2>1. \A u \in DOMAIN r.replacedBy : u \in lost <=> r.replacedBy[u] \in out
    BY <1>1 DEF Linked
  <2> QED BY <1>1, <1>3, <2>1 DEF Linked
<1>6. \A u \in r.txs : r.treeMap[u] \in r.txs /\ r.treeMap[r.treeMap[u]] = r.treeMap[u] /\ r.treeMap[u] \in DOMAIN r.rbfTrees
  BY <1>1 DEF Named, Rooted
<1>7. dead = A
  BY <1>1, <1>2, <1>3 DEF Newest
<1> HIDE DEF lost, dead, out
<1>e. /\ r.replacedBy \in Partial(Trees!Txs) /\ r.replaces \in Partial(TxSets)
      /\ r.rbfTrees \in Partial(Partial(TxSets)) /\ r.treeMap \in Partial(Trees!Txs)
  BY <1>1 DEF Records
<1>w. /\ q.replacedBy = Trees!Without(r.replacedBy, lost)
      /\ q.replaces = Trees!Without(r.replaces, out)
      /\ q.rbfTrees = Trees!Without(r.rbfTrees, dead)
      /\ q.treeMap = Trees!Without(r.treeMap, out)
  BY <1>4
<1>8. /\ Kept(q.replacedBy, Trees!Txs, r.replacedBy, lost)
      /\ Kept(q.replaces, TxSets, r.replaces, out)
      /\ Kept(q.rbfTrees, Partial(TxSets), r.rbfTrees, dead)
      /\ Kept(q.treeMap, Trees!Txs, r.treeMap, out)
  BY <1>e, <1>w, PartialWithout
<1>9. /\ q.replacedBy \in Partial(Trees!Txs) /\ DOMAIN q.replacedBy = DOMAIN r.replacedBy \ lost
      /\ \A u \in DOMAIN q.replacedBy : q.replacedBy[u] = r.replacedBy[u]
      /\ q.replaces \in Partial(TxSets) /\ DOMAIN q.replaces = DOMAIN r.replaces \ out
      /\ \A u \in DOMAIN q.replaces : q.replaces[u] = r.replaces[u]
  BY <1>8 DEF Kept
<1>10. /\ q.rbfTrees \in Partial(Partial(TxSets)) /\ DOMAIN q.rbfTrees = DOMAIN r.rbfTrees \ dead
       /\ \A u \in DOMAIN q.rbfTrees : q.rbfTrees[u] = r.rbfTrees[u]
  BY <1>8 DEF Kept
<1>11. /\ q.treeMap \in Partial(Trees!Txs) /\ DOMAIN q.treeMap = r.txs \ out
       /\ \A u \in r.txs \ out : q.treeMap[u] = r.treeMap[u]
  BY <1>1, <1>8 DEF Kept
<1>12. q \in Records
  <2>1. r.txs \ out \in SUBSET Trees!Txs /\ r.expiring \ (S \cup out) \in SUBSET Trees!Txs
    BY <1>1, Fields
  <2> QED BY <1>4, <1>9, <1>10, <1>11, <2>1 DEF Records
<1>13. Named(q)
  BY <1>3, <1>4, <1>6, <1>7, <1>10, <1>11 DEF Named
<1>14. Rooted(q)
  <2> SUFFICES ASSUME NEW i \in DOMAIN r.rbfTrees, i \notin A
               PROVE  /\ i \in q.txs /\ q.treeMap[i] = i
                      /\ DOMAIN r.rbfTrees[i] = InTree(q, i)
                      /\ \A u \in InTree(q, i) : r.rbfTrees[i][u] = Direct(q, u)
    BY <1>7, <1>10 DEF Rooted
  <2>1. /\ i \in r.txs /\ r.treeMap[i] = i /\ DOMAIN r.rbfTrees[i] = InTree(r, i)
        /\ \A u \in InTree(r, i) : r.rbfTrees[i][u] = Direct(r, u)
    BY <1>1 DEF Rooted
  <2>2. \A u \in r.txs : r.treeMap[u] = i => u \notin out
    BY <1>3
  <2>3. InTree(q, i) = InTree(r, i)
    BY <1>4, <1>11, <2>2 DEF InTree
  <2>4. \A u \in InTree(r, i) : Direct(q, u) = Direct(r, u)
    BY <1>9, <2>2 DEF Direct, InTree
  <2> QED BY <1>4, <1>11, <2>1, <2>2, <2>3, <2>4
<1>15. Linked(q)
  <2>1. ASSUME NEW u \in DOMAIN q.replacedBy
        PROVE  /\ u \in q.txs /\ q.replacedBy[u] \in DOMAIN q.replaces
               /\ u \in q.replaces[q.replacedBy[u]]
               /\ q.treeMap[q.replacedBy[u]] = q.treeMap[u]
    <3>1. u \in DOMAIN r.replacedBy /\ u \notin out /\ q.replacedBy[u] = r.replacedBy[u]
      BY <1>5, <1>9
    <3> DEFINE p == r.replacedBy[u]
    <3>2. /\ u \in r.txs /\ p \in DOMAIN r.replaces /\ p \in r.txs /\ u \in r.replaces[p]
          /\ r.treeMap[p] = r.treeMap[u]
      BY <1>1, <3>1 DEF Linked
    <3> HIDE DEF p
    <3>3. p \notin out
      BY <1>3, <3>1, <3>2
    <3> QED BY <1>4, <1>9, <1>11, <3>1, <3>2, <3>3 DEF p
  <2>2. ASSUME NEW p \in DOMAIN q.replaces
        PROVE  p \in q.txs /\ \A u \in q.replaces[p] : u \in DOMAIN q.replacedBy /\ q.replacedBy[u] = p
    <3>1. p \in DOMAIN r.replaces /\ p \in r.txs /\ p \notin out /\ q.replaces[p] = r.replaces[p]
      BY <1>1, <1>9 DEF Linked
    <3>2. ASSUME NEW u \in r.replaces[p] PROVE u \in DOMAIN r.replacedBy /\ r.replacedBy[u] = p /\ u \notin out
      BY <1>1, <1>3, <3>1 DEF Linked
    <3> QED BY <1>4, <1>5, <1>9, <3>1, <3>2
  <2> QED BY <2>1, <2>2 DEF Linked
<1>16. Newest(q)
  BY <1>1, <1>4, <1>5, <1>9, <1>11 DEF Newest
<1>17. Acyclic(q)
  <2> SUFFICES ASSUME NEW Z \in SUBSET DOMAIN q.replacedBy, Z # {} PROVE \E u \in Z : q.replacedBy[u] \notin Z
    BY DEF Acyclic
  <2>1. Z \in SUBSET DOMAIN r.replacedBy
    BY <1>9
  <2>2. PICK u \in Z : r.replacedBy[u] \notin Z
    BY <1>1, <2>1 DEF Acyclic
  <2> QED BY <1>9, <2>2
<1>18. q.expiring \subseteq q.txs
  BY <1>1, <1>4
<1>19. q \in Forests
  BY <1>4, <1>11, <1>12, <1>13, <1>14, <1>15, <1>16, <1>17, <1>18 DEF Forests, Consistent
<1>20. ASSUME NEW i \in DOMAIN q.rbfTrees, i \in r.expiring PROVE i \in q.expiring
  <2>1. i \in r.txs /\ r.treeMap[i] = i /\ i \notin A
    BY <1>1, <1>7, <1>10 DEF Rooted
  <2>2. i \notin out /\ i \notin S
    BY <1>1, <1>2, <1>3, <2>1 DEF Newest
  <2> QED BY <1>4, <1>20, <2>2
<1> QED BY <1>10, <1>19, <1>20 DEF q

LEMMA ImportKeeps ==
  ASSUME NEW r \in Forests
  PROVE  LET q == Trees!Import(Trees!Dump(r))
         IN q \in Forests /\ q.txs = r.txs /\ DOMAIN q.rbfTrees = DOMAIN r.rbfTrees /\ q.expiring = r.expiring
<1> DEFINE X == Trees!Txs
           d == Trees!Dump(r)
           q == Trees!Import(d)
           known == {i \in DOMAIN d.trees : i \in d.txs}
           held == {d.trees[i] : i \in known}
           all == Trees!Join(held)
           Replaced == [u \in UNION {all[t] : t \in DOMAIN all} |-> CHOOSE t \in DOMAIN all : u \in all[t]]
           Map == [u \in DOMAIN all |-> CHOOSE i \in known : u \in DOMAIN d.trees[i]]
           Same == [i \in known |-> d.trees[i]]
           g == [t \in X |-> Direct(r, t)]
<1>1. /\ r \in Records /\ Named(r) /\ Rooted(r) /\ Linked(r) /\ Newest(r) /\ Acyclic(r)
      /\ DOMAIN r.treeMap = r.txs /\ r.expiring \subseteq r.txs
  BY DEF Forests, Consistent
<1>2. d.txs = r.txs /\ d.trees = r.rbfTrees /\ d.expiring = r.expiring
  BY DEF Trees!Dump
<1> HIDE DEF d
<1>3. known = DOMAIN r.rbfTrees /\ held = {r.rbfTrees[i] : i \in DOMAIN r.rbfTrees}
  BY <1>1, <1>2 DEF Rooted
<1>4. q = [txs |-> d.txs, replacedBy |-> Replaced, replaces |-> all, rbfTrees |-> Same, treeMap |-> Map,
           expiring |-> d.expiring \cap d.txs]
  BY Zenon DEF Trees!Import
<1>5. \A i \in DOMAIN r.rbfTrees : /\ r.rbfTrees[i] \in Partial(TxSets) /\ DOMAIN r.rbfTrees[i] = InTree(r, i)
                                   /\ \A t \in InTree(r, i) : r.rbfTrees[i][t] = Direct(r, t)
  BY <1>1, Fields DEF Rooted
<1>6. r.txs \subseteq X
  BY <1>1, Fields
<1>7. \A t \in r.txs : r.treeMap[t] \in DOMAIN r.rbfTrees
  BY <1>1 DEF Named
<1> HIDE DEF q, known, held
<1>8. all \in Partial(TxSets) /\ DOMAIN all = r.txs /\ \A t \in r.txs : all[t] = Direct(r, t)
  <2>1. \A tree \in held : tree \in Partial(TxSets)
    BY <1>3, <1>5
  <2>2. \A tree \in held : \A x \in DOMAIN tree : tree[x] = g[x]
    <3> TAKE tree \in held
    <3>1. PICK i \in DOMAIN r.rbfTrees : tree = r.rbfTrees[i]
      BY <1>3
    <3> QED BY <1>5, <1>6, <3>1 DEF InTree
  <2>3. Covered(held) = r.txs
    <3>1. \A t \in r.txs : t \in InTree(r, r.treeMap[t])
      BY DEF InTree
    <3>2. \A i \in DOMAIN r.rbfTrees : InTree(r, i) \subseteq r.txs
      BY DEF InTree
    <3> QED BY <1>3, <1>5, <1>7, <3>1, <3>2 DEF Covered
  <2> HIDE DEF g
  <2>4. all \in Partial(TxSets) /\ DOMAIN all = Covered(held) /\ \A t \in DOMAIN all : all[t] = g[t]
    BY <2>1, <2>2, Joining
  <2> QED BY <1>6, <2>3, <2>4 DEF g
<1> HIDE DEF all
<1>9. DOMAIN Replaced = DOMAIN r.replacedBy /\ \A u \in DOMAIN r.replacedBy : Replaced[u] = r.replacedBy[u]
  <2>1. \A t \in r.txs : \A u \in Direct(r, t) : u \in DOMAIN r.replacedBy
    BY <1>1 DEF Direct, Linked
  <2>2. \A u \in DOMAIN r.replacedBy : r.replacedBy[u] \in r.txs /\ u \in Direct(r, r.replacedBy[u])
    BY <1>1 DEF Direct, Linked
  <2>3. UNION {all[t] : t \in DOMAIN all} = DOMAIN r.replacedBy
    BY <1>8, <2>1, <2>2
  <2>4. ASSUME NEW u \in DOMAIN r.replacedBy
        PROVE  (CHOOSE t \in DOMAIN all : u \in all[t]) = r.replacedBy[u]
    <3>1. r.replacedBy[u] \in DOMAIN all /\ u \in all[r.replacedBy[u]]
      BY <1>1, <1>8 DEF Direct, Linked
    <3>2. \A t \in DOMAIN all : u \in all[t] => t = r.replacedBy[u]
      BY <1>1, <1>8 DEF Direct, Linked
    <3> QED BY <3>1, <3>2
  <2> QED BY <2>3, <2>4
<1>10. DOMAIN Map = r.txs /\ \A u \in r.txs : Map[u] = r.treeMap[u]
  <2>1. ASSUME NEW u \in r.txs PROVE (CHOOSE i \in known : u \in DOMAIN d.trees[i]) = r.treeMap[u]
    <3>1. \A i \in known : u \in DOMAIN d.trees[i] <=> r.treeMap[u] = i
      BY <1>2, <1>3, <1>5 DEF InTree
    <3>2. r.treeMap[u] \in known
      BY <1>3, <1>7
    <3> QED BY <3>1, <3>2
  <2> QED BY <1>8, <2>1
<1>11. DOMAIN Same = DOMAIN r.rbfTrees /\ \A i \in DOMAIN r.rbfTrees : Same[i] = r.rbfTrees[i]
  BY <1>2, <1>3
<1> HIDE DEF Replaced, Map, Same
<1>12. /\ q.txs = r.txs /\ q.expiring = r.expiring /\ q.replaces = all
       /\ q.replacedBy = Replaced /\ q.rbfTrees = Same /\ q.treeMap = Map
  <2>1. r.expiring \cap r.txs = r.expiring
    BY <1>1
  <2> QED BY <1>2, <1>4, <2>1
<1>13. q \in Records
  <2>1. /\ r.txs \in SUBSET X /\ r.expiring \cap r.txs \in SUBSET X
        /\ r.rbfTrees \in Partial(Partial(TxSets)) /\ r.treeMap \in Partial(X) /\ r.replacedBy \in Partial(X)
    BY <1>1, <1>6 DEF Records
  <2>2. ASSUME NEW V, NEW f \in Partial(V) PROVE f = [x \in DOMAIN f |-> f[x]]
    BY PartialMaps
  <2>3. /\ Replaced = [u \in DOMAIN r.replacedBy |-> r.replacedBy[u]]
        /\ Map = [u \in DOMAIN r.treeMap |-> r.treeMap[u]]
        /\ Same = [i \in DOMAIN r.rbfTrees |-> r.rbfTrees[i]]
    <3>1. /\ Replaced = [u \in DOMAIN Replaced |-> Replaced[u]]
          /\ Map = [u \in DOMAIN Map |-> Map[u]] /\ Same = [i \in DOMAIN Same |-> Same[i]]
      BY DEF Replaced, Map, Same
    <3> QED BY <1>1, <1>9, <1>10, <1>11, <3>1
  <2>4. Replaced = r.replacedBy /\ Map = r.treeMap /\ Same = r.rbfTrees
    BY <2>1, <2>2, <2>3
  <2> QED BY <1>2, <1>4, <1>8, <2>1, <2>4 DEF Records
<1>e. /\ DOMAIN q.replacedBy = DOMAIN r.replacedBy
      /\ \A u \in DOMAIN r.replacedBy : q.replacedBy[u] = r.replacedBy[u]
      /\ DOMAIN q.rbfTrees = DOMAIN r.rbfTrees
      /\ \A i \in DOMAIN r.rbfTrees : q.rbfTrees[i] = r.rbfTrees[i]
      /\ DOMAIN q.treeMap = r.txs /\ \A u \in r.txs : q.treeMap[u] = r.treeMap[u]
  BY <1>9, <1>10, <1>11, <1>12
<1>14. \A t \in r.txs : Direct(q, t) = Direct(r, t)
  BY <1>8, <1>12, <1>e DEF Direct
<1>15. Named(q) /\ Newest(q) /\ Acyclic(q)
  BY <1>1, <1>12, <1>e DEF Named, Newest, Acyclic
<1>16. Rooted(q)
  <2>1. \A i : InTree(q, i) = InTree(r, i) /\ InTree(r, i) \subseteq r.txs
    BY <1>12, <1>e DEF InTree
  <2>2. \A i \in DOMAIN r.rbfTrees : i \in r.txs /\ r.treeMap[i] = i
    BY <1>1 DEF Rooted
  <2> QED BY <1>5, <1>12, <1>e, <1>14, <2>1, <2>2 DEF Rooted
<1>17. Linked(q)
  <2>1. \A u \in DOMAIN r.replacedBy : /\ u \in r.txs /\ r.replacedBy[u] \in r.txs /\ u \in all[r.replacedBy[u]]
                                       /\ r.treeMap[r.replacedBy[u]] = r.treeMap[u]
    BY <1>1, <1>8 DEF Linked, Direct
  <2>2. \A t \in r.txs : \A u \in all[t] : u \in DOMAIN r.replacedBy /\ r.replacedBy[u] = t
    BY <1>1, <1>8 DEF Linked, Direct
  <2> QED BY <1>8, <1>12, <1>e, <2>1, <2>2 DEF Linked
<1>18. DOMAIN q.treeMap = q.txs /\ q.expiring \subseteq q.txs
  BY <1>1, <1>12, <1>e
<1>19. q \in Forests
  BY <1>13, <1>15, <1>16, <1>17, <1>18 DEF Forests, Consistent
<1> QED BY <1>11, <1>12, <1>e, <1>19 DEF q, d

LEMMA MaxIsIn == ASSUME NEW s \in SUBSET Trees!Txs, s # {} PROVE Trees!Max(s) \in s
<1>1. s \in SUBSET Int /\ IsFiniteSet(s)
  BY TxsAreNumbers, FS_Subset
<1>2. PICK n \in s : \A m \in s : m <= n
  BY <1>1, GreatestOfFinite
<1>3. \A m \in s : n >= m
  BY <1>1, <1>2
<1> QED BY <1>3 DEF Trees!Max

LEMMA AddEachKeeps ==
  ASSUME NEW r \in Forests, NEW S \in SUBSET Trees!Txs, NEW replaced,
         \A t \in S : replaced[t] \in SUBSET Trees!Txs /\ t \notin replaced[t]
  PROVE  Trees!AddEach(r, S, replaced) \in Grown(r, S)
<1> DEFINE V == Grown(r, S)
           Goes(h) == h = [s \in SUBSET S |->
                             IF s = {} THEN r
                             ELSE Trees!Add(h[s \ {Trees!Max(s)}], replaced[Trees!Max(s)], Trees!Max(s))]
           iter == CHOOSE h : Goes(h)
           pick == [s \in SUBSET S |-> Trees!Max(s)]
           turn == [x \in S \X V |-> Trees!Add(x[2], replaced[x[1]], x[1])]
           T == {s \in SUBSET S : iter[s] \in V}
<1>1. Trees!AddEach(r, S, replaced) = iter[S]
  BY Zenon DEF Trees!AddEach, Trees!MapThenFoldSet
<1>2. IsFiniteSet(S) /\ \A s \in SUBSET S : s # {} => pick[s] \in s /\ pick[s] = Trees!Max(s)
  BY TxsAreNumbers, FS_Subset, MaxIsIn
<1>3. r \in V
  BY DEF Grown
<1>4. ASSUME NEW t \in S, NEW p \in V PROVE Trees!Add(p, replaced[t], t) \in V
  <2>1. p \in Forests /\ t \in Trees!Txs
    BY DEF Grown
  <2>2. Trees!Add(p, replaced[t], t) \in Grown(p, {t})
    BY <2>1, AddKeeps
  <2> QED BY <2>2 DEF Grown
<1> HIDE DEF V
<1>5. turn \in [S \X V -> V]
  BY <1>4
<1>6. Unfolds(S, V, r, pick, turn)
  <2> HIDE DEF turn, pick
  <2> QED BY <1>2, <1>3, <1>5, SetRecursion
<1>7. PICK f \in [SUBSET S -> V] :
        f[{}] = r /\ \A s \in SUBSET S : s # {} => f[s] = turn[<<pick[s], f[s \ {pick[s]}]>>]
  BY <1>6 DEF Unfolds
<1>8. Goes(f)
  <2>1. f = [s \in SUBSET S |-> f[s]]
    BY <1>7
  <2>2. ASSUME NEW s \in SUBSET S, s # {}
        PROVE  f[s] = Trees!Add(f[s \ {Trees!Max(s)}], replaced[Trees!Max(s)], Trees!Max(s))
    <3>1. pick[s] = Trees!Max(s) /\ Trees!Max(s) \in S /\ f[s \ {pick[s]}] \in V
      BY <1>2, <1>7, <2>2
    <3>2. f[s] = turn[<<pick[s], f[s \ {pick[s]}]>>]
      BY <1>7, <2>2
    <3> HIDE DEF pick
    <3>3. f[s] = turn[<<Trees!Max(s), f[s \ {Trees!Max(s)}]>>] /\ f[s \ {Trees!Max(s)}] \in V
      BY <3>1, <3>2
    <3> QED BY <3>1, <3>3
  <2>3. \A s \in SUBSET S : f[s] = IF s = {} THEN r
                             ELSE Trees!Add(f[s \ {Trees!Max(s)}], replaced[Trees!Max(s)], Trees!Max(s))
    BY <1>7, <2>2
  <2> QED BY <2>1, <2>3
<1>9. Goes(iter)
  BY <1>8
<1>10. \A s \in SUBSET S : iter[s] = IF s = {} THEN r
                              ELSE Trees!Add(iter[s \ {Trees!Max(s)}], replaced[Trees!Max(s)], Trees!Max(s))
  BY <1>9
<1> HIDE DEF iter
<1>11. {} \in T
  BY <1>3, <1>10
<1>12. \A s \in SUBSET S : s # {} /\ s \ {pick[s]} \in T => s \in T
  <2> TAKE s \in SUBSET S
  <2> HAVE s # {} /\ s \ {pick[s]} \in T
  <2>1. pick[s] = Trees!Max(s) /\ Trees!Max(s) \in S
    BY <1>2
  <2>2. iter[s \ {Trees!Max(s)}] \in V
    BY <2>1
  <2>3. Trees!Add(iter[s \ {Trees!Max(s)}], replaced[Trees!Max(s)], Trees!Max(s)) \in V
    BY <1>4, <2>1, <2>2
  <2> QED BY <1>10, <2>3
<1>13. \A s \in SUBSET S : s \in T
  <2> HIDE DEF T, pick
  <2> QED BY <1>2, <1>11, <1>12, SetInduction, SMTT(30)
<1> QED BY <1>1, <1>13 DEF V

(* The cache and its copy on disk are forests, and no root is forgotten. *)
Saved(d) == \E r \in Forests : d = Trees!Dump(r)
TreesInv ==
  /\ rbf \in Forests /\ Saved(disk.rbf)
  /\ mempool \in TxSets /\ spends \in TxSets /\ gone \in Seq(TxSets)
  /\ Trees!NoTreeLingers
RootsHeld(r, held) == DOMAIN r.rbfTrees \subseteq held

LEMMA NoTreesIsAForest == Trees!NoTrees \in Forests
<1> DEFINE r == Trees!NoTrees
<1>1. /\ r.txs = {} /\ r.expiring = {} /\ DOMAIN r.replacedBy = {} /\ DOMAIN r.replaces = {}
      /\ DOMAIN r.rbfTrees = {} /\ DOMAIN r.treeMap = {}
  BY DEF Trees!NoTrees
<1>2. ASSUME NEW V PROVE <<>> \in Partial(V)
  <2>1. <<>> = [x \in {} |-> x] /\ [x \in {} |-> x] \in [{} -> V]
    OBVIOUS
  <2> QED BY <2>1, PartialMaps
<1>3. r \in Records
  BY <1>2 DEF Trees!NoTrees, Records
<1> HIDE DEF r
<1>4. Consistent(r)
  BY <1>1 DEF Consistent, Named, Rooted, Linked, Newest, Acyclic
<1>5. r \in Forests
  BY <1>3, <1>4 DEF Forests
<1> QED BY <1>5 DEF r

LEMMA TreesStart == Trees!Init => TreesInv
<1> SUFFICES ASSUME Trees!Init PROVE TreesInv
  OBVIOUS
<1>1. rbf \in Forests /\ Saved(disk.rbf)
  BY NoTreesIsAForest DEF Trees!Init, Trees!NoDisk, Saved
<1>2. mempool \in TxSets /\ spends \in TxSets /\ gone \in Seq(TxSets)
  BY DEF Trees!Init, Trees!Mempools, TxSets
<1>3. Trees!NoTreeLingers
  BY DEF Trees!Init, Trees!NoTrees, Trees!NoTreeLingers
<1> QED BY <1>1, <1>2, <1>3 DEF TreesInv

(* A root is a transaction of its cache. *)
LEMMA RootsAreTxs == ASSUME NEW r \in Forests PROVE DOMAIN r.rbfTrees \subseteq r.txs /\ r.txs \subseteq Trees!Txs
  BY Fields DEF Forests, Consistent, Rooted

LEMMA LastUpdates ==
  ASSUME NEW s \in Seq(TxSets), NEW d \in TxSets
  PROVE  LET n == IF Len(s) < Window THEN Len(s) + 1 ELSE Window
         IN SubSeq(<<d>> \o s, 1, n) \in Seq(TxSets)
<1> DEFINE all == <<d>> \o s
           n == IF Len(s) < Window THEN Len(s) + 1 ELSE Window
<1>1. all \in Seq(TxSets) /\ Len(all) = Len(s) + 1 /\ Len(s) \in Nat
  OBVIOUS
<1>2. n \in 0..Len(all)
  BY <1>1, ServicesAssumption DEF ServicesAssumption
<1> HIDE DEF all, n
<1>3. SubSeq(all, 1, n) \in Seq(TxSets)
  BY <1>1, <1>2, SubSeqProperties
<1> QED BY <1>3 DEF all, n

LEMMA UpdateKeeps ==
  ASSUME TreesInv, NEW added \in SUBSET Trees!Txs, NEW deleted \in SUBSET Trees!Txs, Trees!Update(added, deleted)
  PROVE  TreesInv'
<1> DEFINE D == UNION Trees!ToSet(gone')
           replaced == [t \in added |-> {u \in D : u < t /\ Trees!Conflict(t, u)}]
           r == Trees!AddEach(rbf, added, replaced)
<1>1. /\ rbf \in Forests /\ Saved(disk.rbf)
      /\ mempool \in TxSets /\ spends \in TxSets /\ gone \in Seq(TxSets)
      /\ RootsHeld(rbf, mempool \cup rbf.expiring \cup adrift)
  BY DEF TreesInv, Trees!NoTreeLingers, RootsHeld
<1>2. gone' \in Seq(TxSets)
  <2>1. deleted \in TxSets
    BY DEF TxSets
  <2> QED BY <1>1, <2>1, LastUpdates DEF Trees!Update
<1>3. D \in SUBSET Trees!Txs
  BY <1>2 DEF Trees!ToSet, TxSets
<1>4. \A t \in added : replaced[t] \in SUBSET Trees!Txs /\ t \notin replaced[t]
  BY <1>3 DEF Trees!Conflict
<1>5. rbf' = Trees!Evict(r, deleted)
  BY DEF Trees!Update, Trees!AddAll
<1> HIDE DEF D, replaced
<1>6. r \in Grown(rbf, added)
  BY <1>1, <1>4, AddEachKeeps
<1> HIDE DEF r
<1>7. r \in Forests /\ DOMAIN r.rbfTrees \subseteq DOMAIN rbf.rbfTrees \cup added /\ r.expiring = rbf.expiring
  BY <1>6 DEF Grown
<1>8. /\ rbf' \in Forests /\ rbf'.rbfTrees = r.rbfTrees /\ rbf'.txs = r.txs
      /\ rbf'.expiring = r.expiring \cup (deleted \cap r.txs)
  BY <1>5, <1>7, EvictKeeps
<1>9. /\ mempool' = (mempool \ deleted) \cup added /\ spends' = (spends \ deleted) \cup added
      /\ adrift' = adrift \ added /\ disk' = disk
  BY DEF Trees!Update
<1>10. DOMAIN r.rbfTrees \subseteq r.txs
  BY <1>7, RootsAreTxs
<1>11. DOMAIN rbf'.rbfTrees \subseteq mempool' \cup rbf'.expiring \cup adrift'
  BY <1>1, <1>7, <1>8, <1>9, <1>10 DEF RootsHeld
<1>12. mempool' \in TxSets /\ spends' \in TxSets
  BY <1>1, <1>9 DEF TxSets
<1> QED BY <1>1, <1>2, <1>8, <1>9, <1>11, <1>12 DEF TreesInv, Trees!NoTreeLingers

LEMMA BlockKeeps == ASSUME TreesInv, NEW t \in Trees!Txs, Trees!Block(t) PROVE TreesInv'
<1> DEFINE replaced == {u \in spends : Trees!Conflict(t, u)}
           r == Trees!Add(rbf, replaced, t)
<1>1. /\ rbf \in Forests /\ Saved(disk.rbf)
      /\ mempool \in TxSets /\ spends \in TxSets /\ gone \in Seq(TxSets)
      /\ RootsHeld(rbf, mempool \cup rbf.expiring \cup adrift)
  BY DEF TreesInv, Trees!NoTreeLingers, RootsHeld
<1>2. replaced \in SUBSET Trees!Txs /\ t \notin replaced
  BY <1>1 DEF Trees!Conflict, TxSets
<1>3. /\ rbf' = Trees!Evict(r, {t}) /\ mempool' = mempool \ {t} /\ spends' = spends \ (replaced \cup {t})
      /\ gone' = gone /\ disk' = disk /\ adrift' = adrift
  BY DEF Trees!Block, Trees!Mined
<1> HIDE DEF replaced
<1>4. r \in Grown(rbf, {t})
  BY <1>1, <1>2, AddKeeps
<1> HIDE DEF r
<1>5. r \in Forests /\ DOMAIN r.rbfTrees \subseteq DOMAIN rbf.rbfTrees \cup {t} /\ r.expiring = rbf.expiring
  BY <1>4 DEF Grown
<1>6. /\ rbf' \in Forests /\ rbf'.rbfTrees = r.rbfTrees /\ rbf'.txs = r.txs
      /\ rbf'.expiring = r.expiring \cup ({t} \cap r.txs)
  BY <1>3, <1>5, EvictKeeps
<1>7. DOMAIN r.rbfTrees \subseteq r.txs
  BY <1>5, RootsAreTxs
<1>8. DOMAIN rbf'.rbfTrees \subseteq mempool' \cup rbf'.expiring \cup adrift'
  BY <1>1, <1>3, <1>5, <1>6, <1>7 DEF RootsHeld
<1>9. mempool' \in TxSets /\ spends' \in TxSets
  BY <1>1, <1>3 DEF TxSets
<1> QED BY <1>1, <1>3, <1>6, <1>8, <1>9 DEF TreesInv, Trees!NoTreeLingers

LEMMA ExpiryKeeps == ASSUME TreesInv, NEW t \in rbf.expiring, Trees!Expires({t}) PROVE TreesInv'
<1>1. /\ rbf \in Forests /\ Saved(disk.rbf)
      /\ mempool \in TxSets /\ spends \in TxSets /\ gone \in Seq(TxSets)
      /\ RootsHeld(rbf, mempool \cup rbf.expiring \cup adrift)
  BY DEF TreesInv, Trees!NoTreeLingers, RootsHeld
<1>2. /\ rbf' = Trees!CleanUp(rbf, {t}) /\ adrift' = adrift \cap rbf'.txs
      /\ mempool' = mempool /\ spends' = spends /\ gone' = gone /\ disk' = disk
  BY DEF Trees!Expires
<1>3. {t} \in SUBSET rbf.txs
  BY <1>1 DEF Forests, Consistent
<1>4. /\ rbf' \in Forests /\ DOMAIN rbf'.rbfTrees \subseteq DOMAIN rbf.rbfTrees
      /\ DOMAIN rbf'.rbfTrees \cap rbf.expiring \subseteq rbf'.expiring
  BY <1>1, <1>2, <1>3, CleanUpKeeps
<1>5. DOMAIN rbf'.rbfTrees \subseteq rbf'.txs
  BY <1>4, RootsAreTxs
<1>6. DOMAIN rbf'.rbfTrees \subseteq mempool' \cup rbf'.expiring \cup adrift'
  BY <1>1, <1>2, <1>4, <1>5 DEF RootsHeld
<1> QED BY <1>1, <1>2, <1>4, <1>6 DEF TreesInv, Trees!NoTreeLingers

LEMMA RestartKeeps ==
  ASSUME TreesInv, NEW loaded \in Trees!Mempools, NEW found, Trees!Restart(loaded, found)
  PROVE  TreesInv'
<1>1. PICK copy \in Forests : disk.rbf = Trees!Dump(copy)
  BY DEF TreesInv, Saved
<1> DEFINE i == Trees!Import(disk.rbf)
           replaced == [t \in loaded |-> {u \in DOMAIN i.rbfTrees : Trees!Conflict(u, t)}]
           r == Trees!AddEach(i, loaded, replaced)
<1>2. loaded \in SUBSET Trees!Txs
  BY DEF Trees!Mempools
<1>3. i \in Forests
  BY <1>1, ImportKeeps
<1>4. /\ rbf' = Trees!Evict(r, r.txs \ (r.expiring \cup found))
      /\ mempool' = loaded /\ spends' = loaded /\ gone' = <<>>
      /\ adrift' = (found \ loaded) \cap (rbf'.txs \ r.expiring) /\ disk' = Trees!NoDisk
  BY DEF Trees!Restart, Trees!Reconnect, Trees!CheckTrees
<1> HIDE DEF i
<1>5. \A t \in loaded : replaced[t] \in SUBSET Trees!Txs /\ t \notin replaced[t]
  BY <1>3, RootsAreTxs DEF Trees!Conflict
<1> HIDE DEF replaced
<1>6. r \in Grown(i, loaded)
  BY <1>2, <1>3, <1>5, AddEachKeeps
<1> HIDE DEF r
<1>7. r \in Forests
  BY <1>6 DEF Grown
<1>8. /\ rbf' \in Forests /\ rbf'.rbfTrees = r.rbfTrees /\ rbf'.txs = r.txs
      /\ rbf'.expiring = r.expiring \cup ((r.txs \ (r.expiring \cup found)) \cap r.txs)
  BY <1>4, <1>7, EvictKeeps
<1>9. DOMAIN r.rbfTrees \subseteq r.txs
  BY <1>7, RootsAreTxs
<1>10. DOMAIN rbf'.rbfTrees \subseteq mempool' \cup rbf'.expiring \cup adrift'
  BY <1>4, <1>8, <1>9
<1>11. mempool' \in TxSets /\ spends' \in TxSets /\ gone' \in Seq(TxSets)
  BY <1>2, <1>4 DEF TxSets
<1>12. Saved(disk'.rbf)
  BY <1>4, NoTreesIsAForest DEF Trees!NoDisk, Saved
<1> QED BY <1>8, <1>10, <1>11, <1>12 DEF TreesInv, Trees!NoTreeLingers

LEMMA TreesKeep == TreesInv /\ [Trees!Next]_(Trees!vars) => TreesInv'
<1> SUFFICES ASSUME TreesInv, [Trees!Next]_(Trees!vars) PROVE TreesInv'
  OBVIOUS
<1>1. ASSUME NEW added \in SUBSET Trees!Txs, NEW deleted \in SUBSET Trees!Txs, Trees!Update(added, deleted)
      PROVE  TreesInv'
  BY <1>1, UpdateKeeps
<1>2. ASSUME NEW t \in Trees!Txs, Trees!Block(t) PROVE TreesInv'
  BY <1>2, BlockKeeps
<1>3. ASSUME NEW t \in rbf.expiring, Trees!Expires({t}) PROVE TreesInv'
  BY <1>3, ExpiryKeeps
<1>4. CASE Trees!Saves
  <2>1. /\ disk'.rbf = Trees!Dump(rbf)
        /\ UNCHANGED <<mempool, spends, gone, rbf, adrift>>
    BY <1>4 DEF Trees!Saves
  <2>2. Saved(disk'.rbf)
    BY <2>1 DEF TreesInv, Saved
  <2> QED BY <2>1, <2>2 DEF TreesInv, Trees!NoTreeLingers
<1>5. ASSUME NEW loaded \in Trees!Mempools, NEW found, Trees!Restart(loaded, found) PROVE TreesInv'
  BY <1>5, RestartKeeps
<1>6. CASE UNCHANGED Trees!vars
  BY <1>6 DEF Trees!vars, TreesInv, Trees!NoTreeLingers
<1> QED BY <1>1, <1>2, <1>3, <1>4, <1>5, <1>6 DEF Trees!Next

LEMMA ForestsAreConsistent == rbf \in Forests => Trees!TreesAreConsistent
<1> SUFFICES ASSUME rbf \in Forests PROVE Trees!TreesAreConsistent
  OBVIOUS
<1> DEFINE r == rbf
<1>1. DOMAIN r.treeMap = r.txs /\ Named(r) /\ Rooted(r) /\ Linked(r)
  BY DEF Forests, Consistent
<1>2. DOMAIN r.replacedBy \cup DOMAIN r.replaces \subseteq DOMAIN r.treeMap
  BY <1>1 DEF Linked
<1>3. \A t, u \in Trees!Txs : (t \in DOMAIN r.replaces /\ u \in r.replaces[t])
                              <=> (u \in DOMAIN r.replacedBy /\ r.replacedBy[u] = t)
  BY <1>1 DEF Linked
<1>4. \A t \in DOMAIN r.treeMap : {t, r.treeMap[t]} \subseteq DOMAIN r.treeMap /\ r.treeMap[t] = r.treeMap[r.treeMap[t]]
  BY <1>1 DEF Named, Rooted
<1>5. \A u \in DOMAIN r.replacedBy : /\ {u, r.replacedBy[u]} \subseteq DOMAIN r.treeMap
                                     /\ r.treeMap[u] = r.treeMap[r.replacedBy[u]]
  BY <1>1 DEF Linked
<1>6. \A t \in DOMAIN r.treeMap : r.treeMap[t] \in DOMAIN r.rbfTrees
  BY <1>1 DEF Named
<1>7. \A i \in DOMAIN r.rbfTrees : DOMAIN r.rbfTrees[i] = {t \in DOMAIN r.treeMap : r.treeMap[t] = i}
  BY <1>1 DEF Rooted, InTree
<1> QED BY <1>2, <1>3, <1>4, <1>5, <1>6, <1>7 DEF Trees!TreesAreConsistent

(* The maps of the cache always agree, whatever is replaced, mined, evicted, *)
(* expired or loaded: what replacedBy and replaces say of two transactions   *)
(* is the same, and each is in the one tree that treeMap names.              *)
THEOREM TreesStayConsistent == Spec => []TreesAreConsistent
<1>1. Init => (subject = "trees" => TreesInv)
  BY TreesStart DEF Init, InitService, TreesRest
<1>2. (subject = "trees" => TreesInv) /\ [Next]_vars => (subject = "trees" => TreesInv)'
  BY StepsOfTrees, TreesKeep
<1>3. (subject = "trees" => TreesInv) => TreesAreConsistent
  BY ForestsAreConsistent DEF TreesAreConsistent, TreesInv
<1> QED BY <1>1, <1>2, <1>3, PTL DEF Spec

(* No tree outlives its transactions: its newest one is in the mempool, has  *)
(* a date at which it goes, or was found by the node at a restart and has    *)
(* not come to the mempool since.                                            *)
THEOREM TreesDoNotLinger == Spec => []NoTreeLingers
<1>1. Init => (subject = "trees" => TreesInv)
  BY TreesStart DEF Init, InitService, TreesRest
<1>2. (subject = "trees" => TreesInv) /\ [Next]_vars => (subject = "trees" => TreesInv)'
  BY StepsOfTrees, TreesKeep
<1>3. (subject = "trees" => TreesInv) => NoTreeLingers
  BY DEF NoTreeLingers, TreesInv
<1> QED BY <1>1, <1>2, <1>3, PTL DEF Spec
=============================================================================
