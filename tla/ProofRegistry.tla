---------------------------- MODULE ProofRegistry ----------------------------
(***************************************************************************)
(* backend/src/api/monero/xmr-miner-proof-registry.ts over the pool feeds  *)
(* of xmr-pool-blocks.ts: which pool found a block, from what the pools    *)
(* say, rebuilt when it has expired.  A feed is a set of blocks; some feeds*)
(* carry proofs.  A feed that fails contributes nothing to a build, which  *)
(* itself cannot fail: its catch is left out.                              *)
(***************************************************************************)
EXTENDS Integers, Sequences, FiniteSetsExt

CONSTANTS
  Feeds,      \* FETCHERS: for each, its blocks and whether it carries proofs
  Callers,
  Ttl,        \* ttlMs
  Timeout,    \* of fetchText()
  MaxTime     \* bound: the clock

VARIABLES
  now,
  kept,       \* cache: the attributions, their expiry, when and from what they were built
  build,      \* inFlight: when it began, which feeds have answered or failed
  asked,      \* asked[c]: the time at which caller c began to wait, None
  given       \* what the last step returned: the cache it came from

None == -1
vars == <<now, kept, build, asked, given>>

Blocks == UNION {Feeds[i].blocks : i \in DOMAIN Feeds}
NoBuild == [since |-> None, answered |-> {}, failed |-> {}]
NoAttributions == [attributions |-> <<>>, expires |-> 0, since |-> None, answered |-> {}]

Init ==
  /\ now = 0
  /\ kept = NoAttributions
  /\ build = NoBuild
  /\ asked = [c \in Callers |-> None]
  /\ given = {}

-----------------------------------------------------------------------------
Collapse_LastWins(map, i) ==
  [b \in DOMAIN map \cup Feeds[i].blocks |-> IF b \in Feeds[i].blocks THEN i ELSE map[b]]
(* buildAttributionMap, for the records of feed i: one without a proof does
   not replace a proof. *)
Collapse(map, i) ==
  [b \in DOMAIN map \cup Feeds[i].blocks |->
     IF b \in Feeds[i].blocks /\ ~(b \in DOMAIN map /\ Feeds[map[b]].proof /\ ~Feeds[i].proof)
     THEN i ELSE map[b]]
(* fetchAllPoolBlocks: the records of the feeds that answered, in the order
   of the feeds. *)
BuildAttributionMap(answered) ==
  LET upTo[n \in 0..Len(Feeds)] ==
        IF n = 0 THEN <<>>
        ELSE IF n \in answered THEN Collapse(upTo[n - 1], n) ELSE upTo[n - 1]
  IN upTo[Len(Feeds)]

-----------------------------------------------------------------------------
(* recentAttributions *)
Serve(c) ==
  /\ asked[c] = None
  /\ kept.expires > now
  /\ given' = {kept}
  /\ UNCHANGED <<now, kept, build, asked>>

Wait(c) ==
  /\ asked[c] = None
  /\ kept.expires <= now
  /\ asked' = [asked EXCEPT ![c] = now]
  /\ build' = IF build.since = None THEN [NoBuild EXCEPT !.since = now] ELSE build
  /\ given' = {}
  /\ UNCHANGED <<now, kept>>

FeedAnswers(i) ==
  /\ build.since # None
  /\ i \notin build.answered \cup build.failed
  /\ \/ build' = [build EXCEPT !.answered = @ \cup {i}]
     \/ build' = [build EXCEPT !.failed = @ \cup {i}]
  /\ given' = {}
  /\ UNCHANGED <<now, kept, asked>>

Expiry_OfTheBuild(waiting) == now + Ttl + Timeout
(* Each waiting caller sets the cache, with the expiry it computed before it
   waited; the last one asked last. *)
Expiry(waiting) == Max({asked[c] : c \in waiting}) + Ttl
BuildEnds ==
  LET waiting == {c \in Callers : asked[c] # None}
  IN /\ build.since # None
     /\ build.answered \cup build.failed = DOMAIN Feeds
     /\ kept' = [attributions |-> BuildAttributionMap(build.answered), expires |-> Expiry(waiting),
                 since |-> build.since, answered |-> build.answered]
     /\ given' = {kept'}
     /\ build' = NoBuild
     /\ asked' = [c \in Callers |-> None]
     /\ UNCHANGED now

(* No feed is waited for longer than its timeout. *)
Tick ==
  /\ now < MaxTime
  /\ build.since # None => now - build.since < Timeout
  /\ now' = now + 1
  /\ given' = {}
  /\ UNCHANGED <<kept, build, asked>>

Next ==
  \/ Tick \/ BuildEnds
  \/ \E c \in Callers : Serve(c) \/ Wait(c)
  \/ \E i \in DOMAIN Feeds : FeedAnswers(i)
Spec == Init /\ [][Next]_vars

-----------------------------------------------------------------------------
Claimed(answered) == UNION {Feeds[i].blocks : i \in answered}
Proven(answered) == Claimed({i \in answered : Feeds[i].proof})

(* Whatever feeds failed, an attribution comes from a feed that claims the
   block, no claim of a feed that answered is missing, and the proof wins
   wherever its feed stands in the list. *)
ProofsWin ==
  \A k \in given :
    /\ DOMAIN k.attributions = Claimed(k.answered)
    /\ \A b \in DOMAIN k.attributions :
         /\ k.attributions[b] \in k.answered
         /\ b \in Feeds[k.attributions[b]].blocks
         /\ Feeds[k.attributions[b]].proof = (b \in Proven(k.answered))

(* Callers share builds, some of which began before they asked, and extend
   the expiry of what they waited for: it is still never older than the time
   to live and one build. *)
AttributionsAreRecent ==
  \A k \in given : now - k.since <= Ttl + Timeout
=============================================================================
