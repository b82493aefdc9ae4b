------------------------------ MODULE RpcPool ------------------------------
(***************************************************************************)
(* MoneroRpcPool and the retries of MoneroRpc                              *)
(* (backend/src/api/monero/monero-rpc.ts): a request goes to the primary   *)
(* daemon or to the fallback, by a verdict on the primary that is kept for *)
(* an interval.  A fallback is configured; further ones are never used.    *)
(***************************************************************************)
EXTENDS Naturals

CONSTANTS
  Calls,   \* bound: the requests under way at a time
  Refused, \* the requests among them that daemons answer with an error: a subset
  RPC_RETRIES

VARIABLES
  requirePrimarySync, \* config.requirePrimarySync
  primary,       \* the primary daemon is "ready", "syncing" or "down"
  fallbackUp,
  primaryUsable, \* the verdict, "unknown" for null
  fresh,         \* primaryCheckedAt is less than the interval ago
  call,          \* call[c]: the answer c awaits, or how it ended
  attempt        \* attempt[c]: of postWithRetry()

daemonVars == <<primary, fallbackUp>>
poolVars == <<requirePrimarySync, primaryUsable, fresh>>
vars == <<daemonVars, poolVars, call, attempt>>

Waiting == {"probe", "primary", "fallback"}
Ended == {"idle", "answered", "failed"}

-----------------------------------------------------------------------------
(* The request c is posted somewhere for the first time, or is over. *)
Becomes(c, step) ==
  /\ call' = [call EXCEPT ![c] = step]
  /\ attempt' = [attempt EXCEPT ![c] = 0]

(* The daemon that c waits for does not answer now. *)
Silent(c) == IF call[c] = "fallback" THEN ~fallbackUp ELSE primary = "down"

(* selectRpc() with isPrimaryUsable() up to its await. *)
Unchecked(c) ==
  /\ ~requirePrimarySync
  /\ Becomes(c, "primary")
  /\ UNCHANGED poolVars

ByVerdict(c) ==
  /\ requirePrimarySync
  /\ primaryUsable # "unknown" /\ fresh
  /\ Becomes(c, IF primaryUsable = "usable" THEN "primary" ELSE "fallback")
  /\ UNCHANGED poolVars

Probes_OnlyUsable(c) ==  \* a bug: a primary found unusable is not asked again
  /\ requirePrimarySync
  /\ primaryUsable = "unknown" \/ (primaryUsable = "usable" /\ ~fresh)
  /\ Becomes(c, "probe")
  /\ fresh' = TRUE
  /\ UNCHANGED <<requirePrimarySync, primaryUsable>>

Probes(c) ==
  /\ requirePrimarySync
  /\ primaryUsable = "unknown" \/ ~fresh
  /\ Becomes(c, "probe")
  /\ fresh' = TRUE
  /\ UNCHANGED <<requirePrimarySync, primaryUsable>>

Request(c) ==
  /\ call[c] \in Ended
  /\ Unchecked(c) \/ ByVerdict(c) \/ Probes(c)
  /\ UNCHANGED daemonVars

(* postWithRetry() *)
Retries(c) ==
  /\ call[c] \in Waiting
  /\ Silent(c)
  /\ attempt[c] < RPC_RETRIES
  /\ attempt' = [attempt EXCEPT ![c] = @ + 1]
  /\ UNCHANGED <<daemonVars, poolVars, call>>

(* daemonSyncStatus() of the answer, and the call itself. *)
ProbeAnswered(c) ==
  /\ call[c] = "probe" /\ ~Silent(c)
  /\ primaryUsable' = IF primary = "ready" THEN "usable" ELSE "unusable"
  /\ Becomes(c, IF primary = "ready" THEN "primary" ELSE "fallback")
  /\ UNCHANGED <<daemonVars, requirePrimarySync, fresh>>

(* Some errors are not retried, so this may happen at any attempt. *)
ProbeFails(c) ==
  /\ call[c] = "probe" /\ Silent(c)
  /\ primaryUsable' = "unusable"
  /\ Becomes(c, "fallback")
  /\ UNCHANGED <<daemonVars, requirePrimarySync, fresh>>

(* withFallback() after its calls *)
Answered(c) ==
  /\ call[c] \in {"primary", "fallback"}
  /\ ~Silent(c) /\ c \notin Refused
  /\ Becomes(c, "answered")
  /\ UNCHANGED <<daemonVars, poolVars>>

PrimaryFails_Throws(c) ==  \* a bug: the call is not made again
  /\ call[c] = "primary"
  /\ Silent(c) \/ c \in Refused
  /\ primaryUsable' = "unusable"
  /\ fresh' = TRUE
  /\ Becomes(c, "failed")
  /\ UNCHANGED <<daemonVars, requirePrimarySync>>

PrimaryFails(c) ==
  /\ call[c] = "primary"
  /\ Silent(c) \/ c \in Refused
  /\ primaryUsable' = "unusable"
  /\ fresh' = TRUE
  /\ Becomes(c, "fallback")
  /\ UNCHANGED <<daemonVars, requirePrimarySync>>

FallbackFails(c) ==
  /\ call[c] = "fallback"
  /\ Silent(c) \/ c \in Refused
  /\ Becomes(c, "failed")
  /\ UNCHANGED <<daemonVars, poolVars>>

CallStep(c) ==
  \/ Retries(c) \/ ProbeAnswered(c) \/ ProbeFails(c)
  \/ Answered(c) \/ PrimaryFails(c) \/ FallbackFails(c)

-----------------------------------------------------------------------------
IntervalPasses ==
  /\ fresh
  /\ fresh' = FALSE
  /\ UNCHANGED <<daemonVars, requirePrimarySync, primaryUsable, call, attempt>>

DaemonsMove ==
  /\ primary' \in {"ready", "syncing", "down"}
  /\ fallbackUp' \in BOOLEAN
  /\ UNCHANGED <<poolVars, call, attempt>>

Init ==
  /\ requirePrimarySync \in BOOLEAN
  /\ primary \in {"ready", "syncing", "down"}
  /\ fallbackUp = TRUE
  /\ primaryUsable = "unknown"
  /\ fresh = FALSE
  /\ call = [c \in Calls |-> "idle"]
  /\ attempt = [c \in Calls |-> 0]

Next ==
  \/ \E c \in Calls : Request(c) \/ CallStep(c)
  \/ IntervalPasses
  \/ DaemonsMove

Spec == Init /\ [][Next]_vars

-----------------------------------------------------------------------------
(* withFallback(): a primary that fails, syncs or restarts is not noticed by *)
(* a caller; a request fails only if it is refused or the fallback is silent *)
(* too.                                                                      *)
CallsSurvivePrimary ==
  [][\A c \in Calls : call[c] # "failed" /\ call'[c] = "failed" => c \in Refused \/ ~fallbackUp]_vars

(* A primary that is ready again, after whatever outages, probes that ended  *)
(* late and failed calls, is used again.                                     *)
PrimaryReturns ==
  requirePrimarySync /\ <>[](primary = "ready") => []<>(primaryUsable = "usable")
=============================================================================
