--------------------------- MODULE MigrationMetrics ---------------------------
(***************************************************************************)
(* backend/src/api/monero/xmr-migration-metrics.ts: daily counts of one    *)
(* event, in memory and in a file that is written through a temporary one  *)
(* before the request is answered.  record() runs without an await; a      *)
(* crash may still come between its writes.                                *)
(***************************************************************************)
EXTENDS Integers, Functions, FiniteSets

CONSTANTS
  Budget,      \* 120 writes in a minute
  Minute,      \* length of the window of the budget
  Day,         \* length of a day
  Retention,   \* days kept
  MaxCount,    \* bound: the requests counted in a day
  MaxTime      \* bound: the clock

VARIABLES
  now,
  step,               \* of record(): idle, write, rename; or down
  days,               \* counts by day
  previous,           \* count to go back to
  windowStart, windowCount,
  tmp, file,          \* the files: counts by day, or Torn
  counted             \* history: the requests answered with 204, by day

metricVars == <<step, days, previous, windowStart, windowCount>>
vars == <<now, metricVars, tmp, file, counted>>

Torn == [d \in {-1} |-> 0]  \* half written: of no day
Today == now \div Day
Kept(counts) == Restrict(counts, {d \in DOMAIN counts : d > Today - Retention /\ d <= Today})
Count(counts, d) == IF d \in DOMAIN counts THEN counts[d] ELSE 0
Put(counts, d, n) == [x \in DOMAIN counts \cup {d} |-> IF x = d THEN n ELSE counts[x]]

Init ==
  /\ now = 0
  /\ step = "idle"
  /\ days = <<>> /\ previous = 0
  /\ windowStart = -Minute /\ windowCount = 0
  /\ tmp = <<>> /\ file = <<>>
  /\ counted = <<>>

-----------------------------------------------------------------------------
(* record(), up to the first write; 429 when the budget is spent. *)
Opens == now - windowStart >= Minute
Record ==
  /\ step = "idle"
  /\ Count(days, Today) < MaxCount
  /\ windowStart' = IF Opens THEN now ELSE windowStart
  /\ LET count == IF Opens THEN 0 ELSE windowCount
     IN IF count >= Budget
        THEN /\ windowCount' = count
             /\ UNCHANGED <<step, days, previous>>
        ELSE /\ windowCount' = count + 1
             /\ previous' = Count(days, Today)
             /\ days' = Put(Kept(days), Today, previous' + 1)
             /\ step' = "write"
  /\ UNCHANGED <<now, tmp, file, counted>>

Write_InPlace ==
  /\ step = "write"
  /\ file' = Torn
  /\ tmp' = days
  /\ step' = "rename"
  /\ UNCHANGED <<now, days, previous, windowStart, windowCount, counted>>
Write ==
  /\ step = "write"
  /\ tmp' = days
  /\ step' = "rename"
  /\ UNCHANGED <<now, days, previous, windowStart, windowCount, file, counted>>

Rename ==
  /\ step = "rename"
  /\ file' = tmp
  /\ tmp' = <<>>
  /\ counted' = Put(counted, Today, Count(counted, Today) + 1)
  /\ step' = "idle"
  /\ UNCHANGED <<now, days, previous, windowStart, windowCount>>

Undone == Put(days, Today, previous)
(* 503: one of the writes fails, which may leave a part of the temporary file. *)
Fails ==
  /\ step \in {"write", "rename"}
  /\ days' = Undone
  /\ tmp' = IF step = "write" THEN Torn ELSE tmp
  /\ step' = "idle"
  /\ UNCHANGED <<now, previous, windowStart, windowCount, file, counted>>

Crash ==
  /\ step # "down"
  /\ step' = "down"
  /\ tmp' = IF step = "write" THEN Torn ELSE tmp
  /\ days' = <<>> /\ previous' = 0 /\ windowStart' = -Minute /\ windowCount' = 0
  /\ UNCHANGED <<now, file, counted>>

(* The constructor. *)
Start ==
  /\ step = "down"
  /\ step' = "idle"
  /\ days' = IF file = Torn THEN <<>> ELSE Kept(file)
  /\ UNCHANGED <<now, previous, windowStart, windowCount, tmp, file, counted>>

(* Nothing waits inside record(). *)
Tick ==
  /\ now < MaxTime
  /\ step \in {"idle", "down"}
  /\ now' = now + 1
  /\ UNCHANGED <<metricVars, tmp, file, counted>>

Next == Record \/ Write \/ Rename \/ Fails \/ Crash \/ Start \/ Tick
Spec == Init /\ [][Next]_vars

-----------------------------------------------------------------------------
Retained == {d \in 0..Today : d > Today - Retention}

(* What was answered with 204 survives any crash, as long as its day is kept;
   and between requests memory and the file agree, also after a failed write
   and after days were dropped from one of them. *)
CountsSurvive ==
  \A d \in Retained :
    /\ file # Torn /\ Count(counted, d) <= Count(file, d)
    /\ step = "idle" => Count(days, d) = Count(file, d)
=============================================================================
