---------------------------- MODULE MempoolStats ----------------------------
(***************************************************************************)
(* backend/src/api/monero/monero-stats.ts: one sample of the pool a minute,*)
(* kept in memory and in a database with a file behind it.  A sample is    *)
(* the time it was taken at; what it says of the pool is left out.  The    *)
(* dirty flag is set in the tick that tests it and left out too.  A file is *)
(* written in one step here: what overlapping saves do to the temporary    *)
(* file they share is the subject of ChainIndexer.                         *)
(***************************************************************************)
EXTENDS Selection

CONSTANTS
  Interval,    \* SAMPLE_INTERVAL_MS
  MaxSamples,  \* MAX_SAMPLES
  HasDb,       \* isDatabaseEnabled()
  First,       \* the recordSample() call of start()
  Triggered,   \* bound: the calls of the gate that overlap
  MaxTime,     \* bound: the clock
  None

VARIABLES
  now,
  phase,         \* "down", the load that is awaited ("db", "file"), or "up"
  since,         \* the cutoff of the load
  read,          \* what the file held when its load began, None without a file
  samples,
  lastSampleAt,
  call,          \* call[r]: what recordSample() call r awaits
  taken,         \* taken[r]: the sample r saves
  db, file       \* the stores

memVars == <<samples, lastSampleAt>>
callVars == <<call, taken>>
vars == <<now, phase, since, read, memVars, callVars, db, file>>

Calls == {First} \cup Triggered
SampleWindow == MaxSamples * Interval
LongAgo == -Interval  \* lastSampleAt = 0

Latest(s) == SubSeq(s, IF Len(s) > MaxSamples THEN Len(s) - MaxSamples + 1 ELSE 1, Len(s))

-----------------------------------------------------------------------------
(* start() and loadFromDisk() *)

Start ==
  /\ phase = "down"
  /\ phase' = IF HasDb THEN "db" ELSE "file"
  /\ since' = now - SampleWindow
  /\ read' = IF HasDb THEN None ELSE file
  /\ UNCHANGED <<now, memVars, callVars, db, file>>

Loaded_BehindLive(rows) ==  \* a bug: the history is put behind what was sampled meanwhile
  /\ samples' = Latest(samples \o rows)
  /\ lastSampleAt' = IF rows = <<>> THEN LongAgo ELSE rows[Len(rows)]
  /\ phase' = "up"
  /\ call' = [call EXCEPT ![First] = "pool"]

(* The history replaces what is in memory, and the first sample is begun. *)
Loaded(rows) ==
  /\ samples' = Latest(rows)
  /\ lastSampleAt' = IF rows = <<>> THEN LongAgo ELSE rows[Len(rows)]
  /\ phase' = "up"
  /\ call' = [call EXCEPT ![First] = "pool"]

(* ORDER BY added: the samples of the table from since to now. *)
RowsSince ==
  LET times == [i \in 1..(now - since + 1) |-> since + i - 1]
  IN Selected(times, {i \in DOMAIN times : times[i] \in db})

FromDb ==
  /\ phase = "db"
  /\ RowsSince # <<>>
  /\ Loaded(SubSeq(RowsSince, 1, IF Len(RowsSince) < MaxSamples THEN Len(RowsSince) ELSE MaxSamples))
  /\ UNCHANGED <<now, since, read, taken, db, file>>

(* The database fails or is empty: the file is read. *)
FallsBack ==
  /\ phase = "db"
  /\ phase' = "file"
  /\ read' = file
  /\ UNCHANGED <<now, since, memVars, callVars, db, file>>

FromFile ==
  /\ phase = "file"
  /\ IF read = None
     THEN /\ phase' = "up"
          /\ call' = [call EXCEPT ![First] = "pool"]
          /\ UNCHANGED memVars
     ELSE Loaded(Selected(read, {i \in DOMAIN read : read[i] >= since}))
  /\ read' = None
  /\ UNCHANGED <<now, since, taken, db, file>>

-----------------------------------------------------------------------------
(* The gate of the delta listener and of the timer, and recordSample() *)

Triggers(r) ==
  /\ phase # "down"
  /\ call[r] = "idle"
  /\ now - lastSampleAt >= Interval
  /\ lastSampleAt' = now
  /\ call' = [call EXCEPT ![r] = "pool"]
  /\ UNCHANGED <<now, phase, since, read, samples, taken, db, file>>

(* The call is over; start() notes the time after the one it made. *)
Ends(r) ==
  /\ call' = [call EXCEPT ![r] = "idle"]
  /\ taken' = [taken EXCEPT ![r] = None]
  /\ lastSampleAt' = IF r = First THEN now ELSE lastSampleAt

PoolAnswered(r) ==
  /\ call[r] = "pool"
  /\ taken' = [taken EXCEPT ![r] = now]
  /\ samples' = Latest(Append(samples, now))
  /\ call' = [call EXCEPT ![r] = "save"]
  /\ UNCHANGED <<now, phase, since, read, lastSampleAt, db, file>>

PoolFails(r) ==
  /\ call[r] = "pool"
  /\ Ends(r)
  /\ UNCHANGED <<now, phase, since, read, samples, db, file>>

SavesToDb(r) ==
  /\ call[r] = "save" /\ HasDb
  /\ db' = {t \in db \cup {taken[r]} : t >= taken[r] - SampleWindow}
  /\ Ends(r)
  /\ UNCHANGED <<now, phase, since, read, samples, file>>

(* There is no database, or one of its two statements failed. *)
DbFails(r) == db' \in IF HasDb THEN {db, db \cup {taken[r]}} ELSE {db}

(* The whole window is written. *)
SavesToFile(r) ==
  /\ call[r] = "save"
  /\ DbFails(r)
  /\ file' = samples
  /\ Ends(r)
  /\ UNCHANGED <<now, phase, since, read, samples>>

(* The file cannot be written either. *)
SaveFails(r) ==
  /\ call[r] = "save"
  /\ DbFails(r)
  /\ Ends(r)
  /\ UNCHANGED <<now, phase, since, read, samples, file>>

RecordStep(r) == PoolAnswered(r) \/ PoolFails(r) \/ SavesToDb(r) \/ SavesToFile(r) \/ SaveFails(r)

-----------------------------------------------------------------------------
Tick ==
  /\ now < MaxTime
  /\ now' = now + 1
  /\ UNCHANGED <<phase, since, read, memVars, callVars, db, file>>

Crash ==
  /\ phase # "down"
  /\ phase' = "down"
  /\ read' = None
  /\ samples' = <<>>
  /\ lastSampleAt' = LongAgo
  /\ call' = [r \in Calls |-> "idle"]
  /\ taken' = [r \in Calls |-> None]
  /\ UNCHANGED <<now, since, db, file>>

Init ==
  /\ now = 0
  /\ phase = "down"
  /\ since = 0
  /\ read = None
  /\ samples = <<>>
  /\ lastSampleAt = LongAgo
  /\ call = [r \in Calls |-> "idle"]
  /\ taken = [r \in Calls |-> None]
  /\ db = {} /\ file = None

Next ==
  \/ Start \/ FromDb \/ FallsBack \/ FromFile
  \/ \E r \in Triggered : Triggers(r)
  \/ \E r \in Calls : RecordStep(r)
  \/ Tick
  \/ Crash

Spec == Init /\ [][Next]_vars

-----------------------------------------------------------------------------
Ascends(s) == \A i, j \in DOMAIN s : i < j => s[i] <= s[j]

(* The chart's samples are in the order of their times, in memory and in     *)
(* the file, whatever calls overlap with each other, with the load of the    *)
(* history and with restarts: the chart and the load take the tail of the    *)
(* list for the most recent samples.                                         *)
SamplesAscend == Ascends(samples) /\ (file # None => Ascends(file))
=============================================================================
