---------------------------- MODULE ChainIndexer ----------------------------
(***************************************************************************)
(* backend/src/api/monero/xmr-chain-indexer.ts: block samples by height,   *)
(* hydrated on 'block' events, by the backfill and on request, and saved   *)
(* through one temporary file.  The process may stop between any two steps.*)
(*                                                                         *)
(* A sample is the hash of its block.  Fees, percentiles and the pool a    *)
(* sample is attributed to are left out; attributing one marks the index   *)
(* dirty.  currentDifficulty and fetchTip only feed stats().               *)
(***************************************************************************)
EXTENDS Naturals

CONSTANTS
  Heights,    \* block heights
  Hashes,     \* block hashes
  None,
  Hydrations, \* bound: hydrateBlock() calls at a time
  Saves,      \* bound: persist() calls at a time
  Inodes      \* bound: files on disk, named or still open

ASSUME IndexAssumption == None \notin Hashes /\ None \notin Heights /\ None \notin Inodes

VARIABLES
  chain,      \* chain[h]: the block the daemon and xmrchain.net have at h
  up,         \* the process runs and has loaded its file
  samples,
  dirty,
  hydrating,  \* hydrating[j]: the height call j fetches
  fetched,    \* fetched[j]: the block xmrchain.net answered it with
  saving,     \* saving[s]: the step persist() call s awaits
  payload,    \* payload[s]: what s serialised
  fd,         \* fd[s]: the file s has open
  tmp, file,  \* the files named blocks-index.json.tmp and blocks-index.json
  content     \* content[i]: what was written; only a "whole" file parses

indexVars == <<up, samples, dirty, hydrating, fetched>>
saveVars == <<saving, payload, fd>>
diskVars == <<tmp, file, content>>
vars == <<chain, indexVars, saveVars, diskVars>>

Index == [Heights -> Hashes \cup {None}]
NoSamples == [h \in Heights |-> None]
Known(index) == {h \in Heights : index[h] # None}
Content == [state : {"empty", "whole", "torn"}, index : Index]
Empty == [state |-> "empty", index |-> NoSamples]
Torn == [state |-> "torn", index |-> NoSamples]
Whole(index) == [state |-> "whole", index |-> index]

Loads(i) == i # None /\ content[i].state = "whole"
Saved(i) == IF Loads(i) THEN content[i].index ELSE NoSamples

(* Types of memory and disk; a file is open only while it is written. *)
TypeOK ==
  /\ chain \in Index
  /\ up \in BOOLEAN
  /\ samples \in Index
  /\ dirty \in BOOLEAN
  /\ hydrating \in [Hydrations -> Heights \cup {None}]
  /\ fetched \in [Hydrations -> Hashes \cup {None}]
  /\ saving \in [Saves -> {"idle", "mkdir", "write", "rename"}]
  /\ payload \in [Saves -> Index]
  /\ fd \in [Saves -> Inodes \cup {None}]
  /\ \A s \in Saves : fd[s] # None <=> saving[s] = "write"
  /\ tmp \in Inodes \cup {None} /\ file \in Inodes \cup {None}
  /\ content \in [Inodes -> Content]

-----------------------------------------------------------------------------
(* hydrateBlock() *)

(* It returns at once for a height it knows; attribution may mark the index *)
(* dirty.                                                                   *)
HydrateSkips(h) ==
  /\ samples[h] # None
  /\ dirty' \in {dirty, TRUE}
  /\ UNCHANGED <<up, samples, hydrating, fetched>>

HydrateFetches(j, h) ==
  /\ samples[h] = None
  /\ hydrating[j] = None
  /\ hydrating' = [hydrating EXCEPT ![j] = h]
  /\ UNCHANGED <<up, samples, dirty, fetched>>

Hydrate(h) == HydrateSkips(h) \/ \E j \in Hydrations : HydrateFetches(j, h)

(* recentSamples() and the backfill ask for heights of the chain. *)
Asks(h) ==
  /\ up
  /\ chain[h] # None
  /\ Hydrate(h)
  /\ UNCHANGED <<chain, saveVars, diskVars>>

(* A block is appended or replaces the one at its height, and is announced. *)
BlockArrives(h, b) ==
  /\ chain[h] # b
  /\ \A g \in Heights : /\ g < h => chain[g] # None
                        /\ g > h => chain[g] = None
                        /\ chain[g] # b
  /\ chain' = [chain EXCEPT ![h] = b]
  /\ IF up THEN Hydrate(h) ELSE UNCHANGED indexVars
  /\ UNCHANGED <<saveVars, diskVars>>

HydrateAnswered(j) ==
  /\ hydrating[j] # None
  /\ fetched[j] = None
  /\ fetched' = [fetched EXCEPT ![j] = chain[hydrating[j]]]
  /\ UNCHANGED <<chain, up, samples, dirty, hydrating, saveVars, diskVars>>

Over(j) ==
  /\ hydrating' = [hydrating EXCEPT ![j] = None]
  /\ fetched' = [fetched EXCEPT ![j] = None]

(* The daemon and the pools have answered too. *)
HydrateEnds(j) ==
  /\ fetched[j] # None
  /\ samples' = [samples EXCEPT ![hydrating[j]] = fetched[j]]
  /\ dirty' = TRUE
  /\ Over(j)
  /\ UNCHANGED <<chain, up, saveVars, diskVars>>

(* "incomplete data", after the retries. *)
HydrateFails(j) ==
  /\ hydrating[j] # None
  /\ Over(j)
  /\ UNCHANGED <<chain, up, samples, dirty, saveVars, diskVars>>

-----------------------------------------------------------------------------
(* persist(), called by the timer, the backfill and recentSamples() *)

At(s, step) == saving' = [saving EXCEPT ![s] = step]

PersistStarts(s) ==
  /\ up /\ dirty
  /\ saving[s] = "idle"
  /\ At(s, "mkdir")
  /\ UNCHANGED <<chain, indexVars, payload, fd, diskVars>>

(* The index is serialised, and writeFile() truncates the temporary file or *)
(* creates it.  The thread pool takes requests in order, so the saves open   *)
(* the file in the order in which they serialised.                           *)
Opens(s) ==
  /\ saving[s] = "mkdir"
  /\ payload' = [payload EXCEPT ![s] = samples]
  /\ \E i \in Inodes :
       /\ IF tmp # None THEN i = tmp
          ELSE i # file /\ \A q \in Saves : i # fd[q]
       /\ fd' = [fd EXCEPT ![s] = i]
       /\ tmp' = i
       /\ content' = [content EXCEPT ![i] = Empty]
  /\ At(s, "write")
  /\ UNCHANGED <<chain, indexVars, file>>

(* What a file holds once p is written from its start: what was written     *)
(* before by another save shows behind p if it is longer.                   *)
WrittenOver(p, old) ==
  CASE old.state = "empty" -> {Whole(p)}
    [] old.state = "torn"  -> {Whole(p), Torn}
    [] OTHER -> {IF Known(old.index) \subseteq Known(p) THEN Whole(p) ELSE Torn}

Writes(s) ==
  /\ saving[s] = "write"
  /\ \E c \in WrittenOver(payload[s], content[fd[s]]) : content' = [content EXCEPT ![fd[s]] = c]
  /\ fd' = [fd EXCEPT ![s] = None]
  /\ At(s, "rename")
  /\ UNCHANGED <<chain, indexVars, payload, tmp, file>>

Renames(s) ==
  /\ saving[s] = "rename"
  /\ tmp # None
  /\ file' = tmp
  /\ tmp' = None
  /\ dirty' = FALSE
  /\ At(s, "idle")
  /\ payload' = [payload EXCEPT ![s] = NoSamples]
  /\ UNCHANGED <<chain, up, samples, hydrating, fetched, fd, content>>

PersistFails_LeaksFd(s) ==  \* a bug: the file stays open
  /\ saving[s] # "idle"
  /\ At(s, "idle")
  /\ payload' = [payload EXCEPT ![s] = NoSamples]
  /\ UNCHANGED <<chain, indexVars, fd, diskVars>>

(* A step of it fails; another save has renamed the file already. *)
PersistFails(s) ==
  /\ saving[s] # "idle"
  /\ At(s, "idle")
  /\ fd' = [fd EXCEPT ![s] = None]
  /\ payload' = [payload EXCEPT ![s] = NoSamples]
  /\ UNCHANGED <<chain, indexVars, diskVars>>

PersistStep(s) == PersistStarts(s) \/ Opens(s) \/ Writes(s) \/ Renames(s) \/ PersistFails(s)

-----------------------------------------------------------------------------
Crash ==
  /\ up
  /\ up' = FALSE
  /\ samples' = NoSamples
  /\ dirty' = FALSE
  /\ hydrating' = [j \in Hydrations |-> None]
  /\ fetched' = [j \in Hydrations |-> None]
  /\ saving' = [s \in Saves |-> "idle"]
  /\ payload' = [s \in Saves |-> NoSamples]
  /\ fd' = [s \in Saves |-> None]
  /\ UNCHANGED <<chain, diskVars>>

Start_WithoutLoad ==  \* a bug: the index is not loaded
  /\ ~up
  /\ up' = TRUE
  /\ UNCHANGED <<chain, samples, dirty, hydrating, fetched, saveVars, diskVars>>

(* start() awaits loadFromDisk() before it listens to the bus. *)
Start ==
  /\ ~up
  /\ up' = TRUE
  /\ samples' = Saved(file)
  /\ UNCHANGED <<chain, dirty, hydrating, fetched, saveVars, diskVars>>

Init ==
  /\ chain = NoSamples
  /\ up = FALSE
  /\ samples = NoSamples
  /\ dirty = FALSE
  /\ hydrating = [j \in Hydrations |-> None]
  /\ fetched = [j \in Hydrations |-> None]
  /\ saving = [s \in Saves |-> "idle"]
  /\ payload = [s \in Saves |-> NoSamples]
  /\ fd = [s \in Saves |-> None]
  /\ tmp = None /\ file = None
  /\ content = [i \in Inodes |-> Empty]

Next ==
  \/ \E h \in Heights : Asks(h) \/ \E b \in Hashes : BlockArrives(h, b)
  \/ \E j \in Hydrations : HydrateAnswered(j) \/ HydrateEnds(j) \/ HydrateFails(j)
  \/ \E s \in Saves : PersistStep(s)
  \/ Crash
  \/ Start

Spec == Init /\ [][Next]_vars

(* The timer ticks; a disk that is written to again and again does not fail *)
(* for ever.                                                                *)
FairSpec ==
  /\ Spec
  /\ WF_vars(Start)
  /\ WF_vars(\E s \in Saves : PersistStarts(s))
  /\ \A s \in Saves : SF_vars(Opens(s)) /\ SF_vars(Writes(s)) /\ SF_vars(Renames(s))

-----------------------------------------------------------------------------
(* No save replaces a file that loads by one that knows fewer heights:      *)
(* memory always covers the file, across restarts, overlapping saves and     *)
(* saves that die half-way.                                                  *)
SavesNeverShrink ==
  [][Loads(file) /\ Loads(file)' => Known(Saved(file)) \subseteq Known(Saved(file)')]_vars

(* "Persists to ~/.xmr-space/blocks-index.json so subsequent boots are       *)
(* instant": while no save is under way, a file that is there loads.         *)
SettledFileLoads == (\A s \in Saves : saving[s] = "idle") /\ up => file = None \/ Loads(file)

(* "Periodic persist to avoid losing live updates on crash": what has been   *)
(* indexed reaches the file, unless the process stops before.                *)
LiveUpdatesAreSaved ==
  \A h \in Heights : (up /\ samples[h] # None)
    ~> (~up \/ h \in Known(Saved(file)))
=============================================================================
