------------------------ MODULE ChainIndexer_proofs ------------------------
(***************************************************************************)
(* Proofs about xmr-chain-indexer.ts: the types, and that no save replaces *)
(* the index on disk by one that knows fewer heights, for any number of    *)
(* overlapping saves and hydrations.                                       *)
(***************************************************************************)
EXTENDS ChainIndexer, TLAPS

Writing(s) == saving[s] = "write"
Active == \E s \in Saves : saving[s] \in {"write", "rename"}

(* The temporary file is never the index itself. *)
NamesDiffer == tmp # None => tmp # file

(* No save survives a crash. *)
DownIsIdle == ~up => \A s \in Saves : saving[s] = "idle"

(* What a save has serialised is gone when it is over. *)
IdleHoldsNothing == \A s \in Saves : saving[s] = "idle" => payload[s] = NoSamples

(* Memory knows what the file and every save know. *)
MemoryCovers ==
  up => /\ Known(Saved(file)) \subseteq Known(samples)
        /\ \A s \in Saves : Known(payload[s]) \subseteq Known(samples)

(* A save that writes the temporary file knows what the file knows and what *)
(* the saves know that still write files renamed or replaced before.         *)
WriterIsLater ==
  \A t \in Saves : Writing(t) /\ fd[t] = tmp =>
    /\ Known(Saved(file)) \subseteq Known(payload[t])
    /\ \A s \in Saves : Writing(s) /\ fd[s] # tmp => Known(payload[s]) \subseteq Known(payload[t])

(* So does the temporary file, once it is whole; what a crash has left is     *)
(* truncated by the save that opens it.                                       *)
TmpIsLater ==
  Active /\ Loads(tmp) =>
    /\ Known(Saved(file)) \subseteq Known(Saved(tmp))
    /\ Known(Saved(tmp)) \subseteq Known(samples)
    /\ \A s \in Saves : Writing(s) /\ fd[s] # tmp => Known(payload[s]) \subseteq Known(Saved(tmp))

Covers == NamesDiffer /\ DownIsIdle /\ IdleHoldsNothing /\ MemoryCovers /\ WriterIsLater /\ TmpIsLater
IndexInv == TypeOK /\ Covers

-----------------------------------------------------------------------------
LEMMA NothingIsKnownOfNothing == Known(NoSamples) = {}
  BY DEF Known, NoSamples

LEMMA ContentTypes ==
  /\ NoSamples \in Index
  /\ Empty \in Content /\ Torn \in Content
  /\ \A index \in Index : Whole(index) \in Content
  BY DEF Content, Index, NoSamples, Empty, Torn, Whole

LEMMA WrittenOverTypes ==
  ASSUME NEW p \in Index, NEW old \in Content, NEW c \in WrittenOver(p, old)
  PROVE  c \in {Whole(p), Torn}
  BY DEF WrittenOver

(* The index of a file that loads is that of its content. *)
LEMMA SavedTypes ==
  ASSUME TypeOK, NEW i \in Inodes \cup {None}
  PROVE  Saved(i) \in Index
  BY ContentTypes DEF Saved, Loads, Content, TypeOK

LEMMA InitTypes == Init => TypeOK
  BY ContentTypes DEF Init, TypeOK, Index, NoSamples

LEMMA StepTypes == TypeOK /\ [Next]_vars => TypeOK'
<1> SUFFICES ASSUME TypeOK, [Next]_vars PROVE TypeOK'
  OBVIOUS
<1> USE DEF TypeOK, indexVars, saveVars, diskVars
<1>1. ASSUME NEW h \in Heights, Asks(h) PROVE TypeOK'
  BY <1>1 DEF Asks, Hydrate, HydrateSkips, HydrateFetches
<1>2. ASSUME NEW h \in Heights, NEW b \in Hashes, BlockArrives(h, b) PROVE TypeOK'
  <2>1. chain' \in Index
    BY <1>2 DEF BlockArrives, Index
  <2> QED BY <1>2, <2>1 DEF BlockArrives, Hydrate, HydrateSkips, HydrateFetches
<1>3. ASSUME NEW j \in Hydrations, HydrateAnswered(j) \/ HydrateEnds(j) \/ HydrateFails(j) PROVE TypeOK'
  <2>1. CASE HydrateAnswered(j)
    BY <2>1 DEF HydrateAnswered, Index
  <2>2. CASE HydrateEnds(j)
    BY <2>2 DEF HydrateEnds, Over, Index
  <2>3. CASE HydrateFails(j)
    BY <2>3 DEF HydrateFails, Over
  <2> QED BY <1>3, <2>1, <2>2, <2>3
<1>4. ASSUME NEW s \in Saves, PersistStep(s) PROVE TypeOK'
  <2>1. CASE PersistStarts(s)
    BY <2>1 DEF PersistStarts, At
  <2>2. CASE Opens(s)
    BY <2>2, ContentTypes, IndexAssumption DEF Opens, At
  <2>3. CASE Writes(s)
    <3> PICK c \in WrittenOver(payload[s], content[fd[s]]) : content' = [content EXCEPT ![fd[s]] = c]
      BY <2>3 DEF Writes
    <3>1. c \in Content
      BY <2>3, WrittenOverTypes, ContentTypes DEF Writes
    <3> QED BY <2>3, <3>1 DEF Writes, At
  <2>4. CASE Renames(s)
    BY <2>4, ContentTypes DEF Renames, At
  <2>5. CASE PersistFails(s)
    BY <2>5, ContentTypes DEF PersistFails, At
  <2> QED BY <1>4, <2>1, <2>2, <2>3, <2>4, <2>5 DEF PersistStep
<1>5. CASE Crash
  BY <1>5, ContentTypes DEF Crash
<1>6. CASE Start
  BY <1>6, SavedTypes DEF Start
<1>7. CASE UNCHANGED vars
  BY <1>7 DEF vars
<1> QED BY <1>1, <1>2, <1>3, <1>4, <1>5, <1>6, <1>7 DEF Next

(* xmr-chain-indexer.ts, its memory, its saves and its files have their     *)
(* types, and a file is open only while it is written.                       *)
THEOREM IndexerTypes == Spec => []TypeOK
  BY InitTypes, StepTypes, PTL DEF Spec

-----------------------------------------------------------------------------
LEMMA InitCovers == Init => Covers
  BY NothingIsKnownOfNothing
  DEF Init, Covers, NamesDiffer, DownIsIdle, IdleHoldsNothing, MemoryCovers, WriterIsLater, TmpIsLater, Saved, Loads,
      Writing, Active

(* What a hydration adds to memory disturbs nothing. *)
LEMMA HydrationCovers ==
  ASSUME IndexInv, UNCHANGED <<up, saveVars, diskVars>>, Known(samples) \subseteq Known(samples')
  PROVE  Covers'
  BY DEF IndexInv, Covers, NamesDiffer, DownIsIdle, IdleHoldsNothing, MemoryCovers, WriterIsLater, TmpIsLater, Saved,
         Loads, Writing, Active, saveVars, diskVars

(* A save that neither opens, writes nor renames. *)
LEMMA IdleSaveCovers ==
  ASSUME IndexInv, NEW s \in Saves, PersistStarts(s) \/ PersistFails(s)
  PROVE  Covers'
<1> USE DEF Known
<1>1. UNCHANGED <<up, samples, diskVars>> /\ (Active' => Active)
  BY DEF PersistStarts, PersistFails, indexVars, Active, At, IndexInv, TypeOK
<1>2. \A q \in Saves : Known(payload[q])' \subseteq Known(payload[q])
  BY NothingIsKnownOfNothing DEF PersistStarts, PersistFails, IndexInv, TypeOK
<1>3. \A q \in Saves : Writing(q)' => Writing(q) /\ fd[q]' = fd[q] /\ payload[q]' = payload[q]
  BY DEF PersistStarts, PersistFails, Writing, At, IndexInv, TypeOK
<1>4. Saved(file)' = Saved(file) /\ Saved(tmp)' = Saved(tmp) /\ (Loads(tmp)' <=> Loads(tmp))
  BY <1>1 DEF Saved, Loads, diskVars
<1>5. NamesDiffer' /\ DownIsIdle' /\ IdleHoldsNothing'
  BY <1>1 DEF NamesDiffer, DownIsIdle, IdleHoldsNothing, diskVars, PersistStarts, PersistFails, At, IndexInv, Covers, TypeOK
<1>6. MemoryCovers'
  BY <1>1, <1>2, <1>4 DEF MemoryCovers, IndexInv, Covers
<1>7. WriterIsLater'
  BY <1>1, <1>3, <1>4 DEF WriterIsLater, IndexInv, Covers, diskVars
<1>8. TmpIsLater'
  BY <1>1, <1>3, <1>4 DEF TmpIsLater, IndexInv, Covers, diskVars
<1> QED BY <1>5, <1>6, <1>7, <1>8 DEF Covers

(* The save that opens the temporary file is the latest: what it serialises  *)
(* covers the file and every other save, and the temporary file is empty.    *)
LEMMA OpenCovers ==
  ASSUME IndexInv, NEW s \in Saves, Opens(s)
  PROVE  Covers'
<1> USE DEF IndexInv, Known
<1>1. up
  BY DEF Opens, DownIsIdle, Covers
<1>2. PICK i \in Inodes : /\ IF tmp # None THEN i = tmp
                             ELSE i # file /\ \A q \in Saves : i # fd[q]
                          /\ fd' = [fd EXCEPT ![s] = i]
                          /\ tmp' = i
                          /\ content' = [content EXCEPT ![i] = Empty]
  BY DEF Opens
<1>3. UNCHANGED <<up, samples, file>> /\ payload' = [payload EXCEPT ![s] = samples]
  BY DEF Opens, indexVars
<1>4. i # file
  BY <1>2 DEF NamesDiffer, Covers
<1>5. Saved(file)' = Saved(file)
  BY <1>2, <1>3, <1>4 DEF Saved, Loads, TypeOK
<1>6. ~Loads(tmp)'
  BY <1>2 DEF Loads, Empty, TypeOK
<1>7. \A q \in Saves : q # s => UNCHANGED <<fd[q], payload[q], saving[q]>>
  BY <1>2, <1>3 DEF Opens, At, TypeOK
<1>8. payload[s]' = samples /\ fd[s]' = i
  BY <1>2, <1>3 DEF TypeOK
<1>9. NamesDiffer' /\ DownIsIdle' /\ IdleHoldsNothing'
  BY <1>1, <1>2, <1>3, <1>4, <1>7 DEF NamesDiffer, DownIsIdle, IdleHoldsNothing, Opens, At, Covers, TypeOK
<1>10. MemoryCovers'
  BY <1>3, <1>5, <1>7, <1>8 DEF MemoryCovers, Covers
<1>11. WriterIsLater'
  <2> SUFFICES ASSUME NEW t \in Saves, Writing(t)', fd[t]' = tmp'
               PROVE  /\ Known(Saved(file)') \subseteq Known(payload[t]')
                      /\ \A q \in Saves : Writing(q)' /\ fd[q]' # tmp' => Known(payload[q]') \subseteq Known(payload[t]')
    BY DEF WriterIsLater, Known
  <2>1. CASE t = s
    BY <1>1, <1>3, <1>5, <1>7, <1>8, <1>2, <2>1 DEF MemoryCovers, Covers
  <2>2. CASE t # s
    <3>1. fd[t] = tmp /\ tmp' = tmp /\ Writing(t)
      BY <1>2, <1>7, <2>2 DEF Writing
    <3> QED BY <1>2, <1>5, <1>7, <1>8, <2>2, <3>1 DEF WriterIsLater, Covers, Writing
  <2> QED BY <2>1, <2>2
<1>12. TmpIsLater'
  BY <1>6 DEF TmpIsLater
<1> QED BY <1>9, <1>10, <1>11, <1>12 DEF Covers

(* A file that loads after it was written holds what was written, and that   *)
(* is no less than what it held before.                                      *)
LEMMA WrittenGrows ==
  ASSUME NEW p \in Index, NEW old \in Content, NEW c \in WrittenOver(p, old), c.state = "whole"
  PROVE  /\ c.index = p
         /\ old.state = "whole" => Known(old.index) \subseteq Known(p)
<1>1. c # Torn
  BY DEF Torn
<1>2. c = Whole(p)
  BY <1>1, WrittenOverTypes
<1>3. ASSUME old.state = "whole" PROVE Known(old.index) \subseteq Known(p)
  <2>1. old.state # "empty" /\ old.state # "torn"
    BY <1>3
  <2>2. c \in {IF Known(old.index) \subseteq Known(p) THEN Whole(p) ELSE Torn}
    <3> HIDE DEF Known
    <3> QED BY <2>1, ZenonT(30) DEF WrittenOver
  <2> QED BY <1>1, <2>2
<1> QED BY <1>2, <1>3 DEF Whole

(* What a write does to the named files. *)
LEMMA WriteEffects ==
  ASSUME TypeOK, NEW s \in Saves, Writes(s)
  PROVE  /\ UNCHANGED <<up, samples, tmp, file, payload>>
         /\ \A q \in Saves : Writing(q)' => Writing(q) /\ fd[q]' = fd[q]
         /\ Writing(s) /\ fd[s] \in Inodes /\ payload[s] \in Index /\ content[fd[s]] \in Content
         /\ saving' = [saving EXCEPT ![s] = "rename"]
         /\ \E c \in WrittenOver(payload[s], content[fd[s]]) :
              content' = [content EXCEPT ![fd[s]] = c]
  BY DEF Writes, At, indexVars, TypeOK, Writing

LEMMA WriteContents ==
  ASSUME TypeOK, NEW s \in Saves, Writes(s), NEW i \in Inodes
  PROVE  IF i = fd[s]
         THEN content'[i].state = "whole" =>
                /\ content'[i].index = payload[s]
                /\ content[i].state = "whole" => Known(content[i].index) \subseteq Known(payload[s])
         ELSE content'[i] = content[i]
<1> PICK c \in WrittenOver(payload[s], content[fd[s]]) : content' = [content EXCEPT ![fd[s]] = c]
  BY WriteEffects
<1>1. CASE i = fd[s]
  <2>1. content'[i] = c
    BY <1>1 DEF TypeOK
  <2>2. c.state = "whole" =>
          /\ c.index = payload[s]
          /\ content[fd[s]].state = "whole" => Known(content[fd[s]].index) \subseteq Known(payload[s])
    BY WriteEffects, WrittenGrows
  <2> QED BY <1>1, <2>1, <2>2
<1>2. CASE i # fd[s]
  BY <1>2 DEF TypeOK
<1> QED BY <1>1, <1>2

(* The same of the index and of the temporary file. *)
LEMMA WriteSaved ==
  ASSUME TypeOK, NEW s \in Saves, Writes(s)
  PROVE  /\ fd[s] = tmp => (Loads(tmp)' => Saved(tmp)' = payload[s])
         /\ fd[s] # tmp => Saved(tmp)' = Saved(tmp) /\ (Loads(tmp)' <=> Loads(tmp))
         /\ fd[s] = file => (Loads(file)' => Saved(file)' = payload[s])
         /\ fd[s] # file => Saved(file)' = Saved(file)
         /\ ~Loads(file)' => Saved(file)' = NoSamples
  BY WriteEffects, WriteContents DEF Saved, Loads, TypeOK

LEMMA WriteCovers ==
  ASSUME IndexInv, NEW s \in Saves, Writes(s)
  PROVE  Covers'
<1> USE DEF IndexInv, Known
<1>1. UNCHANGED <<up, samples, tmp, file, payload>> /\ Writing(s)
  BY WriteEffects
<1>2. \A q \in Saves : Writing(q)' => Writing(q) /\ fd[q]' = fd[q]
  BY WriteEffects
<1>3. up /\ Active
  BY <1>1 DEF DownIsIdle, Covers, Active, Writing
<1>4. fd[s] = file => Known(Saved(file)') \subseteq Known(payload[s])
  <2>1. Known(NoSamples) = {}
    BY NothingIsKnownOfNothing
  <2> QED BY <2>1, WriteSaved
<1>5. NamesDiffer' /\ DownIsIdle' /\ IdleHoldsNothing'
  BY <1>1, <1>3, WriteEffects DEF NamesDiffer, DownIsIdle, IdleHoldsNothing, Covers, TypeOK
<1>6. MemoryCovers'
  BY <1>1, <1>3, <1>4, WriteSaved DEF MemoryCovers, Covers
<1>7. WriterIsLater'
  <2> SUFFICES ASSUME NEW t \in Saves, Writing(t)', fd[t]' = tmp'
               PROVE  /\ Known(Saved(file)') \subseteq Known(payload[t]')
                      /\ \A q \in Saves : Writing(q)' /\ fd[q]' # tmp' => Known(payload[q]') \subseteq Known(payload[t]')
    BY DEF WriterIsLater
  <2>1. Writing(t) /\ fd[t] = tmp /\ tmp # file
    BY <1>1, <1>2, WriteEffects DEF NamesDiffer, Covers, TypeOK, Writing
  <2>2. Known(Saved(file)) \subseteq Known(payload[t])
    BY <2>1 DEF WriterIsLater, Covers
  <2>3. \A q \in Saves : Writing(q) /\ fd[q] # tmp => Known(payload[q]) \subseteq Known(payload[t])
    BY <2>1 DEF WriterIsLater, Covers
  <2>4. Known(Saved(file)') \subseteq Known(payload[t])
    BY <1>1, <1>4, <2>1, <2>2, <2>3, WriteSaved
  <2> QED BY <1>1, <1>2, <2>3, <2>4
<1>8. TmpIsLater'
  <2> SUFFICES ASSUME Loads(tmp)'
               PROVE  /\ Known(Saved(file)') \subseteq Known(Saved(tmp)')
                      /\ Known(Saved(tmp)') \subseteq Known(samples')
                      /\ \A q \in Saves : Writing(q)' /\ fd[q]' # tmp' => Known(payload[q]') \subseteq Known(Saved(tmp)')
    BY DEF TmpIsLater
  <2>1. CASE fd[s] = tmp
    <3>1. Saved(tmp)' = payload[s] /\ Saved(file)' = Saved(file)
      BY <2>1, WriteSaved, WriteEffects, IndexAssumption DEF NamesDiffer, Covers
    <3>2. Known(Saved(file)) \subseteq Known(payload[s])
      BY <1>1, <2>1 DEF WriterIsLater, Covers
    <3>3. \A q \in Saves : Writing(q) /\ fd[q] # tmp => Known(payload[q]) \subseteq Known(payload[s])
      BY <1>1, <2>1 DEF WriterIsLater, Covers
    <3>4. Known(payload[s]) \subseteq Known(samples)
      BY <1>3 DEF MemoryCovers, Covers
    <3> QED BY <1>1, <1>2, <3>1, <3>2, <3>3, <3>4
  <2>2. CASE fd[s] # tmp
    <3>1. Saved(tmp)' = Saved(tmp) /\ Loads(tmp)
      BY <2>2, WriteSaved
    <3>2. /\ Known(Saved(file)) \subseteq Known(Saved(tmp))
          /\ Known(Saved(tmp)) \subseteq Known(samples)
      BY <1>3, <3>1 DEF TmpIsLater, Covers
    <3>3. \A q \in Saves : Writing(q) /\ fd[q] # tmp => Known(payload[q]) \subseteq Known(Saved(tmp))
      BY <1>3, <3>1 DEF TmpIsLater, Covers
    <3>4. Known(Saved(file)') \subseteq Known(Saved(tmp))
      BY <1>1, <1>4, <2>2, <3>2, <3>3, WriteSaved
    <3> QED BY <1>1, <1>2, <3>1, <3>2, <3>3, <3>4
  <2> QED BY <2>1, <2>2
<1> QED BY <1>5, <1>6, <1>7, <1>8 DEF Covers

(* The temporary file becomes the index. *)
LEMMA RenameSaved ==
  ASSUME IndexInv, NEW s \in Saves, Renames(s)
  PROVE  /\ up /\ Active
         /\ Saved(file)' = Saved(tmp)
         /\ Loads(file)' <=> Loads(tmp)
<1>1. up /\ Active
  BY DEF Renames, IndexInv, Covers, DownIsIdle, Active
<1>2. file' = tmp /\ content' = content
  BY DEF Renames
<1> QED BY <1>1, <1>2 DEF Saved, Loads

LEMMA RenameCovers ==
  ASSUME IndexInv, NEW s \in Saves, Renames(s)
  PROVE  Covers'
<1> USE DEF IndexInv, Known
<1>1. UNCHANGED <<up, samples, fd>> /\ tmp' = None
  BY DEF Renames
<1>2. NamesDiffer' /\ DownIsIdle' /\ IdleHoldsNothing'
  BY <1>1, RenameSaved DEF NamesDiffer, DownIsIdle, IdleHoldsNothing, Renames, At, Covers, TypeOK
<1>3. MemoryCovers'
  <2>1. Known(Saved(file)') \subseteq Known(samples)
    <3>1. CASE Loads(tmp)
      BY <3>1, RenameSaved DEF TmpIsLater, Covers
    <3>2. CASE ~Loads(tmp)
      BY <3>2, RenameSaved, NothingIsKnownOfNothing DEF Saved
    <3> QED BY <3>1, <3>2
  <2>2. \A q \in Saves : Known(payload'[q]) \subseteq Known(payload[q])
    BY NothingIsKnownOfNothing DEF Renames, TypeOK
  <2> QED BY <1>1, <2>1, <2>2, RenameSaved DEF MemoryCovers, Covers
<1>4. WriterIsLater'
  <2>1. \A t \in Saves : Writing(t)' => fd[t]' # tmp'
    BY <1>1, IndexAssumption DEF Renames, At, Writing, TypeOK
  <2> QED BY <2>1 DEF WriterIsLater
<1>5. TmpIsLater'
  BY <1>1 DEF TmpIsLater, Loads
<1> QED BY <1>2, <1>3, <1>4, <1>5 DEF Covers

(* A crash ends every save, and the next start reads what the file holds. *)
LEMMA CrashCovers ==
  ASSUME IndexInv, Crash
  PROVE  Covers'
<1>1. ~up' /\ UNCHANGED <<tmp, file>> /\ \A s \in Saves : saving'[s] = "idle" /\ payload'[s] = NoSamples
  BY DEF Crash, diskVars
<1> QED BY <1>1 DEF IndexInv, Covers, NamesDiffer, DownIsIdle, IdleHoldsNothing, MemoryCovers,
                    WriterIsLater, TmpIsLater, Writing, Active

LEMMA StartCovers ==
  ASSUME IndexInv, Start
  PROVE  Covers'
<1> USE DEF IndexInv, Known
<1>1. UNCHANGED <<saving, payload, fd, tmp, file, content>> /\ samples' = Saved(file)
  BY DEF Start, saveVars, diskVars
<1>2. \A s \in Saves : saving'[s] = "idle"
  BY <1>1 DEF Start, DownIsIdle, Covers
<1>3. NamesDiffer' /\ DownIsIdle' /\ IdleHoldsNothing'
  BY <1>1, <1>2 DEF NamesDiffer, DownIsIdle, IdleHoldsNothing, Covers
<1>4. WriterIsLater' /\ TmpIsLater'
  BY <1>2 DEF WriterIsLater, TmpIsLater, Writing, Active
<1>5. MemoryCovers'
  <2>1. Saved(file)' = Saved(file)
    BY <1>1 DEF Saved, Loads
  <2>2. \A s \in Saves : Known(payload[s]) = {}
    BY NothingIsKnownOfNothing DEF Start, IdleHoldsNothing, DownIsIdle, Covers
  <2> QED BY <1>1, <2>1, <2>2 DEF MemoryCovers
<1> QED BY <1>3, <1>4, <1>5 DEF Covers

-----------------------------------------------------------------------------
HydrationStep ==
  \/ \E h \in Heights : Asks(h) \/ \E b \in Hashes : BlockArrives(h, b)
  \/ \E j \in Hydrations : HydrateAnswered(j) \/ HydrateEnds(j) \/ HydrateFails(j)

(* A hydration never takes a height out of memory. *)
LEMMA HydrationGrows ==
  ASSUME TypeOK, HydrationStep
  PROVE  UNCHANGED <<up, saveVars, diskVars>> /\ Known(samples) \subseteq Known(samples')
<1>1. ASSUME NEW h \in Heights, Asks(h) \/ \E b \in Hashes : BlockArrives(h, b)
      PROVE  UNCHANGED <<up, saveVars, diskVars>> /\ samples' = samples
  BY <1>1 DEF Asks, BlockArrives, Hydrate, HydrateSkips, HydrateFetches, indexVars
<1>2. ASSUME NEW j \in Hydrations, HydrateAnswered(j) \/ HydrateFails(j)
      PROVE  UNCHANGED <<up, saveVars, diskVars>> /\ samples' = samples
  BY <1>2 DEF HydrateAnswered, HydrateFails
<1>3. ASSUME NEW j \in Hydrations, HydrateEnds(j)
      PROVE  UNCHANGED <<up, saveVars, diskVars>> /\ Known(samples) \subseteq Known(samples')
  BY <1>3 DEF HydrateEnds, Known, TypeOK, Index
<1> QED BY <1>1, <1>2, <1>3 DEF HydrationStep, Known

LEMMA StepIsOneOf ==
  ASSUME Next
  PROVE  HydrationStep \/ (\E s \in Saves : PersistStep(s)) \/ Crash \/ Start
  BY DEF Next, HydrationStep

LEMMA StepCovers == IndexInv /\ [Next]_vars => IndexInv'
<1> SUFFICES ASSUME IndexInv, [Next]_vars PROVE Covers'
  BY StepTypes DEF IndexInv
<1>1. CASE HydrationStep
  BY <1>1, HydrationGrows, HydrationCovers DEF IndexInv
<1>2. ASSUME NEW s \in Saves, PersistStep(s) PROVE Covers'
  BY <1>2, IdleSaveCovers, OpenCovers, WriteCovers, RenameCovers DEF PersistStep
<1>3. CASE Crash
  BY <1>3, CrashCovers
<1>4. CASE Start
  BY <1>4, StartCovers
<1>5. CASE UNCHANGED vars
  BY <1>5, HydrationCovers DEF vars, indexVars, Known
<1> QED BY <1>1, <1>2, <1>3, <1>4, <1>5, StepIsOneOf

(* Memory covers the index on disk, and the temporary file and the saves     *)
(* under way are ordered by what they know: the indexer's inductive invariant.*)
THEOREM IndexInvariant == Spec => []IndexInv
<1>1. Init => IndexInv
  BY InitTypes, InitCovers DEF IndexInv
<1> QED BY <1>1, StepCovers, PTL DEF Spec

LEMMA NoStepShrinks ==
  ASSUME IndexInv, [Next]_vars
  PROVE  Loads(file) /\ Loads(file)' => Known(Saved(file)) \subseteq Known(Saved(file)')
<1> SUFFICES ASSUME Loads(file), Loads(file)'
             PROVE  Known(Saved(file)) \subseteq Known(Saved(file)')
  OBVIOUS
<1> USE DEF IndexInv, Known
<1>1. ASSUME UNCHANGED diskVars
      PROVE  Known(Saved(file)) \subseteq Known(Saved(file)')
  <2>1. Saved(file)' = Saved(file)
    BY <1>1 DEF diskVars, Saved, Loads
  <2> QED BY <2>1
<1>2. ASSUME NEW s \in Saves, Opens(s)
      PROVE  Known(Saved(file)) \subseteq Known(Saved(file)')
  <2> PICK i \in Inodes : /\ IF tmp # None THEN i = tmp
                             ELSE i # file /\ \A q \in Saves : i # fd[q]
                          /\ content' = [content EXCEPT ![i] = Empty]
    BY <1>2 DEF Opens
  <2>1. i # file /\ file' = file
    BY <1>2 DEF NamesDiffer, Covers, Opens
  <2>2. Saved(file)' = Saved(file)
    BY <2>1 DEF Saved, Loads, TypeOK
  <2> QED BY <2>2
<1>3. ASSUME NEW s \in Saves, Writes(s)
      PROVE  Known(Saved(file)) \subseteq Known(Saved(file)')
  <2>1. CASE fd[s] = file
    <3>1. Saved(file)' = payload[s]
      BY <1>3, <2>1, WriteSaved
    <3>2. Known(content[file].index) \subseteq Known(payload[s])
      BY <1>3, <2>1, WriteContents, WriteEffects DEF Loads
    <3> QED BY <3>1, <3>2 DEF Saved
  <2>2. CASE fd[s] # file
    BY <1>3, <2>2, WriteSaved
  <2> QED BY <2>1, <2>2
<1>4. ASSUME NEW s \in Saves, Renames(s)
      PROVE  Known(Saved(file)) \subseteq Known(Saved(file)')
  BY <1>4, RenameSaved DEF TmpIsLater, Covers
<1>5. ASSUME NEW s \in Saves, PersistStarts(s) \/ PersistFails(s)
      PROVE  UNCHANGED diskVars
  BY <1>5 DEF PersistStarts, PersistFails
<1>6. CASE HydrationStep
  BY <1>1, <1>6, HydrationGrows
<1>7. CASE Crash \/ Start
  BY <1>1, <1>7 DEF Crash, Start
<1>8. CASE UNCHANGED vars
  BY <1>1, <1>8 DEF vars
<1> QED BY <1>1, <1>2, <1>3, <1>4, <1>5, <1>6, <1>7, <1>8, StepIsOneOf DEF PersistStep

(* persist(): whatever saves overlap, fail or die with the process, an index *)
(* that loads is only ever replaced by one that knows at least its heights.  *)
THEOREM SavesOnlyGrow == Spec => SavesNeverShrink
<1>1. IndexInv /\ [Next]_vars => [Loads(file) /\ Loads(file)' => Known(Saved(file)) \subseteq Known(Saved(file)')]_vars
  BY NoStepShrinks
<1> QED BY <1>1, IndexInvariant, PTL DEF Spec, SavesNeverShrink
=============================================================================
