---------------------------- MODULE PriceHistory ----------------------------
(***************************************************************************)
(* The stores of backend/src/api/monero/xmr-price.ts: hourly prices go to  *)
(* a database with a file behind it, or to the file alone, and are looked  *)
(* up there.  A point is an hour and a currency known in it; the value of a*)
(* price is left out.                                                      *)
(***************************************************************************)
EXTENDS Integers, FiniteSets

CONSTANTS
  Savers,   \* bound: the saveMany() calls at a time
  Batches,  \* what may be saved: sets of points
  Inodes,   \* bound: files on disk, named or still open
  Tolerance,  \* NEAREST_PRICE_TOLERANCE_SECONDS, in hours
  Nothing

VARIABLES
  hasDb,       \* isDatabaseEnabled()
  at,          \* at[s]: idle, db, load, write, rename
  batch,       \* batch[s]: what s was called with
  rows,        \* rows[s]: hours s has yet to insert, or the points it writes
  fd,          \* fd[s]: the file s has open
  db,          \* points of the table
  tmp, file,   \* the files of these names, Nothing
  content,     \* content[i]: the points in it; Nothing if it does not parse
  alone,       \* history: no two calls have been at the file at a time
  saved        \* history: the points whose saveMany() has returned

saverVars == <<at, batch, rows, fd>>
diskVars == <<tmp, file, content>>
vars == <<hasDb, saverVars, db, diskVars, alone, saved>>

Hours(points) == {p[1] : p \in points}
At(s, step) == at' = [at EXCEPT ![s] = step]
Stored == IF file = Nothing THEN {} ELSE content[file]
AtFile(s) == at[s] \in {"load", "write", "rename"}

Init ==
  /\ hasDb \in BOOLEAN
  /\ at = [s \in Savers |-> "idle"]
  /\ batch = [s \in Savers |-> {}] /\ rows = [s \in Savers |-> {}]
  /\ fd = [s \in Savers |-> Nothing]
  /\ db = {}
  /\ tmp = Nothing /\ file = Nothing
  /\ content = [i \in Inodes |-> Nothing]
  /\ alone = TRUE
  /\ saved = {}

-----------------------------------------------------------------------------
Save(s, points) ==
  /\ at[s] = "idle"
  /\ At(s, IF hasDb THEN "db" ELSE "load")
  /\ batch' = [batch EXCEPT ![s] = points]
  /\ rows' = [rows EXCEPT ![s] = Hours(points)]
  /\ alone' = (alone /\ (hasDb \/ \A t \in Savers : ~AtFile(t)))
  /\ UNCHANGED <<hasDb, fd, db, diskVars, saved>>

(* The call is over: with the points saved, or with a warning. *)
Returns(s, points) ==
  /\ At(s, "idle")
  /\ batch' = [batch EXCEPT ![s] = {}] /\ rows' = [rows EXCEPT ![s] = {}]
  /\ fd' = [fd EXCEPT ![s] = Nothing]
  /\ saved' = saved \cup points

(* MysqlXmrPriceStore.saveMany: the row of an hour is replaced as a whole. *)
InsertsRow(s) ==
  /\ at[s] = "db"
  /\ LET hour == CHOOSE h \in rows[s] : \A g \in rows[s] : h <= g
     IN /\ db' = {p \in db : p[1] # hour} \cup {p \in batch[s] : p[1] = hour}
        /\ IF rows[s] = {hour}
           THEN Returns(s, batch[s])
           ELSE /\ rows' = [rows EXCEPT ![s] = @ \ {hour}]
                /\ UNCHANGED <<at, batch, fd, saved>>
  /\ UNCHANGED <<hasDb, diskVars, alone>>

DbFails_Swallowed(s) ==  \* a bug: the fallback is forgotten
  /\ at[s] = "db"
  /\ Returns(s, batch[s])
  /\ UNCHANGED <<hasDb, db, diskVars, alone>>
(* FallbackXmrPriceStore.saveMany *)
DbFails(s) ==
  /\ at[s] = "db"
  /\ At(s, "load")
  /\ alone' = (alone /\ \A t \in Savers : ~AtFile(t))
  /\ UNCHANGED <<hasDb, batch, rows, fd, db, diskVars, saved>>

Merge(old, new) == old \cup new
(* FileXmrPriceStore.saveMany up to writeFile(), which creates the temporary
   file or truncates it. *)
Opens(s) ==
  /\ at[s] = "load"
  /\ Stored # Nothing
  /\ rows' = [rows EXCEPT ![s] = Merge(Stored, batch[s])]
  /\ tmp' = IF tmp = Nothing
            THEN CHOOSE i \in Inodes : i # file /\ \A t \in Savers : fd[t] # i
            ELSE tmp
  /\ content' = [content EXCEPT ![tmp'] = Nothing]
  /\ fd' = [fd EXCEPT ![s] = tmp']
  /\ At(s, "write")
  /\ UNCHANGED <<hasDb, batch, db, file, alone, saved>>

(* The file does not parse. *)
LoadFails(s) ==
  /\ at[s] = "load"
  /\ Stored = Nothing
  /\ Returns(s, {})
  /\ UNCHANGED <<hasDb, db, diskVars, alone>>

(* What is written to a file that was replaced meanwhile is lost. *)
Writes(s) ==
  /\ at[s] = "write"
  /\ content' = [i \in Inodes |-> IF i = fd[s] /\ i \in {tmp, file} THEN rows[s] ELSE content[i]]
  /\ fd' = [fd EXCEPT ![s] = Nothing]
  /\ At(s, "rename")
  /\ UNCHANGED <<hasDb, batch, rows, db, tmp, file, alone, saved>>

Renames(s) ==
  /\ at[s] = "rename"
  /\ tmp # Nothing
  /\ file' = tmp /\ tmp' = Nothing
  /\ content' = [i \in Inodes |-> IF i = file THEN Nothing ELSE content[i]]
  /\ Returns(s, batch[s])
  /\ UNCHANGED <<hasDb, db, alone>>

(* The disk is full, or the name is gone. *)
FileFails(s) ==
  /\ at[s] \in {"write", "rename"}
  /\ Returns(s, {})
  /\ UNCHANGED <<hasDb, db, diskVars, alone>>

Crash ==
  /\ \E s \in Savers : at[s] # "idle"
  /\ at' = [s \in Savers |-> "idle"]
  /\ batch' = [s \in Savers |-> {}] /\ rows' = [s \in Savers |-> {}]
  /\ fd' = [s \in Savers |-> Nothing]
  /\ UNCHANGED <<hasDb, db, diskVars, alone, saved>>

Step(s) ==
  \/ \E points \in Batches : Save(s, points)
  \/ InsertsRow(s) \/ DbFails(s) \/ Opens(s) \/ LoadFails(s)
  \/ Writes(s) \/ Renames(s) \/ FileFails(s)
Next == Crash \/ \E s \in Savers : Step(s)
Spec == Init /\ [][Next]_vars

-----------------------------------------------------------------------------
(* nearestPrice, and the query of MysqlXmrPriceStore.findNearest: the points
   of the nearest hour within the tolerance.  Of two at one distance the file
   has the earlier one, the database either. *)
Distance(g, h) == IF g < h THEN h - g ELSE g - h
NearestOf(points, hour) ==
  LET near == {h \in Hours(points) : Distance(h, hour) <= Tolerance}
      nearest == CHOOSE h \in near : \A g \in near :
                   \/ Distance(h, hour) < Distance(g, hour)
                   \/ Distance(h, hour) = Distance(g, hour) /\ h <= g
  IN IF near = {} THEN {} ELSE {p \in points : p[1] = nearest}

(* FallbackXmrPriceStore.findNearest: the file is asked only when the database
   fails or has no hour near; and what findStoredXmrPrice makes of a file that
   does not parse.  No price is the empty set. *)
FindNearest(hour, answers) ==
  LET row == IF hasDb /\ answers THEN NearestOf(db, hour) ELSE {}
  IN IF row # {} THEN row
     ELSE IF Stored = Nothing THEN {} ELSE NearestOf(Stored, hour)

(* Whoever asks for an hour that was saved gets a price, after failed
   statements and crashes and whatever saves overlap at the database, as long
   as they do not at the file: that hour's own when the database has it; when
   only the file has it, its own while the database is away or has no hour
   near, for a near row hides the file (xmr-price.ts:311); and without a
   database every currency that arrived for it. *)
HoursAreFound ==
  alone => \A t \in Hours(saved) :
    /\ FindNearest(t, TRUE) # {}
    /\ t \in Hours(db) /\ hasDb => t \in Hours(FindNearest(t, TRUE))
    /\ t \notin Hours(db) => /\ t \in Hours(FindNearest(t, FALSE))
                             /\ NearestOf(db, t) = {} => t \in Hours(FindNearest(t, TRUE))
    /\ ~hasDb => {p \in saved : p[1] = t} \subseteq FindNearest(t, TRUE)
=============================================================================
