----------------------------- MODULE MemoryCache -----------------------------
(***************************************************************************)
(* backend/src/api/memory-cache.ts: one list of entries, each with an      *)
(* expiry.  set() appends, get() takes the first entry of its identifier   *)
(* whatever its expiry, cleanup() runs once a second.                      *)
(***************************************************************************)
EXTENDS Selection

CONSTANT Missing

Set(cache, id, data, seconds, now) ==
  Append(cache, [id |-> id, data |-> data, expires |-> now + seconds])

Get(cache, id) ==
  LET found == {i \in DOMAIN cache : cache[i].id = id}
  IN IF found = {} THEN Missing ELSE cache[CHOOSE i \in found : \A j \in found : i <= j].data

CleanUp_FromTheFront(cache, now) ==  \* a bug: taken for a list in the order of expiry
  LET live == {i \in DOMAIN cache : cache[i].expires > now}
  IN SubSeq(cache, IF live = {} THEN Len(cache) + 1 ELSE CHOOSE i \in live : \A j \in live : i <= j,
            Len(cache))
CleanUp(cache, now) == Selected(cache, {i \in DOMAIN cache : cache[i].expires > now})
=============================================================================
