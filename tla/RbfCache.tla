------------------------------ MODULE RbfCache ------------------------------
(***************************************************************************)
(* RbfCache (api/rbf-cache.ts): which transaction replaced which, as trees *)
(* that are named by their newest transaction.  Its maps are the record    *)
(* rbf; a tree is a function from its transactions to the ones each of     *)
(* them replaced.  The callers are the update of the mempool and the block *)
(* that is applied to it; the timer of cleanup() may fire between any two  *)
(* steps.  What the pages are told of a tree (fees, times, mined) is left  *)
(* out.                                                                    *)
(***************************************************************************)
EXTENDS Integers, Sequences, FiniteSets, SequencesExt

CONSTANTS Spent,       \* the outputs each transaction spends; a later one pays more
          Window,      \* updates in recentlyDeleted
          MaxMoves,    \* bound: updates and blocks
          MaxRestarts  \* bound

VARIABLES mempool,     \* mempoolCache
          spends,      \* the transactions in the spend map
          gone,        \* recentlyDeleted, the last update first
          confirmed,   \* mined transactions
          rbf,         \* the maps of the cache
          disk,        \* the copy of the cache, with the blocks handled before it
          moves, restarts,
          adrift       \* history: found by the node at a restart, not in mempoolCache

vars == <<mempool, spends, gone, confirmed, rbf, disk, moves, restarts, adrift>>

Txs == DOMAIN Spent
Conflict(t, u) == t # u /\ Spent[t] \cap Spent[u] # {}
Compatible(S) == \A t, u \in S : ~Conflict(t, u)
Mempools == {S \in SUBSET Txs : Compatible(S)}
Without(f, S) == [x \in DOMAIN f \ S |-> f[x]]

NoTrees == [txs |-> {}, replacedBy |-> <<>>, replaces |-> <<>>, rbfTrees |-> <<>>,
            treeMap |-> <<>>, expiring |-> {}]

(* dump *)
Dump(r) == [txs |-> r.txs, trees |-> r.rbfTrees, expiring |-> r.expiring]
NoDisk == [confirmed |-> {}, rbf |-> Dump(NoTrees)]

Init ==
  /\ mempool \in Mempools /\ spends = mempool
  /\ gone = <<>> /\ confirmed = {} /\ rbf = NoTrees
  /\ disk = NoDisk /\ moves = 0 /\ restarts = 0 /\ adrift = {}

-----------------------------------------------------------------------------
Over(f, g) == [x \in DOMAIN f \cup DOMAIN g |-> IF x \in DOMAIN f THEN f[x] ELSE g[x]]
Each(S, v) == [x \in S |-> v]
(* Trees have no transaction in common. *)
Join(trees) == [t \in UNION {DOMAIN tree : tree \in trees} |-> (CHOOSE tree \in trees : t \in DOMAIN tree)[t]]

(* add: the trees of the replaced transactions become one, below t. *)
Add(r, replaced, t) ==
  LET fresh == replaced \ DOMAIN r.replacedBy
      ids == {r.treeMap[u] : u \in fresh \cap DOMAIN r.treeMap}
      news == fresh \ DOMAIN r.treeMap
      roots == (ids \cap DOMAIN r.rbfTrees) \cup news
      below == Over(Each(news, {}), Join({r.rbfTrees[i] : i \in ids \cap DOMAIN r.rbfTrees}))
      tree == Over(Each({t}, roots), below)
  IN IF t \in r.txs \/ fresh = {} THEN r
     ELSE [r EXCEPT !.txs = @ \cup {t} \cup news,
                    !.replacedBy = Over(Each(fresh, t), @),
                    !.replaces = Over(Each({t}, roots), @),
                    !.rbfTrees = Over(Each({t}, tree), Without(@, ids)),
                    !.treeMap = Over(Each(DOMAIN tree, t), @)]
(* add for each t of S in turn, in their order. *)
AddEach(r, S, replaced) ==
  MapThenFoldSet(LAMBDA t, q : Add(q, replaced[t], t), r, LAMBDA t : t, Max, S)

(* evict, and mined, which also marks the tree. *)
Evict(r, S) == [r EXCEPT !.expiring = @ \cup (S \cap r.txs)]
Mined_Kept(r, t) == r
Mined(r, t) == Evict(r, {t})

Back(r, A) == A \cup UNION {r.replaces[t] : t \in A \cap DOMAIN r.replaces}
Versions(r, S) ==
  LET N == Cardinality(r.txs)
      reached[i \in 0..N] == IF i = 0 THEN S ELSE Back(r, reached[i - 1])
  IN reached[N]
Removable_Any(r, S) == S
(* remove: not while a newer version remains. *)
Removable(r, S) == S \ DOMAIN r.replacedBy
(* cleanup, for the expired S: each goes with all its previous versions. *)
CleanUp(r, S) ==
  LET out == Versions(r, Removable(r, S))
  IN [txs |-> r.txs \ out,
      replacedBy |-> Without(r.replacedBy, UNION {r.replaces[t] : t \in out \cap DOMAIN r.replaces}),
      replaces |-> Without(r.replaces, out),
      rbfTrees |-> Without(r.rbfTrees, {t \in out \cap DOMAIN r.treeMap : r.treeMap[t] = t}),
      treeMap |-> Without(r.treeMap, out),
      expiring |-> r.expiring \ (S \cup out)]

(* The first part of load: importTree. *)
Import(d) ==
  LET known == {i \in DOMAIN d.trees : i \in d.txs}
      all == Join({d.trees[i] : i \in known})
      olds == UNION {all[t] : t \in DOMAIN all}
  IN [txs |-> d.txs,
      replacedBy |-> [u \in olds |-> CHOOSE t \in DOMAIN all : u \in all[t]],
      replaces |-> all,
      rbfTrees |-> [i \in known |-> d.trees[i]],
      treeMap |-> [u \in DOMAIN all |-> CHOOSE i \in known : u \in DOMAIN d.trees[i]],
      expiring |-> d.expiring \cap d.txs]

-----------------------------------------------------------------------------
(* handleMempoolChange: findRbfTransactions, handleRbfTransactions, evict. *)
AddAll(r, added, deleted) ==
  AddEach(r, added, [t \in added |-> {u \in deleted : u < t /\ Conflict(t, u)}])
Update(added, deleted) ==
  /\ added \cup deleted # {}
  /\ moves < MaxMoves /\ moves' = moves + 1
  /\ added \cap (mempool \cup confirmed) = {}
  /\ deleted \subseteq mempool
  /\ Compatible((mempool \ deleted) \cup added)
  /\ \A t \in added, u \in confirmed : ~Conflict(t, u)
  /\ gone' = SubSeq(<<deleted>> \o gone, 1, IF Len(gone) < Window THEN Len(gone) + 1 ELSE Window)
  /\ rbf' = Evict(AddAll(rbf, added, UNION ToSet(gone')), deleted)
  /\ mempool' = (mempool \ deleted) \cup added
  /\ spends' = (spends \ deleted) \cup added
  /\ adrift' = adrift \ added
  /\ UNCHANGED <<confirmed, disk, restarts>>

(* $applyBlockTransactionsToMempool: findMinedRbfTransactions takes what the
   mined transactions conflict with out of the spend map; it leaves the
   mempool with the next update. *)
Block(t) ==
  LET replaced == {u \in spends : Conflict(t, u)}
  IN
  /\ moves < MaxMoves /\ moves' = moves + 1
  /\ t \notin confirmed
  /\ \A u \in confirmed : ~Conflict(t, u)
  /\ rbf' = Mined(Add(rbf, replaced, t), t)
  /\ mempool' = mempool \ {t}
  /\ spends' = spends \ (replaced \cup {t})
  /\ confirmed' = confirmed \cup {t}
  /\ UNCHANGED <<gone, disk, restarts, adrift>>

(* The timer: any of the entries may have expired. *)
Expires(S) ==
  /\ rbf' = CleanUp(rbf, S)
  /\ adrift' = adrift \cap rbf'.txs
  /\ UNCHANGED <<mempool, spends, gone, confirmed, disk, moves, restarts>>

Saves ==
  /\ restarts < MaxRestarts /\ disk.rbf.txs = {}
  /\ disk' = [confirmed |-> confirmed, rbf |-> Dump(rbf)]
  /\ UNCHANGED <<mempool, spends, gone, confirmed, rbf, moves, restarts, adrift>>

(* A restart: the mempool on disk is of another moment than the trees, load
   connects their roots with it, and checkTrees asks the node for what does
   not expire.  Blocks since the copy was written are handled again. *)
Reconnect(r, loaded) ==
  AddEach(r, loaded, [t \in loaded |-> {i \in DOMAIN r.rbfTrees : Conflict(i, t)}])
CheckTrees(r, found) == Evict(r, r.txs \ (r.expiring \cup found))
Restart(loaded, found) ==
  LET r == Reconnect(Import(disk.rbf), loaded)
  IN
  /\ restarts < MaxRestarts
  /\ restarts' = restarts + 1
  /\ mempool' = loaded /\ spends' = loaded /\ gone' = <<>>
  /\ rbf' = CheckTrees(r, found)
  /\ adrift' = (found \ loaded) \cap (rbf'.txs \ r.expiring)
  /\ confirmed' = disk.confirmed /\ disk' = NoDisk
  /\ UNCHANGED moves

Next ==
  \/ \E added, deleted \in SUBSET Txs : Update(added, deleted)
  \/ \E t \in Txs : Block(t)
  \/ \E t \in rbf.expiring : Expires({t})
  \/ Saves
  \/ \E loaded \in Mempools :
       \E found \in SUBSET ((disk.rbf.txs \cup loaded) \ disk.rbf.expiring) : Restart(loaded, found)
Spec == Init /\ [][Next]_vars

-----------------------------------------------------------------------------
(* The invariants that the comment of the class asks for.  Completeness: what
   replaced something or was replaced is in treeMap.  Symmetry: replacedBy
   and replaces say the same.  Unique id and unique tree: treeMap sends a
   transaction and the one it replaced to one name, and that name to itself.
   Existence: there is a tree of that name, and it holds just what treeMap
   sends there. *)
TreesAreConsistent ==
  LET r == rbf
      same(t, u) == {t, u} \subseteq DOMAIN r.treeMap /\ r.treeMap[t] = r.treeMap[u]
  IN /\ DOMAIN r.replacedBy \cup DOMAIN r.replaces \subseteq DOMAIN r.treeMap
     /\ \A t, u \in Txs : (t \in DOMAIN r.replaces /\ u \in r.replaces[t])
                          <=> (u \in DOMAIN r.replacedBy /\ r.replacedBy[u] = t)
     /\ \A t \in DOMAIN r.treeMap : same(t, r.treeMap[t])
     /\ \A u \in DOMAIN r.replacedBy : same(u, r.replacedBy[u])
     /\ \A t \in DOMAIN r.treeMap : r.treeMap[t] \in DOMAIN r.rbfTrees
     /\ \A i \in DOMAIN r.rbfTrees :
          DOMAIN r.rbfTrees[i] = {t \in DOMAIN r.treeMap : r.treeMap[t] = i}

(* No tree outlives its transactions: its newest one is in the mempool, or it
   has a date at which it goes. *)
NoTreeLingers == DOMAIN rbf.rbfTrees \subseteq mempool \cup rbf.expiring \cup adrift
=============================================================================
