---------------------------- MODULE SpanningForest ----------------------------
(***************************************************************************)
(* The spanning forest search of cluster-mempool/linearize.ts and the      *)
(* linearization of one cluster built on it.  A chunk is a set of          *)
(* transactions; a dependency <<parent, child>> is active inside a chunk.  *)
(* Random choices of the code are nondeterministic, and so is the moment   *)
(* at which the cost budget runs out: the search may stop before any step  *)
(* of its second and third phase.                                          *)
(***************************************************************************)
EXTENDS ChunkOrder

CONSTANTS Clusters,     \* the graphs to linearize: records with parents and fee
          Hints         \* for each graph, the linearizations a caller may pass with it

VARIABLES g,            \* the cluster: a graph of the type of ChunkOrder
          hint,         \* existingLinearization
          phase,        \* load, topological, optimize, minimize, done
          toLoad,       \* what is left of the hint
          chunks,       \* partition of the transactions
          active,       \* active dependencies
          pending,      \* queue of the phase: chunks, or entries of minimizeSFL
          merged,       \* mergedChunks of makeTopological
          initDir,      \* its first direction
          lin           \* the linearization returned by linearizeCluster

vars == <<g, hint, phase, toLoad, chunks, active, pending, merged, initDir, lin>>

Txs == DOMAIN g.parents
Deps == UNION {{<<p, t>> : p \in g.parents[t] \cap Txs} : t \in Txs}
Directions == {"up", "down"}
None == "none"

Init ==
  /\ g \in Clusters
  /\ hint \in Hints[g]
  /\ phase = "load"
  /\ toLoad = hint
  /\ chunks = {{t} : t \in Txs}
  /\ active = {}
  /\ pending = {}
  /\ merged = {}
  /\ initDir = None
  /\ lin = <<>>

-----------------------------------------------------------------------------
ChunkOf(t) == CHOOSE c \in chunks : t \in c
Inside(S) == {d \in Deps : d[1] \in S /\ d[2] \in S}
Crossing(S, T) == {d \in Deps \ active : d[1] \in S /\ d[2] \in T}

(* pickMergeCandidateUp / Down: a parent chunk that does not pay more than c,
   the one that pays least; a child chunk that does not pay less, the one
   that pays most. *)
Candidates(c, dir) ==
  LET near == IF dir = "up"
              THEN {d \in chunks \ {c} : Crossing(d, c) # {} /\ ~HigherFeerate(g, d, c)}
              ELSE {d \in chunks \ {c} : Crossing(c, d) # {} /\ ~HigherFeerate(g, c, d)}
  IN {d \in near : \A e \in near : IF dir = "up" THEN ~HigherFeerate(g, d, e)
                                                 ELSE ~HigherFeerate(g, e, d)}

Merge_OneDependency(c, d) ==
  /\ chunks' = (chunks \ {c, d}) \cup {c \cup d}
  /\ active' = active \cup {CHOOSE e \in Crossing(c, d) \cup Crossing(d, c) : TRUE}
(* mergeChunks and activateInternalDeps. *)
Merge(c, d) ==
  /\ chunks' = (chunks \ {c, d}) \cup {c \cup d}
  /\ active' = active \cup Inside(c \cup d)

(* computeDepTopSet: what stays with the parent when d is cut, if that
   separates it from the child. *)
LinkedBy(S, on) == S \cup {t \in Txs : \E u \in S : <<t, u>> \in on \/ <<u, t>> \in on}
TopSet(c, d) ==
  LET linked[i \in 0..Cardinality(c)] ==
        IF i = 0 THEN {d[1]} ELSE LinkedBy(linked[i - 1], (active \cap Inside(c)) \ {d})
  IN linked[Cardinality(c)]
Cuts(c) == {d \in active \cap Inside(c) : d[2] \notin TopSet(c, d)}

(* splitAndMerge: cut d; if the child's side also holds a parent of the
   parent's side, the two sides are merged again. *)
Rejoins(c, d) ==
  LET top == TopSet(c, d)
  IN \E e \in Inside(c) \ {d} : e[1] \in c \ top /\ e[2] \in top
Top(c, d) == IF Rejoins(c, d) THEN {} ELSE TopSet(c, d)
Bottom(c, d) == c \ Top(c, d)
Split(c, d) ==
  /\ chunks' = (chunks \ {c}) \cup ({Top(c, d), Bottom(c, d)} \ {{}})
  /\ active' = (active \ Inside(c)) \cup Inside(Top(c, d)) \cup Inside(Bottom(c, d))

-----------------------------------------------------------------------------
(* spanningForestLinearize returns at once without dependencies. *)
NoDependencies ==
  /\ phase = "load"
  /\ Deps = {}
  /\ phase' = "done"
  /\ lin' = FlattenSeq(FinishChunks(g, SortByFeerate(g, Txs)))
  /\ UNCHANGED <<g, hint, toLoad, chunks, active, pending, merged, initDir>>

(* mergeUpwards, from the chunk of each transaction of the hint. *)
LoadHint ==
  /\ phase = "load"
  /\ Deps # {}
  /\ toLoad # <<>>
  /\ LET c == ChunkOf(Head(toLoad))
     IN IF Candidates(c, "up") # {}
        THEN /\ \E d \in Candidates(c, "up") : Merge(c, d)
             /\ UNCHANGED toLoad
        ELSE /\ toLoad' = Tail(toLoad)
             /\ UNCHANGED <<chunks, active>>
  /\ UNCHANGED <<g, hint, phase, pending, merged, initDir, lin>>

StartTopological ==
  /\ phase = "load"
  /\ Deps # {}
  /\ toLoad = <<>>
  /\ phase' = "topological"
  /\ pending' = chunks
  /\ initDir' \in Directions
  /\ UNCHANGED <<g, hint, toLoad, chunks, active, merged, lin>>

LooksAt_OneWay(c) == {initDir}
(* makeTopological: a chunk that was never merged looks one way only. *)
LooksAt(c) == IF c \in merged THEN Directions ELSE {initDir}
TopologicalStep ==
  /\ phase = "topological"
  /\ \E c \in pending :
       LET dirs == {dir \in LooksAt(c) : Candidates(c, dir) # {}}
       IN IF dirs # {}
          THEN \E dir \in dirs : \E d \in Candidates(c, dir) :
                 /\ Merge(c, d)
                 /\ pending' = (pending \ {c, d}) \cup {c \cup d}
                 /\ merged' = (merged \ {c, d}) \cup {c \cup d}
          ELSE /\ pending' = pending \ {c}
               /\ UNCHANGED <<chunks, active, merged>>
  /\ UNCHANGED <<g, hint, phase, toLoad, initDir, lin>>

TopologicalDone ==
  /\ phase = "topological"
  /\ pending = {}
  /\ phase' = "optimize"
  /\ pending' = chunks
  /\ UNCHANGED <<g, hint, toLoad, chunks, active, merged, initDir, lin>>

(* optimizeSFL: cut a chunk where the top pays more than the whole. *)
OptimizeStep ==
  /\ phase = "optimize"
  /\ \E c \in pending :
       LET better == {d \in Cuts(c) : HigherFeerate(g, TopSet(c, d), c)}
       IN IF better # {}
          THEN \E d \in better :
                 /\ Split(c, d)
                 /\ pending' = (pending \ {c}) \cup ({Top(c, d), Bottom(c, d)} \ {{}})
          ELSE /\ pending' = pending \ {c}
               /\ UNCHANGED <<chunks, active>>
  /\ UNCHANGED <<g, hint, phase, toLoad, merged, initDir, lin>>

(* An entry of the queue of minimizeSFL.  The pivot and the direction of a
   fresh entry are drawn when the entry is taken: nobody looks at them before. *)
Entry(c, pivots, downs, second) ==
  [chunk |-> c, pivots |-> pivots, downs |-> downs, second |-> second]
Fresh(c) == Entry(c, c, BOOLEAN, FALSE)

OptimizeDone ==
  /\ phase = "optimize"
  /\ pending = {}
  /\ phase' = "minimize"
  /\ pending' = {Fresh(c) : c \in chunks}
  /\ UNCHANGED <<g, hint, toLoad, chunks, active, merged, initDir, lin>>

Retry_Fresh(e, pivot, down) == {Fresh(e.chunk)}
Retry(e, pivot, down) == IF e.second THEN {} ELSE {Entry(e.chunk, {pivot}, {~down}, TRUE)}

(* minimizeChunkStep: cut where both sides pay the same, so that the pivot
   ends on the wanted side; try the other side once. *)
MinimizeStep ==
  /\ phase = "minimize"
  /\ \E e \in pending : \E pivot \in e.pivots, down \in e.downs :
       LET c == e.chunk
           even == {d \in Cuts(c) : SameFeerate(g, TopSet(c, d), c)}
           wanted == {d \in even : down = (pivot \notin TopSet(c, d))}
           again(S) == Entry(S, {pivot}, {down}, e.second)
       IN IF wanted # {}
          THEN \E d \in wanted :
                 /\ Split(c, d)
                 /\ pending' = (pending \ {e}) \cup
                      IF down THEN {again(Bottom(c, d))} \cup {Fresh(S) : S \in {Top(c, d)} \ {{}}}
                              ELSE {Fresh(Bottom(c, d))} \cup {again(S) : S \in {Top(c, d)} \ {{}}}
          ELSE /\ pending' = (pending \ {e}) \cup
                    IF even # {} THEN Retry(e, pivot, down) ELSE {}
               /\ UNCHANGED <<chunks, active>>
  /\ UNCHANGED <<g, hint, phase, toLoad, merged, initDir, lin>>

(* The queue is empty, or the cost has reached the budget. *)
Finish ==
  /\ phase \in {"optimize", "minimize"}
  /\ phase' = "done"
  /\ lin' = FlattenSeq(FinishChunks(g, ExtractLinearization(g, chunks)))
  /\ pending' = {}
  /\ UNCHANGED <<g, hint, toLoad, chunks, active, merged, initDir>>

Search == \/ NoDependencies \/ LoadHint \/ StartTopological \/ TopologicalStep
          \/ TopologicalDone \/ OptimizeStep \/ OptimizeDone \/ MinimizeStep
Next == Search \/ Finish
Spec == Init /\ [][Next]_vars

-----------------------------------------------------------------------------
Done == phase = "done"
Pos(s, t) == CHOOSE i \in DOMAIN s : s[i] = t

(* Every transaction once, after its parents. *)
Topological(s) ==
  /\ Len(s) = Cardinality(Txs)
  /\ ToSet(s) = Txs
  /\ \A d \in Deps : Pos(s, d[1]) < Pos(s, d[2])
LinearizationIsTopological == Done => Topological(lin)

(* The incremental bookkeeping of active dependencies is exact: those inside
   the chunks, whatever was merged and split before. *)
ActiveIsInternal == active = UNION {Inside(c) : c \in chunks}

(* The result cut into chunks again, as its callers do, and these ordered
   again, is the result. *)
ChunksReproduce == Done => FlattenSeq(CanonicalOrder(g, Chunkify(g, lin))) = lin

(* The optimisation starts from chunks whose parents pay more. *)
CrossDescends ==
  \A c, d \in chunks :
    c # d /\ (\E e \in Deps : e[1] \in c /\ e[2] \in d) => HigherFeerate(g, c, d)
OptimizesTopological == phase = "topological" /\ phase' = "optimize" => CrossDescends

(* What is left to do in the phase: it shrinks with every step that does not
   enter a later phase, so that the search ends even when its budget is never
   reached. *)
Rank == [load |-> 4, topological |-> 3, optimize |-> 2, minimize |-> 1, done |-> 0]
Left ==
  CASE phase = "load" -> Cardinality(chunks) + Len(toLoad)
    [] phase = "topological" -> Cardinality(chunks) + Cardinality(pending)
    [] phase = "optimize" -> 2 * Cardinality(active) + Cardinality(pending)
    [] phase = "minimize" -> 3 * Cardinality(active) + Cardinality(pending)
                                + Cardinality({e \in pending : ~e.second})
    [] OTHER -> 0
Advances == Rank[phase'] < Rank[phase] \/ (phase' = phase /\ Left' \in 0..(Left - 1))
=============================================================================
